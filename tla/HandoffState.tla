---------------------------- MODULE HandoffState ----------------------------
(***************************************************************************)
(* The state of two paired pg-fc nodes during the physical handoff of one  *)
(* database, and the decisions a node takes from it: what a VM admits,     *)
(* where a tenant connection is routed, which VM a checkout returns.       *)
(* Code: pg-fc/src/registry.rs and writer_routing.rs.                      *)
(*                                                                         *)
(* Abstractions.  A VM's WAL is the sequence of what a handoff must not    *)
(* lose (tenant commits) or must replay (admission changes); an LSN is a   *)
(* length.  A node's first VM is named by the node and a candidate VM by   *)
(* its generation (the code names it repl-seed-<generation>).  Sessions on *)
(* the old logical replica VM are not writers of this lineage and are left *)
(* out.                                                                    *)
(***************************************************************************)
EXTENDS PhysicalStore, FiniteSets

CONSTANTS
    Nodes,          \* the two paired nodes
    Home,           \* the node that is the logical primary at the start
    Gens,           \* generations an operator may use, each for one preparation
    Clients,        \* tenant connections
    Doors,          \* the nodes that tenants connect to
    MaxCommits,     \* bound on tenant commits
    MaxFences,      \* bound on operator fences of one VM
    Uses,           \* operations the operator uses, of UseKinds
    Faults          \* faults that happen, of FaultKinds

UseKinds   == {"fence", "selective", "standby", "reseed"}
FaultKinds == {"crash", "abort", "loss"}

ASSUME HandoffAssumption ==
    /\ Home \in Nodes /\ \E m \in Nodes : m # Home /\ Nodes = {m, Home}
    /\ Nodes \cap Gens = {} /\ None \notin Nodes \cup Gens
    /\ Doors \subseteq Nodes
    /\ MaxCommits \in Nat /\ MaxFences \in Nat
    /\ Uses \subseteq UseKinds /\ Faults \subseteq FaultKinds

Peer(n) == CHOOSE m \in Nodes : m # n

VMs == Nodes \cup Gens

\* What the two journals hold, with the fields PhysicalStore keeps of them.
Grants == [cand : Gens, barrier : Nat]
SourceRecords ==
    [gen : Gens, pred : Gens \cup {None}, vm : VMs, lsn : Nat,
     fence : {None, "intent", "ready"}, barrier : Nat \cup {None},
     cand : Gens \cup {None}, grant : Grants \cup {None}, complete : BOOLEAN]
CandidateRecords ==
    [gen : Gens, pred : Gens \cup {None}, cand : Gens \cup {None}, prev : VMs, srcVm : VMs,
     phase : ToSet(Phases), barrier : Nat \cup {None}, standbyLsn : Nat \cup {None}]

\* An absent value is told from every value there is.
ASSUME NoneAssumption ==
    /\ None \notin SourceRecords \cup CandidateRecords \cup Grants \cup Nat
    /\ None \notin {"intent", "ready", "unfencing", "hard", "selective"}

VARIABLES
    \* Durable, one per node.
    source,         \* PhysicalSourceStore
    physical,       \* PhysicalStore
    bound,          \* the database's VM in the serving store
    logical,        \* the logical pairing: role, whether it failed or was removed
    lfence,         \* the fence of the logical record: phase, mode and VM
    \* Durable, one per VM.
    vm,             \* [mode, wal, promo, src]: what it runs, its WAL, the
                    \* guest's promotion journal, and the VM it was copied from
    creates,        \* create requests sent for a candidate's name
    lost,           \* generations whose replication slot is lost
    \* Volatile.
    op,             \* the operation holding a node's mutex
    seeds,          \* queued seed workers
    msgs,           \* requests and answers on the network
    sess,           \* tenant connections
    acked           \* tenant commits acknowledged

journals == <<source, physical>>
serving  == <<bound, logical, lfence>>
guests   == <<vm, creates, lost>>
control  == <<op, seeds, msgs>>
tenants  == <<sess, acked>>
vars     == <<journals, serving, guests, control, tenants>>

-----------------------------------------------------------------------------
(* WAL and admission *)

\* WAL records: a positive number is a tenant commit.
Close   == -1       \* ALTER DATABASE ... ALLOW_CONNECTIONS false
Open    == -2       \* ALTER DATABASE ... ALLOW_CONNECTIONS true
NoLogin == -3       \* ALTER ROLE owner NOLOGIN and REVOKE CONNECT
Login   == -4       \* ALTER ROLE owner LOGIN and GRANT CONNECT

\* The switch that records "on" and "off" turn is on, as it is at first.
SwitchedOn(w, on, off) ==
    \A i \in DOMAIN w : w[i] = off => \E k \in DOMAIN w : k > i /\ w[k] = on

Allows(v)     == SwitchedOn(vm[v].wal, Open, Close)     \* datallowconn
rolcanlogin(v) == SwitchedOn(vm[v].wal, Login, NoLogin)
Admits(v)     == Allows(v) /\ rolcanlogin(v)
Commits(v) == {vm[v].wal[i] : i \in {k \in DOMAIN vm[v].wal : vm[v].wal[k] > 0}}
Lsn(v)     == Len(vm[v].wal)

\* An ALTER that changes nothing is not recorded again.
Write(v, r, changes) ==
    IF changes THEN [vm EXCEPT ![v].wal = Append(@, r)] ELSE vm

Attached(v) == {c \in Clients : sess[c].at = "attached" /\ sess[c].vm = v}

\* VMs on which a tenant can write now.
Writable == {v \in VMs : vm[v].mode = "primary" /\ (Admits(v) \/ Attached(v) # {})}

-----------------------------------------------------------------------------
(* Admission and routing decisions of a node *)

Src(n)  == source[n].cur
Cand(n) == physical[n].cur

has_grant(n) == grant_for_source_vm(source[n], bound[n]) # None

physical_source_fenced(n) ==
    Src(n) # None /\ Src(n).fence # None /\ Src(n).vm = bound[n]

is_fenced(n) == lfence[n].phase # None

physical_admission_ready(n) ==
    /\ ~has_grant(n)
    /\ ~physical_source_fenced(n)
    /\ Cand(n) # None =>
          \/ Cand(n).phase \in {"standby", "activated"} /\ Cand(n).cand = bound[n]
          \/ /\ ~handoff_started(Cand(n))
             /\ Cand(n).phase \notin {"standby", "standby_binding"}
             /\ Cand(n).prev = bound[n]

\* writer_routing::route, the three outcomes it can have on this node.
SourceRoute(n) == Src(n) # None /\ Src(n).vm = bound[n]

RouteByGrant(n) == SourceRoute(n) /\ Src(n).grant # None

RouteToInitialSource(n) ==
    /\ ~(SourceRoute(n) /\ (Src(n).grant # None \/ Src(n).fence # None))
    /\ Cand(n) # None
    /\ Cand(n).phase = "verified" /\ Cand(n).pred = None
    /\ Cand(n).prev = bound[n]

RouteLocal(n) ==
    /\ ~(SourceRoute(n) /\ (Src(n).grant # None \/ Src(n).fence # None))
    /\ Cand(n) # None => /\ Cand(n).phase \in {"standby", "activated"}
                         /\ Cand(n).cand = bound[n]
                         /\ Cand(n).phase = "activated" => physical_admission_ready(n)

\* maintenance_client reaches the bound VM: only a fenced one.
maintenance_ok(n) ==
    physical_source_fenced(n) \/ (is_fenced(n) /\ lfence[n].vm = bound[n])

\* SchemaRegistry::checkout answers with the bound VM.
checkout_ok(n) ==
    /\ Cand(n) # None => Cand(n).phase # "standby_binding"
    /\ \/ physical_source_fenced(n)
       \/ has_grant(n) /\ maintenance_ok(n)
       \/ /\ ~has_grant(n)
          /\ \/ Cand(n) # None /\ Cand(n).phase \in {"standby", "activated"}
                /\ Cand(n).cand = bound[n]
             \/ /\ Cand(n) # None => /\ ~handoff_started(Cand(n))
                                     /\ Cand(n).phase # "standby"
                /\ IF is_fenced(n) THEN maintenance_ok(n)
                                   ELSE physical_admission_ready(n)

\* validate_destination for a claim forwarded by the peer.
validate_destination(n, claim) ==
    /\ physical_admission_ready(n)
    /\ ~is_fenced(n)
    /\ \/ /\ claim.kind = "activation"
          /\ Cand(n) # None
          /\ Cand(n).phase = "activated" /\ Cand(n).gen = claim.gen
          /\ Cand(n).cand = claim.cand /\ bound[n] = claim.cand
          /\ Cand(n).srcVm = claim.srcVm
          /\ ~(SourceRoute(n) /\ (Src(n).grant # None \/ Src(n).fence # None))
       \/ /\ claim.kind = "initial"
          /\ Src(n) # None
          /\ Src(n).gen = claim.gen /\ Src(n).pred = None
          /\ Src(n).vm = claim.srcVm /\ bound[n] = claim.srcVm
          /\ Src(n).grant = None /\ Src(n).fence = None
          /\ logical[n] = "primary"

\* validate_sender: an initial claim is confirmed with the peer that sent it.
validate_sender(n, claim) ==
    claim.kind = "initial" =>
        LET k == Cand(Peer(n)) IN
        /\ k # None
        /\ k.phase = "verified" /\ k.gen = claim.gen /\ k.cand = claim.cand
        /\ k.srcVm = claim.srcVm

=============================================================================
