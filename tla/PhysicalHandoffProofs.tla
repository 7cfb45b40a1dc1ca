------------------------ MODULE PhysicalHandoffProofs ------------------------
(***************************************************************************)
(* Machine-checked proofs about PhysicalHandoff: for any number of         *)
(* generations (so any number of handoffs back and forth), tenants and     *)
(* commits, and every set of operator actions and faults, at most one VM   *)
(* lets a tenant write, no grant is taken back and no phase goes back.     *)
(*                                                                         *)
(* The argument.  Generations are used once, so that the VMs a node binds  *)
(* and the candidates it seeds are its own and never the peer's.  A record *)
(* whose fence is ready is of a primary that is shut: closed, and without  *)
(* sessions.  Only two steps reopen a VM: unfence, which looks at the      *)
(* records of the bound VM first, and the admission of a candidate that is *)
(* not activated yet and has no record.  So a grant stands for a shut VM   *)
(* for ever.  A VM is promoted only under a grant for it, grants are given *)
(* only by the one primary that has given none, and as long as a grant     *)
(* waits for its candidate to be promoted there is no such primary.        *)
(***************************************************************************)
EXTENDS PhysicalHandoff, FiniteSetTheorems, TLAPS

-----------------------------------------------------------------------------
(* Types *)

SourceJournals    == [cur : SourceRecords \cup {None}, hist : Seq(SourceRecords)]
CandidateJournals == [cur : CandidateRecords \cup {None}, hist : Seq(CandidateRecords)]

Provisions == [kind : {"provision"}, to : Nodes, gen : Gens, pred : Gens \cup {None},
               vm : VMs, lsn : Nat, reseed : BOOLEAN]
Binds      == [kind : {"bind"}, to : Nodes, gen : Gens, cand : Gens, vm : VMs, lsn : Nat]
Handoffs   == [kind : {"handoff"}, to : Nodes, gen : Gens, cand : Gens, vm : VMs, barrier : Nat]
Answers    == [kind : {"activated"}, to : Nodes, gen : Gens, cand : Gens]

Promotions == {"none", "prepared", "promoting", "promoted"}
GuestState == [mode : VmModes, wal : Seq(Int), promo : Promotions, src : VMs \cup {None}]

OpKinds == {"idle", "seed", "bind", "handoff", "accept", "fence", "unfence"}
OpStages == {"create", "find", "run", "verify", "advance", "authorize", "fence", "close", "drain",
             "grant", "begin", "retire", "open", "activate", "clear"}
Operations ==
    [kind : OpKinds, step : OpStages \cup {None},
     req : Provisions \cup Handoffs \cup Gens \cup {None, "hard", "selective"}]

Claims   == [kind : {"activation", "initial"}, gen : Gens, cand : Gens, srcVm : VMs]
Sessions == [at : {"off", "admitted", "claim", "vetted", "routed", "attached"},
             node : Nodes \cup {None}, vm : VMs \cup {None}, claim : Claims \cup {None}]
Fences   == [phase : {None, "intent", "ready", "unfencing"}, mode : {None, "hard", "selective"},
             vm : VMs \cup {None}]

JournalType  == source \in [Nodes -> SourceJournals] /\ physical \in [Nodes -> CandidateJournals]
ServingType  ==
    /\ bound \in [Nodes -> VMs]
    /\ logical \in [Nodes -> {"primary", "replica", "failed_primary", "failed_replica", "removed"}]
    /\ lfence \in [Nodes -> Fences]
    /\ \A n \in Nodes : /\ lfence[n].phase = None <=> lfence[n].mode = None
                        /\ lfence[n].phase = None <=> lfence[n].vm = None
GuestType    ==
    /\ vm \in [VMs -> GuestState] /\ creates \in [Gens -> Nat] /\ lost \subseteq Gens
    /\ \A v \in VMs : vm[v].mode \in {"seeding", "standby"} => vm[v].src \in VMs
ControlType  ==
    /\ op \in [Nodes -> Operations]
    /\ seeds \in [Nodes -> SUBSET Provisions]
    /\ msgs \subseteq Provisions \cup Binds \cup Handoffs \cup Answers
TenantType   ==
    /\ sess \in [Clients -> Sessions]
    /\ \A c \in Clients : /\ sess[c].at \in {"routed", "attached"} => sess[c].vm \in VMs
                          /\ sess[c].at \in {"admitted", "claim", "vetted"} => sess[c].node \in Nodes
    /\ acked \in SUBSET (1 .. MaxCommits)

StateType == JournalType /\ ServingType /\ GuestType /\ ControlType /\ TenantType

-----------------------------------------------------------------------------
(* The parts of the invariant *)

\* A source record of node n for generation g on VM v.
Prepared(n, g, p, v) == \E r \in Records(source[n]) : r.gen = g /\ r.pred = p /\ r.vm = v

\* A grant of node n's VM v to candidate g.
Granted(n, g, v, b) ==
    \E r \in Records(source[n]) : /\ r.gen = g /\ r.vm = v
                                  /\ r.grant # None /\ r.grant.cand = g /\ r.grant.barrier = b

\* The VMs a node may bind: its first one, and the candidates of its peer's
\* generations.
Own(n) == {n} \cup {r.gen : r \in Records(source[Peer(n)])}

\* A generation is prepared by one node; what a node seeds, the peer prepared.
GenInv ==
    /\ \A n \in Nodes : \A r \in Records(source[n]), q \in Records(source[Peer(n)]) : r.gen # q.gen
    /\ \A n \in Nodes : \A k \in Records(physical[n]) : Prepared(Peer(n), k.gen, k.pred, k.srcVm)
    /\ \A m \in msgs : m.kind = "provision" => Prepared(Peer(m.to), m.gen, m.pred, m.vm)
    /\ \A n \in Nodes : \A m \in seeds[n] : m.to = n /\ Prepared(Peer(n), m.gen, m.pred, m.vm)

\* A candidate's VM is named by its generation, which no older record of the
\* journal has.
CandInv ==
    \A n \in Nodes :
        /\ \A k \in Records(physical[n]) :
              k.cand = IF k.phase \in {"intent", "creating"} THEN None ELSE k.gen
        /\ \A k \in ToSet(physical[n].hist) : Cand(n) # None /\ k.gen # Cand(n).gen

\* A node binds its own VMs, and prepares the handoff of those it bound: its first
\* one or an activated one.
BoundInv ==
    /\ \A n \in Nodes :
        /\ bound[n] \in Own(n)
        /\ bound[n] # n => Cand(n) # None
        /\ \A r \in Records(source[n]) :
              r.vm = n \/ \E k \in Records(physical[n]) : k.phase = "activated" /\ k.cand = r.vm
        /\ \A r \in ToSet(source[n].hist) :
              /\ Src(n) # None
              /\ r.vm = bound[n] => Src(n).vm = bound[n]
              /\ r.vm = Src(n).vm => r.fence = None /\ r.grant = None
        /\ logical[n] \in {"primary", "failed_primary"} => n = Home
        /\ logical[n] \in {"replica", "failed_replica"} => n # Home
    /\ Cand(Home) # None => Src(Home) # None

\* A VM that is shut: a primary that is closed and has no session.
Shut(v) == vm[v].mode = "primary" /\ ~Allows(v) /\ Attached(v) = {}

\* A ready fence stands for a shut VM; a grant is given under a ready fence.
ShutInv ==
    \A n \in Nodes : \A r \in Records(source[n]) :
        /\ vm[r.vm].mode = "primary"
        /\ r.fence = "ready" => r.barrier \in Nat /\ Shut(r.vm)
        /\ r.grant # None => r.fence = "ready"

\* What the holder of a mutex may rely on.
SeedOp(n) ==
    op[n].kind = "seed" =>
        /\ op[n].req \in Provisions /\ op[n].req.to = n
        /\ Cand(n) # None /\ Cand(n).gen = op[n].req.gen /\ Cand(n).srcVm = op[n].req.vm
        /\ op[n].step = "create" => Cand(n).phase = "creating" /\ creates[Cand(n).gen] = 0

BindOp(n) == op[n].kind = "bind" => Cand(n) # None /\ Cand(n).phase = "standby_binding"

HandoffOp(n) ==
    op[n].kind = "handoff" =>
        /\ op[n].req \in Gens
        /\ Src(n) # None /\ Src(n).vm = bound[n] /\ Src(n).gen = op[n].req
        /\ op[n].step = "drain" => ~Allows(bound[n])
        /\ op[n].step = "grant" => Src(n).fence = "ready"

AcceptOp(n) ==
    op[n].kind = "accept" =>
        /\ Cand(n) # None
        /\ op[n].step \in {"grant", "begin"} =>
              /\ op[n].req \in Handoffs
              /\ Cand(n).phase \in {"verified", "standby"}
              /\ Cand(n).gen = op[n].req.gen /\ Cand(n).srcVm = op[n].req.vm
              /\ Cand(n).cand = op[n].req.cand
        /\ op[n].step = "begin" =>
              Granted(Peer(n), op[n].req.gen, op[n].req.vm, op[n].req.barrier)
        /\ op[n].step = "run" => handoff_started(Cand(n)) /\ Cand(n).phase # "activated"
        /\ op[n].step \in {"retire", "open", "activate"} =>
              Cand(n).phase = "binding" /\ bound[n] = Cand(n).cand

UnfenceOp(n) ==
    Holds(n, "unfence", "open") =>
        \A r \in Records(source[n]) : r.vm = bound[n] => r.fence # "ready"

FenceOp(n) == op[n].kind = "fence" => is_fenced(n)

NodeOp(n) == SeedOp(n) /\ BindOp(n) /\ HandoffOp(n) /\ AcceptOp(n) /\ UnfenceOp(n) /\ FenceOp(n)

OpInv == \A n \in Nodes : NodeOp(n)

\* A candidate is promoted under a grant for it, and activated when it is promoted
\* and bound.
PromoteInv ==
    /\ \A n \in Nodes : \A k \in Records(physical[n]) :
          handoff_started(k) => k.barrier \in Nat /\ Granted(Peer(n), k.gen, k.srcVm, k.barrier)
    /\ \A g \in Gens : vm[g].promo # "none" =>
          \E n \in Nodes : \E k \in Records(physical[n]) : k.gen = g /\ handoff_started(k)
    /\ \A g \in Gens : /\ vm[g].mode = "primary" => vm[g].promo \in {"promoting", "promoted"}
                       /\ vm[g].promo = "prepared" => vm[g].mode = "standby"
                       /\ vm[g].promo = "promoting" => vm[g].mode \in {"standby", "primary"}
                       /\ vm[g].promo = "promoted" => vm[g].mode = "primary"
    /\ \A n \in Nodes : /\ vm[n].promo = "none" /\ vm[n].mode \in {"primary", "logical"}
                        /\ vm[n].mode = "primary" => n = Home
    /\ \A n \in Nodes : Cand(n) # None =>
          /\ Cand(n).phase \in {"promoted", "binding", "activated"} => vm[Cand(n).gen].promo = "promoted"
          /\ Cand(n).phase = "activated" => bound[n] = Cand(n).cand

\* The create request of a candidate is sent once.
CreateInv ==
    /\ \A g \in Gens : /\ creates[g] <= 1
                       /\ creates[g] # 0 => \E n \in Nodes : \E k \in Records(physical[n]) :
                                                k.gen = g /\ k.phase # "intent"

\* Primaries that have not been granted away, and grants whose candidate is not a
\* primary yet.
Ungranted(v) ==
    /\ vm[v].mode = "primary"
    /\ \A n \in Nodes : \A r \in Records(source[n]) : r.vm = v => r.grant = None

Pending(n, r) == r \in Records(source[n]) /\ r.grant # None /\ vm[r.grant.cand].mode # "primary"

\* There is one writer at most: either the one primary not granted away, or, when
\* there is none, the candidate of the one grant that waits.
WriterInv ==
    /\ \A v, w \in VMs : Ungranted(v) /\ Ungranted(w) => v = w
    /\ \A n \in Nodes : \A r \in Records(source[n]) : Pending(n, r) => \A v \in VMs : ~Ungranted(v)
    /\ \A n, m \in Nodes : \A r \in Records(source[n]), q \in Records(source[m]) :
          Pending(n, r) /\ Pending(m, q) => r.grant.cand = q.grant.cand

\* What does not depend on who holds which mutex.
Core == GenInv /\ CandInv /\ BoundInv /\ ShutInv /\ PromoteInv /\ CreateInv /\ WriterInv

HandoffInv == StateType /\ Core /\ OpInv

-----------------------------------------------------------------------------
(* The two nodes *)

\* Each node has one peer, and is its peer's peer.
LEMMA PeerFacts ==
    ASSUME NEW n \in Nodes
    PROVE  /\ Peer(n) \in Nodes /\ Peer(n) # n /\ Peer(Peer(n)) = n
           /\ \A m \in Nodes : m = n \/ m = Peer(n)
<1>1. PICK o \in Nodes : o # Home /\ Nodes = {o, Home}
  BY HandoffAssumption
<1>2. \A m \in Nodes : \E k \in Nodes : k # m
  BY <1>1
<1>3. \A m \in Nodes : Peer(m) \in Nodes /\ Peer(m) # m
  BY <1>2 DEF Peer
<1> QED
  BY <1>1, <1>3

-----------------------------------------------------------------------------
(* Journals *)

\* A method that rewrites the current record leaves the history as it is.
LEMMA UpdateRecords ==
    ASSUME NEW S, None \notin S, NEW j \in [cur : S \cup {None}, hist : Seq(S)], NEW r \in S
    PROVE  /\ Update(j, r) \in [cur : S \cup {None}, hist : Seq(S)]
           /\ Update(j, r).cur = r /\ Update(j, r).hist = j.hist
           /\ Records(Update(j, r)) = ToSet(j.hist) \cup {r}
           /\ Records(j) \subseteq S /\ ToSet(j.hist) \subseteq Records(j)
           /\ j.cur # None => j.cur \in Records(j) /\ Records(j) = ToSet(j.hist) \cup {j.cur}
<1>1. /\ Update(j, r) \in [cur : S \cup {None}, hist : Seq(S)]
      /\ Update(j, r).cur = r /\ Update(j, r).hist = j.hist
  BY DEF Update
<1>2. Records(Update(j, r)) = ToSet(j.hist) \cup {r}
  BY <1>1 DEF Records
<1>3. ToSet(j.hist) \subseteq S
  BY DEF ToSet
<1> QED
  BY <1>1, <1>2, <1>3 DEF Records

\* A method that creates a record keeps all the others.
LEMMA SupersedeRecords ==
    ASSUME NEW S, None \notin S, NEW j \in [cur : S \cup {None}, hist : Seq(S)], NEW r \in S
    PROVE  /\ Supersede(j, r) \in [cur : S \cup {None}, hist : Seq(S)]
           /\ Supersede(j, r).cur = r
           /\ ToSet(Supersede(j, r).hist) = Records(j)
           /\ Records(Supersede(j, r)) = Records(j) \cup {r}
<1>1. /\ Supersede(j, r).cur = r
      /\ Supersede(j, r).hist = IF j.cur = None THEN j.hist ELSE Append(j.hist, j.cur)
  BY DEF Supersede
<1>2. j.hist \in Seq(S) /\ (j.cur # None => j.cur \in S)
  OBVIOUS
<1>3. \A x \in S : /\ Append(j.hist, x) \in Seq(S)
                   /\ ToSet(Append(j.hist, x)) = ToSet(j.hist) \cup {x}
  <2>1. ASSUME NEW x \in S PROVE ToSet(Append(j.hist, x)) = ToSet(j.hist) \cup {x}
    <3>1. /\ DOMAIN Append(j.hist, x) = DOMAIN j.hist \cup {Len(j.hist) + 1}
          /\ \A i \in DOMAIN j.hist : Append(j.hist, x)[i] = j.hist[i]
          /\ Append(j.hist, x)[Len(j.hist) + 1] = x
      BY <1>2
    <3> QED
      BY <3>1 DEF ToSet
  <2> QED
    BY <1>2, <2>1
<1>4. ToSet(Supersede(j, r).hist) = Records(j)
  BY <1>1, <1>2, <1>3 DEF Records
<1>5. Supersede(j, r) \in [cur : S \cup {None}, hist : Seq(S)]
  BY <1>1, <1>2, <1>3 DEF Supersede
<1> QED
  BY <1>1, <1>4, <1>5 DEF Records

-----------------------------------------------------------------------------
(* Write-ahead log *)

\* A switch is where the last record that turns it left it.
LEMMA SwitchAppend ==
    ASSUME NEW w \in Seq(Int), NEW x \in Int, NEW on \in Int, NEW off \in Int, on # off
    PROVE  /\ x = on => SwitchedOn(Append(w, x), on, off)
           /\ x = off => ~SwitchedOn(Append(w, x), on, off)
           /\ x # on /\ x # off => (SwitchedOn(Append(w, x), on, off) <=> SwitchedOn(w, on, off))
<1> DEFINE u == Append(w, x)
<1>1. /\ DOMAIN u = 1 .. Len(w) + 1 /\ DOMAIN w = 1 .. Len(w) /\ Len(w) \in Nat
      /\ u[Len(w) + 1] = x /\ \A i \in 1 .. Len(w) : u[i] = w[i]
  OBVIOUS
<1> HIDE DEF u
<1>2. x = on => SwitchedOn(u, on, off)
  BY <1>1 DEF SwitchedOn
<1>3. x = off => ~SwitchedOn(u, on, off)
  <2> SUFFICES ASSUME x = off, SwitchedOn(u, on, off) PROVE FALSE
    OBVIOUS
  <2>1. PICK k \in DOMAIN u : k > Len(w) + 1 /\ u[k] = on
    BY <1>1 DEF SwitchedOn
  <2> QED
    BY <1>1, <2>1
<1>4. ASSUME x # on, x # off PROVE SwitchedOn(u, on, off) <=> SwitchedOn(w, on, off)
  <2>1. ASSUME SwitchedOn(u, on, off), NEW i \in DOMAIN w, w[i] = off
        PROVE  \E k \in DOMAIN w : k > i /\ w[k] = on
    <3>1. PICK k \in DOMAIN u : k > i /\ u[k] = on
      BY <1>1, <2>1 DEF SwitchedOn
    <3>2. k # Len(w) + 1
      BY <1>1, <1>4, <3>1
    <3> QED
      BY <1>1, <3>1, <3>2
  <2>2. ASSUME SwitchedOn(w, on, off), NEW i \in DOMAIN u, u[i] = off
        PROVE  \E k \in DOMAIN u : k > i /\ u[k] = on
    <3>1. i \in DOMAIN w /\ w[i] = off
      BY <1>1, <1>4, <2>2
    <3>2. PICK k \in DOMAIN w : k > i /\ w[k] = on
      BY <2>2, <3>1 DEF SwitchedOn
    <3> QED
      BY <1>1, <3>2
  <2> QED
    BY <2>1, <2>2 DEF SwitchedOn
<1> QED
  BY <1>2, <1>3, <1>4 DEF u

\* The current record of a journal is one of its records, and all have their type.
LEMMA RecordTypes ==
    ASSUME StateType, NEW n \in Nodes
    PROVE  /\ source[n] \in SourceJournals /\ Records(source[n]) \subseteq SourceRecords
           /\ ToSet(source[n].hist) \subseteq Records(source[n])
           /\ Src(n) # None => /\ Src(n) \in SourceRecords /\ Src(n) \in Records(source[n])
                               /\ Records(source[n]) = ToSet(source[n].hist) \cup {Src(n)}
           /\ physical[n] \in CandidateJournals /\ Records(physical[n]) \subseteq CandidateRecords
           /\ ToSet(physical[n].hist) \subseteq Records(physical[n])
           /\ Cand(n) # None => /\ Cand(n) \in CandidateRecords /\ Cand(n) \in Records(physical[n])
                                /\ Records(physical[n]) = ToSet(physical[n].hist) \cup {Cand(n)}
<1>1. source[n] \in SourceJournals /\ physical[n] \in CandidateJournals
  BY DEF StateType, JournalType
<1>2. source[n].cur \in SourceRecords \cup {None} /\ source[n].hist \in Seq(SourceRecords)
  BY <1>1 DEF SourceJournals
<1>3. physical[n].cur \in CandidateRecords \cup {None} /\ physical[n].hist \in Seq(CandidateRecords)
  BY <1>1 DEF CandidateJournals
<1>4. ToSet(source[n].hist) \subseteq SourceRecords /\ ToSet(physical[n].hist) \subseteq CandidateRecords
  BY <1>2, <1>3 DEF ToSet
<1> QED
  BY <1>1, <1>2, <1>3, <1>4 DEF Records, Src, Cand

-----------------------------------------------------------------------------
(* Whose a VM is *)

\* The VMs of the two nodes are disjoint, and what a node binds, prepares and seeds
\* is its own.
LEMMA Owned ==
    ASSUME StateType, Core, NEW n \in Nodes
    PROVE  /\ \A v \in Own(n) : v \notin Own(Peer(n))
           /\ bound[n] \in Own(n)
           /\ \A k \in Records(physical[n]) : k.gen \in Own(n)
           /\ \A r \in Records(source[n]) : r.vm \in Own(n)
<1> USE PeerFacts DEF Core
<1>1. \A v \in Own(n) : v \notin Own(Peer(n))
  <2>1. \A r \in Records(source[n]) : r.gen \notin Nodes
    BY RecordTypes, HandoffAssumption DEF SourceRecords
  <2>2. \A r \in Records(source[Peer(n)]) : r.gen \notin Nodes
    BY RecordTypes, HandoffAssumption DEF SourceRecords
  <2> QED
    BY <2>1, <2>2 DEF GenInv, Own
<1>2. \A k \in Records(physical[n]) : k.gen \in Own(n)
  BY DEF GenInv, Prepared, Own
<1>3. ASSUME NEW r \in Records(source[n]) PROVE r.vm \in Own(n)
  <2>1. CASE r.vm = n
    BY <2>1 DEF Own
  <2>2. ASSUME NEW k \in Records(physical[n]), k.phase = "activated", k.cand = r.vm
        PROVE  r.vm \in Own(n)
    <3>1. k.cand = k.gen
      BY <2>2 DEF CandInv
    <3> QED
      BY <1>2, <2>2, <3>1
  <2> QED
    BY <2>1, <2>2 DEF BoundInv
<1> QED
  BY <1>1, <1>2, <1>3 DEF BoundInv

\* No source record names a candidate that is not activated yet.
LEMMA NoRecordYet ==
    ASSUME StateType, Core, NEW n \in Nodes, Cand(n) # None,
           Cand(n).phase \notin {"activated", "intent", "creating"}
    PROVE  /\ Cand(n).cand = Cand(n).gen /\ Cand(n).gen \in Gens
           /\ \A m \in Nodes : \A r \in Records(source[m]) : r.vm # Cand(n).gen
<1> USE PeerFacts DEF Core
<1>1. /\ Cand(n) \in Records(physical[n]) /\ Cand(n).gen \in Gens
      /\ Records(physical[n]) = ToSet(physical[n].hist) \cup {Cand(n)}
  BY RecordTypes DEF CandidateRecords
<1>2. Cand(n).cand = Cand(n).gen
  BY <1>1 DEF CandInv
<1>3. \A r \in Records(source[Peer(n)]) : r.vm # Cand(n).gen
  BY <1>1, Owned
<1>4. ASSUME NEW r \in Records(source[n]), r.vm = Cand(n).gen PROVE FALSE
  <2>1. r.vm # n
    BY <1>1, <1>4, HandoffAssumption
  <2>2. PICK k \in Records(physical[n]) : k.phase = "activated" /\ k.cand = r.vm
    BY <2>1 DEF BoundInv
  <2>3. k.gen = Cand(n).gen
    BY <1>4, <2>2 DEF CandInv
  <2>4. k = Cand(n)
    BY <1>1, <2>3 DEF CandInv
  <2> QED
    BY <2>2, <2>4
<1> QED
  BY <1>1, <1>2, <1>3, <1>4

-----------------------------------------------------------------------------
(* Kinds of steps, and the parts of the invariant they keep *)

\* Provision requests and queued seeds are those there were, or for a prepared
\* generation.
Traceable ==
    /\ \A m \in msgs' : m.kind = "provision" =>
          m.to \in Nodes /\ (m \in msgs \/ Prepared(Peer(m.to), m.gen, m.pred, m.vm))
    /\ \A n \in Nodes : \A m \in seeds'[n] :
          m \in seeds[n] \/ (m.to = n /\ Prepared(Peer(n), m.gen, m.pred, m.vm))

\* Steps on mutexes, messages, tenants and the fences of the logical record.
LEMMA ControlCore ==
    ASSUME StateType, Core, UNCHANGED <<source, physical, bound, logical, vm, creates>>, Traceable,
           \A v \in VMs : ~Allows(v) /\ Attached(v) = {} => Attached(v)' = {}
    PROVE  Core'
<1> USE DEF Core
<1>1. GenInv' /\ CandInv' /\ BoundInv' /\ CreateInv'
  BY DEF Traceable, GenInv, Prepared, CandInv, Cand, BoundInv, Own, Src, CreateInv
<1>2. \A v \in VMs : Shut(v) => Shut(v)'
  BY DEF Shut, Allows
<1>3. \A n \in Nodes : \A r \in Records(source[n]) : r.vm \in VMs
  BY RecordTypes DEF SourceRecords
<1>4. ShutInv'
  BY <1>2, <1>3 DEF ShutInv
<1>5. PromoteInv'
  BY DEF PromoteInv, Granted, Cand
<1>6. WriterInv'
  BY DEF WriterInv, Ungranted, Pending
<1> QED
  BY <1>1, <1>4, <1>5, <1>6

\* Steps in a guest that make no primary, and write nothing that opens a VM with a
\* ready fence.
LEMMA GuestCore ==
    ASSUME StateType, Core, UNCHANGED <<source, physical, bound, logical, sess>>, Traceable,
           \A v \in VMs : vm'[v].mode = "primary" <=> vm[v].mode = "primary",
           \A n \in Nodes : \A r \in Records(source[n]) :
               r.fence = "ready" /\ ~Allows(r.vm) => ~Allows(r.vm)',
           PromoteInv', CreateInv'
    PROVE  Core'
<1> USE DEF Core
<1>1. GenInv' /\ CandInv' /\ BoundInv'
  BY DEF Traceable, GenInv, Prepared, CandInv, Cand, BoundInv, Own, Src
<1>2. \A n \in Nodes : \A r \in Records(source[n]) : r.vm \in VMs
  BY RecordTypes DEF SourceRecords
<1>3. \A n \in Nodes : \A r \in Records(source[n]) : r.fence = "ready" /\ Shut(r.vm) => Shut(r.vm)'
  BY <1>2 DEF Shut, Attached
<1>4. ShutInv'
  BY <1>2, <1>3 DEF ShutInv
<1>5. \A v \in VMs : Ungranted(v)' <=> Ungranted(v)
  BY DEF Ungranted
<1>6. \A n \in Nodes : \A r \in Records(source[n]) : Pending(n, r)' <=> Pending(n, r)
  <2>1. \A n \in Nodes : \A r \in Records(source[n]) : r.grant # None => r.grant.cand \in VMs
    BY RecordTypes DEF SourceRecords, Grants, VMs
  <2> QED
    BY <2>1 DEF Pending
<1>7. WriterInv'
  BY <1>5, <1>6 DEF WriterInv
<1> QED
  BY <1>1, <1>4, <1>7

\* Writing to a VM's log changes neither its mode nor its promotion.
LEMMA WalCore ==
    ASSUME StateType, Core, UNCHANGED <<source, physical, bound, logical, sess, creates>>, Traceable,
           \A v \in VMs : vm'[v].mode = vm[v].mode /\ vm'[v].promo = vm[v].promo,
           \A n \in Nodes : \A r \in Records(source[n]) :
               r.fence = "ready" /\ ~Allows(r.vm) => ~Allows(r.vm)'
    PROVE  Core'
<1>1. \A g \in Gens : g \in VMs
  BY DEF VMs
<1>2. \A n \in Nodes : n \in VMs
  BY DEF VMs
<1>3. \A n \in Nodes : Cand(n) # None => Cand(n).gen \in VMs
  BY <1>1, RecordTypes DEF CandidateRecords
<1>4. PromoteInv'
  BY <1>1, <1>2, <1>3 DEF Core, PromoteInv, Granted, Cand
<1>5. CreateInv'
  BY DEF Core, CreateInv
<1> QED
  BY <1>4, <1>5, GuestCore

\* What is prepared and what is granted stays so when records are only added or
\* rewritten with their generation, VM and grant.
LEMMA RecordsKept ==
    ASSUME NEW n \in Nodes,
           \A r \in Records(source[n]) : \E q \in Records(source[n])' :
               /\ q.gen = r.gen /\ q.pred = r.pred /\ q.vm = r.vm
               /\ r.grant # None => q.grant = r.grant
    PROVE  /\ \A g, p, v : Prepared(n, g, p, v) => Prepared(n, g, p, v)'
           /\ \A g, v, b : Granted(n, g, v, b) => Granted(n, g, v, b)'
<1>1. ASSUME NEW g, NEW p, NEW v, Prepared(n, g, p, v) PROVE Prepared(n, g, p, v)'
  BY <1>1 DEF Prepared
<1>2. ASSUME NEW g, NEW v, NEW b, Granted(n, g, v, b) PROVE Granted(n, g, v, b)'
  BY <1>2 DEF Granted
<1> QED
  BY <1>1, <1>2

\* The current source record is rewritten: a fence, an authorization, a grant.
LEMMA SourceUpdateCore ==
    ASSUME StateType, Core, NEW n \in Nodes, Src(n) # None, NEW r \in SourceRecords,
           source' = [source EXCEPT ![n] = Update(source[n], r)],
           r.gen = Src(n).gen, r.pred = Src(n).pred, r.vm = Src(n).vm,
           Src(n).grant # None => r.grant = Src(n).grant,
           r.fence = "ready" => r.barrier \in Nat /\ Shut(r.vm),
           r.grant # None => r.fence = "ready",
           UNCHANGED <<physical, bound, logical, vm, creates, sess>>, Traceable
    PROVE  Core'
<1> USE PeerFacts DEF Core
<1>0. /\ source[n] \in SourceJournals /\ None \notin SourceRecords
      /\ Src(n) \in Records(source[n]) /\ Src(n) \in SourceRecords
      /\ Records(source[n]) = ToSet(source[n].hist) \cup {Src(n)}
      /\ ToSet(source[n].hist) \subseteq Records(source[n])
  BY RecordTypes, NoneAssumption
<1>1. /\ Update(source[n], r).cur = r /\ Update(source[n], r).hist = source[n].hist
      /\ Records(Update(source[n], r)) = ToSet(source[n].hist) \cup {r}
  BY <1>0, UpdateRecords DEF SourceJournals
<1>2. source'[n] = Update(source[n], r) /\ \A m \in Nodes : m # n => source'[m] = source[m]
  BY DEF StateType, JournalType
<1>3. /\ Src(n)' = r /\ source'[n].hist = source[n].hist
      /\ Records(source[n])' = ToSet(source[n].hist) \cup {r}
      /\ \A m \in Nodes : m # n => Records(source[m])' = Records(source[m]) /\ Src(m)' = Src(m)
  BY <1>1, <1>2 DEF Src
<1>4. \A m \in Nodes : \A q \in Records(source[m]) : \E p \in Records(source[m])' :
          p.gen = q.gen /\ p.pred = q.pred /\ p.vm = q.vm /\ (q.grant # None => p.grant = q.grant)
  BY <1>0, <1>3
<1>5. \A m \in Nodes : \A q \in Records(source[m])' : \E p \in Records(source[m]) :
          p.gen = q.gen /\ p.pred = q.pred /\ p.vm = q.vm
  BY <1>0, <1>3
<1>6. \A m \in Nodes : /\ \A g, p, v : Prepared(m, g, p, v) => Prepared(m, g, p, v)'
                       /\ \A g, v, b : Granted(m, g, v, b) => Granted(m, g, v, b)'
  BY <1>4, RecordsKept
<1>7. GenInv'
  <2>1. \A m \in Nodes : \A q \in Records(source[m])', p \in Records(source[Peer(m)])' : q.gen # p.gen
    <3>1. ASSUME NEW m \in Nodes, NEW q \in Records(source[m])', NEW p \in Records(source[Peer(m)])'
          PROVE  q.gen # p.gen
      <4>1. PICK q0 \in Records(source[m]) : q0.gen = q.gen
        BY <1>5
      <4>2. PICK p0 \in Records(source[Peer(m)]) : p0.gen = p.gen
        BY <1>5
      <4> QED
        BY <4>1, <4>2 DEF GenInv
    <3> QED
      BY <3>1
  <2>2. \A m \in Nodes : \A k \in Records(physical[m])' : Prepared(Peer(m), k.gen, k.pred, k.srcVm)'
    BY <1>6 DEF GenInv
  <2>3. \A m \in msgs' : m.kind = "provision" => Prepared(Peer(m.to), m.gen, m.pred, m.vm)'
    BY <1>6 DEF GenInv, Traceable
  <2>4. \A m \in Nodes : \A k \in seeds'[m] : k.to = m /\ Prepared(Peer(m), k.gen, k.pred, k.vm)'
    BY <1>6 DEF GenInv, Traceable
  <2> QED
    BY <2>1, <2>2, <2>3, <2>4 DEF GenInv
<1>8. CandInv' /\ CreateInv'
  BY DEF CandInv, Cand, CreateInv
<1>9. BoundInv'
  <2>1. \A m \in Nodes : \A v \in Own(m) : v \in Own(m)'
    BY <1>4 DEF Own
  <2>2. \A m \in Nodes : \A q \in Records(source[m])' :
          q.vm = m \/ \E k \in Records(physical[m])' : k.phase = "activated" /\ k.cand = q.vm
    BY <1>5 DEF BoundInv
  <2>3. \A m \in Nodes : \A q \in ToSet(source[m].hist)' :
          /\ Src(m)' # None
          /\ q.vm = bound'[m] => Src(m)'.vm = bound'[m]
          /\ q.vm = Src(m)'.vm => q.fence = None /\ q.grant = None
    BY <1>0, <1>2, <1>3 DEF BoundInv
  <2>4. Cand(Home)' # None => Src(Home)' # None
    BY <1>0, <1>3, HandoffAssumption DEF BoundInv, Cand
  <2> QED
    BY <2>1, <2>2, <2>3, <2>4 DEF BoundInv, Cand
<1>10. ShutInv'
  <2>1. vm[r.vm].mode = "primary"
    BY <1>0 DEF ShutInv
  <2>2. \A v : Shut(v)' <=> Shut(v)
    BY DEF Shut, Allows, Attached
  <2> QED
    BY <1>0, <1>3, <2>1, <2>2 DEF ShutInv
<1>11. PromoteInv'
  BY <1>6 DEF PromoteInv, Cand
<1>12. WriterInv'
  <2>1. CASE r.grant = Src(n).grant
    <3>1. \A v \in VMs : Ungranted(v)' => Ungranted(v)
      BY <1>0, <1>3, <2>1 DEF Ungranted
    <3>2. \A m \in Nodes : \A q \in Records(source[m])' : Pending(m, q)' =>
             \E p \in Records(source[m]) : Pending(m, p) /\ p.grant = q.grant
      BY <1>0, <1>3, <2>1 DEF Pending
    <3> QED
      BY <3>1, <3>2 DEF WriterInv
  <2>2. CASE r.grant # Src(n).grant
    <3>1. Src(n).grant = None /\ r.grant # None
      BY <2>2
    <3>2. Ungranted(Src(n).vm)
      <4>1. \A q \in Records(source[n]) : q.vm = Src(n).vm => q.grant = None
        BY <1>0, <3>1 DEF BoundInv
      <4>2. \A q \in Records(source[Peer(n)]) : q.vm # Src(n).vm
        BY <1>0, Owned
      <4> QED
        BY <1>0, <4>1, <4>2 DEF Ungranted, ShutInv
    <3>3. Src(n).vm \in VMs
      BY <1>0 DEF SourceRecords
    <3>4. \A m \in Nodes : \A q \in Records(source[m]) : ~Pending(m, q)
      BY <3>2, <3>3 DEF WriterInv
    <3>5. \A v \in VMs : ~Ungranted(v)'
      <4>1. ASSUME NEW v \in VMs, Ungranted(v)' PROVE FALSE
        <5>1. r.vm # v
          BY <1>3, <3>1, <4>1 DEF Ungranted
        <5>2. Ungranted(v)
          BY <1>0, <1>3, <4>1, <5>1 DEF Ungranted
        <5> QED
          BY <3>2, <3>3, <5>1, <5>2 DEF WriterInv
      <4> QED
        BY <4>1
    <3>6. \A m \in Nodes : \A q \in Records(source[m])' : Pending(m, q)' => q.grant = r.grant
      BY <1>0, <1>3, <3>4 DEF Pending
    <3> QED
      BY <3>5, <3>6 DEF WriterInv
  <2> QED
    BY <2>1, <2>2
<1> QED
  BY <1>7, <1>8, <1>9, <1>10, <1>11, <1>12

\* A source record is created for the bound VM, which no record has granted or
\* fenced.
LEMMA ProvisionCore ==
    ASSUME StateType, Core, NEW n \in Nodes, NEW r \in SourceRecords,
           source' = [source EXCEPT ![n] = Supersede(source[n], r)],
           r.gen \notin UsedGens, r.vm = bound[n], r.fence = None, r.grant = None,
           vm[r.vm].mode = "primary",
           r.vm = n \/ \E k \in Records(physical[n]) : k.phase = "activated" /\ k.cand = r.vm,
           \A q \in Records(source[n]) : q.vm = r.vm => q.fence = None /\ q.grant = None,
           UNCHANGED <<physical, bound, logical, vm, creates, sess, seeds>>,
           \A m \in msgs' : m.kind = "provision" =>
               \/ m \in msgs
               \/ m.to = Peer(n) /\ m.gen = r.gen /\ m.pred = r.pred /\ m.vm = r.vm
    PROVE  Core'
<1> USE PeerFacts DEF Core
<1>0. source[n] \in SourceJournals /\ None \notin SourceRecords
  BY RecordTypes, NoneAssumption
<1>1. /\ Supersede(source[n], r).cur = r /\ ToSet(Supersede(source[n], r).hist) = Records(source[n])
      /\ Records(Supersede(source[n], r)) = Records(source[n]) \cup {r}
  BY <1>0, SupersedeRecords DEF SourceJournals
<1>2. source'[n] = Supersede(source[n], r) /\ \A m \in Nodes : m # n => source'[m] = source[m]
  BY DEF StateType, JournalType
<1>3. /\ Src(n)' = r /\ ToSet(source[n].hist)' = Records(source[n])
      /\ Records(source[n])' = Records(source[n]) \cup {r}
      /\ \A m \in Nodes : m # n => Records(source[m])' = Records(source[m]) /\ Src(m)' = Src(m)
  BY <1>1, <1>2 DEF Src
<1>4. \A m \in Nodes : Records(source[m]) \subseteq Records(source[m])'
  BY <1>3
<1>6. \A m \in Nodes : /\ \A g, p, v : Prepared(m, g, p, v) => Prepared(m, g, p, v)'
                       /\ \A g, v, b : Granted(m, g, v, b) => Granted(m, g, v, b)'
  BY <1>4, RecordsKept
<1>7. GenInv'
  <2>1. \A m \in Nodes : \A q \in Records(source[m])', p \in Records(source[Peer(m)])' : q.gen # p.gen
    <3>1. \A m \in Nodes : \A q \in Records(source[m]) : q.gen # r.gen
      BY DEF UsedGens
    <3> QED
      BY <1>3, <3>1 DEF GenInv
  <2>2. \A m \in Nodes : \A k \in Records(physical[m])' : Prepared(Peer(m), k.gen, k.pred, k.srcVm)'
    BY <1>6 DEF GenInv
  <2>3. Prepared(n, r.gen, r.pred, r.vm)'
    BY <1>3 DEF Prepared
  <2>4. \A m \in msgs' : m.kind = "provision" => Prepared(Peer(m.to), m.gen, m.pred, m.vm)'
    <3>1. \A m \in msgs : m.kind = "provision" => m.to \in Nodes
      BY DEF StateType, ControlType, Provisions, Binds, Handoffs, Answers
    <3> QED
      BY <1>6, <2>3, <3>1 DEF GenInv
  <2>5. \A m \in Nodes : \A k \in seeds'[m] : k.to = m /\ Prepared(Peer(m), k.gen, k.pred, k.vm)'
    BY <1>6 DEF GenInv
  <2> QED
    BY <2>1, <2>2, <2>4, <2>5 DEF GenInv
<1>8. CandInv' /\ CreateInv'
  BY DEF CandInv, Cand, CreateInv
<1>9. BoundInv'
  <2>1. \A m \in Nodes : \A v \in Own(m) : v \in Own(m)'
    BY <1>4 DEF Own
  <2>2. \A m \in Nodes : \A q \in Records(source[m])' :
          q.vm = m \/ \E k \in Records(physical[m])' : k.phase = "activated" /\ k.cand = q.vm
    BY <1>3 DEF BoundInv
  <2>3. \A m \in Nodes : \A q \in ToSet(source[m].hist)' :
          /\ Src(m)' # None
          /\ q.vm = bound'[m] => Src(m)'.vm = bound'[m]
          /\ q.vm = Src(m)'.vm => q.fence = None /\ q.grant = None
    BY <1>0, <1>2, <1>3 DEF BoundInv
  <2>4. Cand(Home)' # None => Src(Home)' # None
    BY <1>0, <1>3, HandoffAssumption DEF BoundInv, Cand
  <2> QED
    BY <2>1, <2>2, <2>3, <2>4 DEF BoundInv, Cand
<1>10. ShutInv'
  <2>1. \A v : Shut(v)' <=> Shut(v)
    BY DEF Shut, Allows, Attached
  <2>2. r.fence # "ready"
    BY NoneAssumption
  <2> QED
    BY <1>3, <2>1, <2>2 DEF ShutInv
<1>11. PromoteInv'
  BY <1>6 DEF PromoteInv, Cand
<1>12. WriterInv'
  <2>1. \A v \in VMs : Ungranted(v)' => Ungranted(v)
    BY <1>3 DEF Ungranted
  <2>2. \A m \in Nodes : \A q \in Records(source[m])' : Pending(m, q)' => Pending(m, q)
    BY <1>3 DEF Pending
  <2>3. \A m \in Nodes : \A q : Pending(m, q) => q \in Records(source[m])
    BY DEF Pending
  <2> QED
    BY <2>1, <2>2, <2>3 DEF WriterInv
<1> QED
  BY <1>7, <1>8, <1>9, <1>10, <1>11, <1>12

\* The current candidate record is rewritten.
LEMMA CandUpdateCore ==
    ASSUME StateType, Core, NEW n \in Nodes, Cand(n) # None, NEW k \in CandidateRecords,
           physical' = [physical EXCEPT ![n] = Update(physical[n], k)],
           k.gen = Cand(n).gen, k.pred = Cand(n).pred, k.srcVm = Cand(n).srcVm,
           k.phase # "intent", Cand(n).phase # "activated",
           k.cand = IF k.phase = "creating" THEN None ELSE k.gen,
           handoff_started(Cand(n)) => handoff_started(k),
           handoff_started(k) => k.barrier \in Nat /\ Granted(Peer(n), k.gen, k.srcVm, k.barrier),
           k.phase \in {"promoted", "binding", "activated"} => vm[k.gen].promo = "promoted",
           k.phase = "activated" => bound[n] = k.gen,
           UNCHANGED <<source, bound, logical, vm, creates, sess>>, Traceable
    PROVE  Core'
<1> USE PeerFacts DEF Core
<1>0. /\ physical[n] \in CandidateJournals /\ None \notin CandidateRecords
      /\ Cand(n) \in Records(physical[n]) /\ Cand(n) \in CandidateRecords
      /\ Records(physical[n]) = ToSet(physical[n].hist) \cup {Cand(n)}
      /\ ToSet(physical[n].hist) \subseteq Records(physical[n])
  BY RecordTypes, NoneAssumption
<1>1. /\ Update(physical[n], k).cur = k /\ Update(physical[n], k).hist = physical[n].hist
      /\ Records(Update(physical[n], k)) = ToSet(physical[n].hist) \cup {k}
  BY <1>0, UpdateRecords DEF CandidateJournals
<1>2. physical'[n] = Update(physical[n], k) /\ \A m \in Nodes : m # n => physical'[m] = physical[m]
  BY DEF StateType, JournalType
<1>3. /\ Cand(n)' = k /\ physical'[n].hist = physical[n].hist
      /\ Records(physical[n])' = ToSet(physical[n].hist) \cup {k}
      /\ \A m \in Nodes : m # n => Records(physical[m])' = Records(physical[m]) /\ Cand(m)' = Cand(m)
  BY <1>1, <1>2 DEF Cand
<1>5. /\ \A m \in Nodes : \A g, p, v : Prepared(m, g, p, v)' <=> Prepared(m, g, p, v)
      /\ \A m \in Nodes : \A g, v, b : Granted(m, g, v, b)' <=> Granted(m, g, v, b)
  BY DEF Prepared, Granted
<1>6. GenInv'
  <2>1. \A m \in Nodes : \A q \in Records(physical[m])' : Prepared(Peer(m), q.gen, q.pred, q.srcVm)'
    BY <1>0, <1>3, <1>5 DEF GenInv
  <2>2. \A m \in msgs' : m.kind = "provision" => Prepared(Peer(m.to), m.gen, m.pred, m.vm)'
    BY <1>5 DEF GenInv, Traceable
  <2>3. \A m \in Nodes : \A q \in seeds'[m] : q.to = m /\ Prepared(Peer(m), q.gen, q.pred, q.vm)'
    BY <1>5 DEF GenInv, Traceable
  <2> QED
    BY <2>1, <2>2, <2>3 DEF GenInv
<1>7. CandInv'
  BY <1>0, <1>2, <1>3 DEF CandInv, Cand
<1>8. CreateInv'
  <2>1. ASSUME NEW g \in Gens, NEW m \in Nodes, NEW q \in Records(physical[m]), q.gen = g, q.phase # "intent"
        PROVE  \E p \in Records(physical[m])' : p.gen = g /\ p.phase # "intent"
    BY <1>0, <1>3, <2>1
  <2> QED
    BY <2>1 DEF CreateInv
<1>9. BoundInv'
  <2>1. \A m \in Nodes : \A q \in Records(physical[m]) : q.phase = "activated" => q \in Records(physical[m])'
    BY <1>0, <1>3
  <2>2. \A m \in Nodes : Cand(m)' = None <=> Cand(m) = None
    BY <1>0, <1>3
  <2> QED
    BY <2>1, <2>2, HandoffAssumption DEF BoundInv, Own, Src
<1>10. ShutInv'
  BY DEF ShutInv, Shut, Allows, Attached
<1>11. PromoteInv'
  <2>1. \A m \in Nodes : \A q \in Records(physical[m])' :
          handoff_started(q) => q.barrier \in Nat /\ Granted(Peer(m), q.gen, q.srcVm, q.barrier)'
    BY <1>0, <1>3, <1>5 DEF PromoteInv
  <2>2. ASSUME NEW g \in Gens, NEW m \in Nodes, NEW q \in Records(physical[m]), q.gen = g, handoff_started(q)
        PROVE  \E p \in Records(physical[m])' : p.gen = g /\ handoff_started(p)
    BY <1>0, <1>3, <2>2
  <2>3. \A m \in Nodes : Cand(m)' # None =>
          /\ Cand(m)'.phase \in {"promoted", "binding", "activated"} => vm[Cand(m)'.gen].promo = "promoted"
          /\ Cand(m)'.phase = "activated" => bound[m] = Cand(m)'.cand
    BY <1>0, <1>3 DEF PromoteInv
  <2> QED
    BY <2>1, <2>2, <2>3 DEF PromoteInv, handoff_started
<1>12. WriterInv'
  BY DEF WriterInv, Ungranted, Pending
<1> QED
  BY <1>6, <1>7, <1>8, <1>9, <1>10, <1>11, <1>12

\* A candidate record is created for a generation the journal does not hold.
LEMMA AcceptCore ==
    ASSUME StateType, Core, NEW n \in Nodes, NEW k \in CandidateRecords,
           physical' = [physical EXCEPT ![n] = Supersede(physical[n], k)],
           k.phase = "intent", k.cand = None, Prepared(Peer(n), k.gen, k.pred, k.srcVm),
           \A q \in Records(physical[n]) : q.gen # k.gen,
           n = Home => Src(n) # None,
           UNCHANGED <<source, bound, logical, vm, creates, sess>>, Traceable
    PROVE  Core'
<1> USE PeerFacts DEF Core
<1>0. physical[n] \in CandidateJournals /\ None \notin CandidateRecords
  BY RecordTypes, NoneAssumption
<1>1. /\ Supersede(physical[n], k).cur = k
      /\ ToSet(Supersede(physical[n], k).hist) = Records(physical[n])
      /\ Records(Supersede(physical[n], k)) = Records(physical[n]) \cup {k}
  BY <1>0, SupersedeRecords DEF CandidateJournals
<1>2. physical'[n] = Supersede(physical[n], k) /\ \A m \in Nodes : m # n => physical'[m] = physical[m]
  BY DEF StateType, JournalType
<1>3. /\ Cand(n)' = k /\ ToSet(physical[n].hist)' = Records(physical[n])
      /\ Records(physical[n])' = Records(physical[n]) \cup {k}
      /\ \A m \in Nodes : m # n => Records(physical[m])' = Records(physical[m]) /\ Cand(m)' = Cand(m)
  BY <1>1, <1>2 DEF Cand
<1>4. \A m \in Nodes : Records(physical[m]) \subseteq Records(physical[m])'
  BY <1>3
<1>5. /\ \A m \in Nodes : \A g, p, v : Prepared(m, g, p, v)' <=> Prepared(m, g, p, v)
      /\ \A m \in Nodes : \A g, v, b : Granted(m, g, v, b)' <=> Granted(m, g, v, b)
  BY DEF Prepared, Granted
<1>6. GenInv'
  <2>1. \A m \in Nodes : \A q \in Records(physical[m])' : Prepared(Peer(m), q.gen, q.pred, q.srcVm)'
    BY <1>3, <1>5 DEF GenInv
  <2>2. \A m \in msgs' : m.kind = "provision" => Prepared(Peer(m.to), m.gen, m.pred, m.vm)'
    BY <1>5 DEF GenInv, Traceable
  <2>3. \A m \in Nodes : \A q \in seeds'[m] : q.to = m /\ Prepared(Peer(m), q.gen, q.pred, q.vm)'
    BY <1>5 DEF GenInv, Traceable
  <2> QED
    BY <2>1, <2>2, <2>3 DEF GenInv
<1>7. CandInv'
  BY <1>0, <1>2, <1>3 DEF CandInv, Cand
<1>8. CreateInv'
  BY <1>4 DEF CreateInv
<1>9. BoundInv'
  <2>1. \A m \in Nodes : Cand(m)' = None => Cand(m) = None
    BY <1>0, <1>3
  <2>2. Cand(Home)' # None => Src(Home) # None
    BY <1>3, HandoffAssumption DEF BoundInv
  <2> QED
    BY <1>4, <2>1, <2>2 DEF BoundInv, Own, Src
<1>10. ShutInv'
  BY DEF ShutInv, Shut, Allows, Attached
<1>11. PromoteInv'
  <2>1. \A m \in Nodes : \A q \in Records(physical[m])' :
          handoff_started(q) => q.barrier \in Nat /\ Granted(Peer(m), q.gen, q.srcVm, q.barrier)'
    BY <1>3, <1>5 DEF PromoteInv, handoff_started, HandoffPhases
  <2>2. \A m \in Nodes : Cand(m)' # None =>
          /\ Cand(m)'.phase \in {"promoted", "binding", "activated"} => vm[Cand(m)'.gen].promo = "promoted"
          /\ Cand(m)'.phase = "activated" => bound[m] = Cand(m)'.cand
    BY <1>3 DEF PromoteInv
  <2> QED
    BY <1>4, <2>1, <2>2 DEF PromoteInv
<1>12. WriterInv'
  BY DEF WriterInv, Ungranted, Pending
<1> QED
  BY <1>6, <1>7, <1>8, <1>9, <1>10, <1>11, <1>12

\* The candidate is bound, before it is activated.
LEMMA BoundCore ==
    ASSUME StateType, Core, NEW n \in Nodes, Cand(n) # None,
           Cand(n).phase \notin {"activated", "intent", "creating"},
           bound' = [bound EXCEPT ![n] = Cand(n).cand],
           UNCHANGED <<source, physical, logical, vm, creates, sess, msgs, seeds>>
    PROVE  Core'
<1> USE PeerFacts DEF Core
<1>1. /\ Cand(n).cand = Cand(n).gen /\ Cand(n).gen \in Gens
      /\ \A m \in Nodes : \A r \in Records(source[m]) : r.vm # Cand(n).gen
  BY NoRecordYet
<1>2. bound'[n] = Cand(n).gen /\ \A m \in Nodes : m # n => bound'[m] = bound[m]
  BY <1>1 DEF StateType, ServingType
<1>3. Cand(n).gen \in Own(n)
  BY RecordTypes, Owned
<1>4. BoundInv'
  <2>1. \A m \in Nodes : bound'[m] \in Own(m)' /\ (bound'[m] # m => Cand(m)' # None)
    BY <1>2, <1>3 DEF BoundInv, Own, Cand
  <2>2. \A m \in Nodes : ToSet(source[m].hist) \subseteq Records(source[m])
    BY RecordTypes
  <2>3. \A m \in Nodes : \A r \in ToSet(source[m].hist) : r.vm = bound'[m] => Src(m).vm = bound'[m]
    BY <1>1, <1>2, <2>2 DEF BoundInv
  <2> QED
    BY <2>1, <2>3 DEF BoundInv, Own, Src, Cand
<1>5. PromoteInv'
  BY <1>2 DEF PromoteInv, Granted, Cand
<1>6. GenInv' /\ CandInv' /\ CreateInv'
  <2>1. GenInv'
    BY DEF GenInv, Prepared
  <2>2. CandInv' /\ CreateInv'
    BY DEF CandInv, Cand, CreateInv
  <2> QED
    BY <2>1, <2>2
<1>7. ShutInv' /\ WriterInv'
  BY DEF ShutInv, Shut, Allows, Attached, WriterInv, Ungranted, Pending
<1> QED
  BY <1>4, <1>5, <1>6, <1>7

\* The role in the logical pairing changes, and stays one of its node.
LEMMA LogicalCore ==
    ASSUME StateType, Core, UNCHANGED <<source, physical, bound, vm, creates, sess, msgs, seeds>>,
           \A n \in Nodes : logical'[n] = logical[n] \/ logical'[n] = "removed"
                            \/ (logical'[n] = "failed_primary" /\ logical[n] = "primary")
                            \/ (logical'[n] = "failed_replica" /\ logical[n] = "replica")
    PROVE  Core'
<1> USE DEF Core
<1>1. \A n \in Nodes : /\ logical'[n] \in {"primary", "failed_primary"} => n = Home
                       /\ logical'[n] \in {"replica", "failed_replica"} => n # Home
  BY DEF BoundInv
<1>2. BoundInv'
  BY <1>1 DEF BoundInv, Own, Src, Cand
<1>3. GenInv' /\ CandInv' /\ CreateInv'
  BY DEF GenInv, Prepared, CandInv, Cand, CreateInv
<1>4. PromoteInv'
  BY DEF PromoteInv, Granted, Cand
<1>5. ShutInv' /\ WriterInv'
  BY DEF ShutInv, Shut, Allows, Attached, WriterInv, Ungranted, Pending
<1> QED
  BY <1>2, <1>3, <1>4, <1>5

\* A candidate becomes a primary: its grant was the one that waited, and there was
\* no primary that is not granted away.
LEMMA PrimaryCore ==
    ASSUME StateType, Core, NEW g \in Gens, vm[g].promo = "promoting", vm[g].mode = "standby",
           \A v \in VMs : /\ vm'[v].mode = (IF v = g THEN "primary" ELSE vm[v].mode)
                          /\ vm'[v].promo = vm[v].promo /\ vm'[v].wal = vm[v].wal,
           UNCHANGED <<source, physical, bound, logical, creates, sess, msgs, seeds>>
    PROVE  Core'
<1> USE PeerFacts DEF Core
<1>0. g \in VMs /\ Gens \subseteq VMs /\ Nodes \subseteq VMs
  BY DEF VMs
<1>1. PICK n \in Nodes : \E k \in Records(physical[n]) : k.gen = g /\ handoff_started(k)
  BY DEF PromoteInv
<1>2. PICK k \in Records(physical[n]) : k.gen = g /\ handoff_started(k)
  BY <1>1
<1>3. Granted(Peer(n), g, k.srcVm, k.barrier)
  BY <1>2 DEF PromoteInv
<1>4. PICK r \in Records(source[Peer(n)]) : r.grant # None /\ r.grant.cand = g
  BY <1>3 DEF Granted
<1>5. Pending(Peer(n), r)
  BY <1>4 DEF Pending
<1>6. /\ \A v \in VMs : ~Ungranted(v)
      /\ \A m \in Nodes : \A q \in Records(source[m]) : Pending(m, q) => q.grant.cand = g
  BY <1>4, <1>5 DEF WriterInv
<1>7. \A v \in VMs : Ungranted(v)' => v = g
  BY <1>6 DEF Ungranted
<1>8. \A m \in Nodes : \A q \in Records(source[m]) : ~Pending(m, q)'
  <2>1. \A m \in Nodes : \A q \in Records(source[m]) : q.grant # None => q.grant.cand \in VMs
    BY RecordTypes DEF SourceRecords, Grants, VMs
  <2> QED
    BY <1>0, <1>6, <2>1 DEF Pending
<1>9. WriterInv'
  BY <1>7, <1>8 DEF WriterInv
<1>10. ShutInv'
  <2>1. \A m \in Nodes : \A q \in Records(source[m]) : q.vm \in VMs
    BY RecordTypes DEF SourceRecords
  <2>2. \A v \in VMs : Shut(v) => Shut(v)'
    BY DEF Shut, Allows, Attached
  <2> QED
    BY <2>1, <2>2 DEF ShutInv
<1>11. PromoteInv'
  <2>1. \A m \in Nodes : m # g
    BY HandoffAssumption
  <2>2. \A m \in Nodes : Cand(m) # None => Cand(m).gen \in VMs
    BY <1>0, RecordTypes DEF CandidateRecords
  <2> QED
    BY <1>0, <2>1, <2>2 DEF PromoteInv, Granted, Cand
<1>12. GenInv' /\ CandInv' /\ BoundInv' /\ CreateInv'
  <2>1. GenInv'
    BY DEF GenInv, Prepared
  <2>2. CandInv' /\ CreateInv'
    BY DEF CandInv, Cand, CreateInv
  <2>3. BoundInv'
    BY DEF BoundInv, Own, Src, Cand
  <2> QED
    BY <2>1, <2>2, <2>3
<1> QED
  BY <1>9, <1>10, <1>11, <1>12

-----------------------------------------------------------------------------
(* Mutexes *)

\* What the holder of a node's mutex relies on stays true in steps that leave its
\* journals and binding alone.
LEMMA OpKept ==
    ASSUME HandoffInv, NEW m \in Nodes, op'[m] = op[m],
           physical'[m] = physical[m], bound'[m] = bound[m], source'[m] = source[m],
           lfence'[m] = lfence[m],
           \A g, v, b : Granted(Peer(m), g, v, b) => Granted(Peer(m), g, v, b)',
           Holds(m, "seed", "create") => creates'[Cand(m).gen] = creates[Cand(m).gen],
           Holds(m, "handoff", "drain") /\ vm[bound[m]].mode = "primary" /\ ~Allows(bound[m])
              => ~Allows(bound[m])'
    PROVE  NodeOp(m)'
<1>0. Cand(m)' = Cand(m) /\ Src(m)' = Src(m) /\ Records(source[m])' = Records(source[m])
  BY DEF Cand, Src
<1>1. SeedOp(m) /\ BindOp(m) /\ HandoffOp(m) /\ AcceptOp(m) /\ UnfenceOp(m) /\ FenceOp(m)
  BY DEF HandoffInv, OpInv, NodeOp
<1>2. SeedOp(m)'
  BY <1>0, <1>1 DEF SeedOp, Holds
<1>3. BindOp(m)'
  BY <1>0, <1>1 DEF BindOp
<1>4. HandoffOp(m)'
  <2>1. op[m].kind = "handoff" => vm[bound[m]].mode = "primary"
    BY <1>1, RecordTypes DEF HandoffOp, HandoffInv, Core, ShutInv
  <2> QED
    BY <1>0, <1>1, <2>1 DEF HandoffOp, Holds
<1>5. AcceptOp(m)'
  BY <1>0, <1>1 DEF AcceptOp
<1>6. UnfenceOp(m)'
  BY <1>0, <1>1 DEF UnfenceOp, Holds
<1>7. FenceOp(m)'
  BY <1>1 DEF FenceOp, is_fenced
<1> QED
  BY <1>2, <1>3, <1>4, <1>5, <1>6, <1>7 DEF NodeOp

\* A mutex that is free promises nothing.
LEMMA IdleOp ==
    ASSUME NEW n \in Nodes, op'[n] = Idle
    PROVE  NodeOp(n)'
BY DEF Idle, NodeOp, SeedOp, BindOp, HandoffOp, AcceptOp, UnfenceOp, FenceOp, Holds

\* Taking a node's mutex.
LEMMA LockFacts ==
    ASSUME StateType, NEW n \in Nodes, NEW k, NEW s, NEW r, Lock(n, k, s, r)
    PROVE  /\ op[n] = Idle
           /\ op'[n].kind = k /\ op'[n].step = s /\ op'[n].req = r
           /\ op'[Peer(n)] = op[Peer(n)]
           /\ [kind |-> k, step |-> s, req |-> r] \in Operations => op' \in [Nodes -> Operations]
<1>1. op \in [Nodes -> Operations] /\ op' = [op EXCEPT ![n] = [kind |-> k, step |-> s, req |-> r]]
  BY DEF StateType, ControlType, Lock
<1>2. op'[n] = [kind |-> k, step |-> s, req |-> r] /\ op'[Peer(n)] = op[Peer(n)]
  BY <1>1, PeerFacts
<1> QED
  BY <1>1, <1>2 DEF Lock

\* Going on under a node's mutex.
LEMMA StepFacts ==
    ASSUME StateType, NEW n \in Nodes, NEW s \in OpStages, Step(n, s)
    PROVE  /\ op'[n].kind = op[n].kind /\ op'[n].step = s /\ op'[n].req = op[n].req
           /\ op'[Peer(n)] = op[Peer(n)]
           /\ op' \in [Nodes -> Operations]
<1>1. op \in [Nodes -> Operations] /\ op' = [op EXCEPT ![n].step = s]
  BY DEF StateType, ControlType, Step
<1>2. op'[n] = [op[n] EXCEPT !.step = s] /\ op'[Peer(n)] = op[Peer(n)]
  BY <1>1, PeerFacts
<1>3. op[n] \in Operations
  BY <1>1
<1>4. [op[n] EXCEPT !.step = s] \in Operations
  BY <1>3 DEF Operations
<1>5. /\ [op[n] EXCEPT !.step = s].kind = op[n].kind /\ [op[n] EXCEPT !.step = s].step = s
      /\ [op[n] EXCEPT !.step = s].req = op[n].req
  BY <1>3 DEF Operations
<1> QED
  BY <1>1, <1>2, <1>4, <1>5

\* Releasing a node's mutex.
LEMMA UnlockFacts ==
    ASSUME StateType, NEW n \in Nodes, Unlock(n)
    PROVE  op'[n] = Idle /\ op'[Peer(n)] = op[Peer(n)] /\ op' \in [Nodes -> Operations]
<1>1. op \in [Nodes -> Operations] /\ op' = [op EXCEPT ![n] = Idle]
  BY DEF StateType, ControlType, Unlock
<1>2. Idle \in Operations
  BY DEF Idle, Operations, OpKinds
<1> QED
  BY <1>1, <1>2, PeerFacts

\* The parts of a step of node n.
LEMMA Assembled ==
    ASSUME HandoffInv, NEW n \in Nodes, StateType', Core', NodeOp(n)', NodeOp(Peer(n))'
    PROVE  HandoffInv'
BY PeerFacts DEF HandoffInv, OpInv

\* A step on a node's mutex, on messages and on the fence of the logical record.
LEMMA ControlStep ==
    ASSUME HandoffInv, NEW n \in Nodes, ServingType', ControlType', Traceable,
           op'[Peer(n)] = op[Peer(n)], lfence'[Peer(n)] = lfence[Peer(n)], NodeOp(n)',
           UNCHANGED <<source, physical, bound, logical, vm, creates, lost, sess, acked>>
    PROVE  HandoffInv'
<1> USE DEF HandoffInv
<1>1. StateType'
  BY DEF StateType, JournalType, GuestType, TenantType
<1>2. Core'
  BY ControlCore DEF Attached
<1>3. NodeOp(Peer(n))'
  BY OpKept, PeerFacts DEF Granted, Allows
<1> QED
  BY <1>1, <1>2, <1>3, Assembled

\* Messages that are kept or lost are no new ones.
LEMMA KeptTraceable ==
    ASSUME StateType, seeds' = seeds, \A m \in msgs' : m \in msgs \/ m.kind # "provision"
    PROVE  Traceable
<1>1. \A m \in msgs : m.kind = "provision" => m.to \in Nodes
  BY DEF StateType, ControlType, Provisions, Binds, Handoffs, Answers
<1> QED
  BY <1>1 DEF Traceable

-----------------------------------------------------------------------------
(* Steps that take, hold or release a mutex *)

\* A request to hand off the prepared generation.
LEMMA HandoffBeginsStep ==
    ASSUME HandoffInv, NEW n \in Nodes, HandoffBegins(n)
    PROVE  HandoffInv'
<1> DEFINE t == Cand(Peer(n))
<1> USE PeerFacts DEF HandoffInv
<1>1. /\ Src(n) # None /\ Src(n).vm = bound[n] /\ t # None /\ t.gen = Src(n).gen /\ t.cand # None
      /\ Lock(n, "handoff", "authorize", t.cand)
      /\ UNCHANGED <<journals, serving, guests, seeds, msgs, tenants>>
  BY DEF HandoffBegins
<1>2. t.cand = t.gen /\ t.gen \in Gens
  BY <1>1, RecordTypes DEF CandidateRecords, Core, CandInv
<1>3. [kind |-> "handoff", step |-> "authorize", req |-> t.cand] \in Operations
  BY <1>2 DEF Operations, OpKinds, OpStages
<1>4. /\ op'[n].kind = "handoff" /\ op'[n].step = "authorize" /\ op'[n].req = t.gen
      /\ op'[Peer(n)] = op[Peer(n)] /\ op' \in [Nodes -> Operations]
  BY <1>1, <1>2, <1>3, LockFacts
<1>5. NodeOp(n)'
  BY <1>1, <1>2, <1>4 DEF NodeOp, SeedOp, BindOp, HandoffOp, AcceptOp, UnfenceOp, FenceOp, Holds, Src,
                          journals, serving
<1>6. ServingType' /\ ControlType' /\ Traceable
  BY <1>1, <1>4, KeptTraceable DEF StateType, ServingType, ControlType, serving
<1> QED
  BY <1>1, <1>4, <1>5, <1>6, ControlStep DEF journals, serving, guests, tenants

\* The recovery worker resumes a standby binding.
LEMMA ResumeStandbyBindStep ==
    ASSUME HandoffInv, NEW n \in Nodes, ResumeStandbyBind(n)
    PROVE  HandoffInv'
<1> USE PeerFacts DEF HandoffInv
<1>1. /\ Cand(n) # None /\ Cand(n).phase = "standby_binding"
      /\ Lock(n, "bind", "verify", None)
      /\ UNCHANGED <<journals, serving, guests, seeds, msgs, tenants>>
  BY DEF ResumeStandbyBind
<1>3. [kind |-> "bind", step |-> "verify", req |-> None] \in Operations
  BY DEF Operations, OpKinds, OpStages
<1>4. /\ op'[n].kind = "bind" /\ op'[n].step = "verify"
      /\ op'[Peer(n)] = op[Peer(n)] /\ op' \in [Nodes -> Operations]
  BY <1>1, <1>3, LockFacts
<1>5. NodeOp(n)'
  BY <1>1, <1>4 DEF NodeOp, SeedOp, BindOp, HandoffOp, AcceptOp, UnfenceOp, FenceOp, Holds, Cand, journals
<1>6. ServingType' /\ ControlType' /\ Traceable
  BY <1>1, <1>4, KeptTraceable DEF StateType, ServingType, ControlType, serving
<1> QED
  BY <1>1, <1>4, <1>5, <1>6, ControlStep DEF journals, serving, guests, tenants

\* The recovery worker resumes a started handoff.
LEMMA ResumeHandoffStep ==
    ASSUME HandoffInv, NEW n \in Nodes, ResumeHandoff(n)
    PROVE  HandoffInv'
<1> USE PeerFacts DEF HandoffInv
<1>1. /\ Cand(n) # None /\ handoff_started(Cand(n)) /\ Cand(n).phase # "activated"
      /\ Lock(n, "accept", "run", None)
      /\ UNCHANGED <<journals, serving, guests, seeds, msgs, tenants>>
  BY DEF ResumeHandoff
<1>3. [kind |-> "accept", step |-> "run", req |-> None] \in Operations
  BY DEF Operations, OpKinds, OpStages
<1>4. /\ op'[n].kind = "accept" /\ op'[n].step = "run"
      /\ op'[Peer(n)] = op[Peer(n)] /\ op' \in [Nodes -> Operations]
  BY <1>1, <1>3, LockFacts
<1>5. NodeOp(n)'
  BY <1>1, <1>4 DEF NodeOp, SeedOp, BindOp, HandoffOp, AcceptOp, UnfenceOp, FenceOp, Holds, Cand, journals
<1>6. ServingType' /\ ControlType' /\ Traceable
  BY <1>1, <1>4, KeptTraceable DEF StateType, ServingType, ControlType, serving
<1> QED
  BY <1>1, <1>4, <1>5, <1>6, ControlStep DEF journals, serving, guests, tenants

\* An operation ends, for whatever reason.
LEMMA UnlockStep ==
    ASSUME HandoffInv, NEW n \in Nodes, Unlock(n),
           UNCHANGED <<journals, serving, guests, seeds, msgs, tenants>>
    PROVE  HandoffInv'
<1> USE DEF HandoffInv
<1>1. op'[n] = Idle /\ op'[Peer(n)] = op[Peer(n)] /\ op' \in [Nodes -> Operations]
  BY UnlockFacts
<1>2. NodeOp(n)'
  BY <1>1, IdleOp
<1>3. ServingType' /\ ControlType' /\ Traceable
  BY <1>1, KeptTraceable DEF StateType, ServingType, ControlType, serving
<1> QED
  BY <1>1, <1>2, <1>3, ControlStep DEF journals, serving, guests, tenants

\* An operator's fence of the logical primary begins.
LEMMA FenceBeginsStep ==
    ASSUME HandoffInv, NEW n \in Nodes, NEW mode \in {"hard", "selective"}, FenceBegins(n, mode)
    PROVE  HandoffInv'
<1> USE PeerFacts DEF HandoffInv
<1>1. /\ lfence' = [lfence EXCEPT ![n] = [phase |-> "intent", vm |-> bound[n],
                                          mode |-> IF is_fenced(n) THEN lfence[n].mode ELSE mode]]
      /\ Lock(n, "fence", "close", mode)
      /\ UNCHANGED <<journals, bound, logical, guests, seeds, msgs, tenants>>
  BY DEF FenceBegins
<1>3. [kind |-> "fence", step |-> "close", req |-> mode] \in Operations
  BY DEF Operations, OpKinds, OpStages
<1>4. /\ op'[n].kind = "fence" /\ op'[Peer(n)] = op[Peer(n)] /\ op' \in [Nodes -> Operations]
  BY <1>1, <1>3, LockFacts
<1>5. NodeOp(n)'
  <2>1. lfence'[n].phase = "intent"
    BY <1>1 DEF StateType, ServingType
  <2> QED
    BY <1>4, <2>1, NoneAssumption
       DEF NodeOp, SeedOp, BindOp, HandoffOp, AcceptOp, UnfenceOp, FenceOp, Holds, is_fenced
<1>6. ServingType'
  <2>1. /\ lfence \in [Nodes -> Fences] /\ bound[n] \in VMs /\ ServingType
        /\ is_fenced(n) => lfence[n].mode \in {"hard", "selective"}
    BY DEF StateType, ServingType, is_fenced, Fences
  <2> DEFINE f == [phase |-> "intent", vm |-> bound[n],
                   mode |-> IF is_fenced(n) THEN lfence[n].mode ELSE mode]
  <2>2. f \in Fences /\ f.phase # None /\ f.mode # None /\ f.vm # None
    <3>1. None \notin {"hard", "selective", "intent"} /\ None \notin VMs
      BY NoneAssumption, HandoffAssumption DEF VMs
    <3> QED
      BY <2>1, <3>1 DEF Fences
  <2>3. lfence' = [lfence EXCEPT ![n] = f]
    BY <1>1
  <2> HIDE DEF f
  <2>4. lfence' \in [Nodes -> Fences] /\ lfence'[n] = f /\ \A m \in Nodes : m # n => lfence'[m] = lfence[m]
    BY <2>1, <2>2, <2>3
  <2> QED
    BY <1>1, <2>1, <2>2, <2>4 DEF ServingType
<1>7. ControlType' /\ Traceable
  BY <1>1, <1>4, KeptTraceable DEF StateType, ControlType
<1>8. lfence'[Peer(n)] = lfence[Peer(n)]
  BY <1>1, PeerFacts DEF StateType, ServingType
<1> QED
  BY <1>1, <1>4, <1>5, <1>6, <1>7, <1>8, ControlStep DEF journals, guests, tenants

\* The phase of a fence record changes.
LEMMA FencePhase ==
    ASSUME StateType, NEW n \in Nodes, NEW p \in {"ready", "unfencing"}, is_fenced(n),
           lfence' = [lfence EXCEPT ![n].phase = p], UNCHANGED <<bound, logical>>
    PROVE  ServingType'
<1>1. lfence \in [Nodes -> Fences] /\ ServingType
  BY DEF StateType, ServingType
<1> DEFINE f == [lfence[n] EXCEPT !.phase = p]
<1>2. lfence' = [lfence EXCEPT ![n] = f]
  BY <1>1
<1>3. f \in Fences /\ f.phase = p /\ f.mode = lfence[n].mode /\ f.vm = lfence[n].vm
  BY <1>1 DEF Fences
<1> HIDE DEF f
<1>4. lfence' \in [Nodes -> Fences] /\ lfence'[n] = f /\ \A m \in Nodes : m # n => lfence'[m] = lfence[m]
  BY <1>1, <1>2, <1>3
<1>5. p # None
  BY NoneAssumption
<1> QED
  BY <1>1, <1>3, <1>4, <1>5 DEF ServingType, is_fenced

\* The fence record is cleared.
LEMMA FenceCleared ==
    ASSUME StateType, NEW n \in Nodes,
           lfence' = [lfence EXCEPT ![n] = [phase |-> None, mode |-> None, vm |-> None]],
           bound' = bound,
           logical' \in [Nodes -> {"primary", "replica", "failed_primary", "failed_replica", "removed"}]
    PROVE  ServingType'
<1>1. lfence \in [Nodes -> Fences] /\ ServingType
  BY DEF StateType, ServingType
<1> DEFINE f == [phase |-> None, mode |-> None, vm |-> None]
<1>2. f \in Fences /\ f.phase = None /\ f.mode = None /\ f.vm = None
  BY DEF Fences
<1> HIDE DEF f
<1>3. lfence' = [lfence EXCEPT ![n] = f]
  BY DEF f
<1>4. lfence' \in [Nodes -> Fences] /\ lfence'[n] = f /\ \A m \in Nodes : m # n => lfence'[m] = lfence[m]
  BY <1>1, <1>2, <1>3
<1> QED
  BY <1>1, <1>2, <1>4 DEF ServingType

\* The fence is drained.
LEMMA FenceReadyStep ==
    ASSUME HandoffInv, NEW n \in Nodes, FenceReady(n)
    PROVE  HandoffInv'
<1> USE DEF HandoffInv
<1>1. /\ lfence' = [lfence EXCEPT ![n].phase = "ready"] /\ Unlock(n) /\ is_fenced(n)
      /\ UNCHANGED <<journals, bound, logical, guests, seeds, msgs, tenants>>
  BY DEF FenceReady, Holds, OpInv, NodeOp, FenceOp
<1>2. op'[n] = Idle /\ op'[Peer(n)] = op[Peer(n)] /\ op' \in [Nodes -> Operations]
  BY <1>1, UnlockFacts
<1>3. NodeOp(n)'
  BY <1>2, IdleOp
<1>4. ServingType'
  BY <1>1, FencePhase
<1>5. ControlType' /\ Traceable
  BY <1>1, <1>2, KeptTraceable DEF StateType, ControlType
<1>8. lfence'[Peer(n)] = lfence[Peer(n)]
  BY <1>1, PeerFacts DEF StateType, ServingType
<1> QED
  BY <1>1, <1>2, <1>3, <1>4, <1>5, <1>8, ControlStep DEF journals, guests, tenants

\* An unfence begins: no record of the bound VM has a ready fence.
LEMMA UnfenceStep ==
    ASSUME HandoffInv, NEW n \in Nodes, unfence(n)
    PROVE  HandoffInv'
<1> USE PeerFacts DEF HandoffInv
<1>1. /\ ~(Src(n) # None /\ Src(n).fence # None) /\ is_fenced(n)
      /\ Lock(n, "unfence", "open", None)
      /\ lfence' = [lfence EXCEPT ![n].phase = "unfencing"]
      /\ UNCHANGED <<journals, bound, logical, guests, seeds, msgs, tenants>>
  BY DEF unfence
<1>2. ASSUME NEW r \in Records(source[n]), r.vm = bound[n] PROVE r.fence # "ready"
  <2>1. CASE r \in ToSet(source[n].hist)
    <3>1. r.vm = Src(n).vm
      BY <1>2, <2>1 DEF Core, BoundInv
    <3>2. r.fence = None
      BY <2>1, <3>1 DEF Core, BoundInv
    <3> QED
      BY <3>2, NoneAssumption
  <2>2. CASE r \notin ToSet(source[n].hist)
    BY <1>1, <2>2, NoneAssumption, RecordTypes DEF Records, Src
  <2> QED
    BY <2>1, <2>2
<1>3. [kind |-> "unfence", step |-> "open", req |-> None] \in Operations
  BY DEF Operations, OpKinds, OpStages
<1>4. /\ op'[n].kind = "unfence" /\ op'[Peer(n)] = op[Peer(n)] /\ op' \in [Nodes -> Operations]
  BY <1>1, <1>3, LockFacts
<1>5. NodeOp(n)'
  BY <1>1, <1>2, <1>4 DEF NodeOp, SeedOp, BindOp, HandoffOp, AcceptOp, UnfenceOp, FenceOp, journals
<1>6. ServingType'
  BY <1>1, FencePhase
<1>7. ControlType' /\ Traceable
  BY <1>1, <1>4, KeptTraceable DEF StateType, ControlType
<1>8. lfence'[Peer(n)] = lfence[Peer(n)]
  BY <1>1, PeerFacts DEF StateType, ServingType
<1> QED
  BY <1>1, <1>4, <1>5, <1>6, <1>7, <1>8, ControlStep DEF journals, guests, tenants

\* An unfence ends.
LEMMA UnfenceClearsStep ==
    ASSUME HandoffInv, NEW n \in Nodes, UnfenceClears(n)
    PROVE  HandoffInv'
<1> USE DEF HandoffInv
<1>1. /\ lfence' = [lfence EXCEPT ![n] = [phase |-> None, mode |-> None, vm |-> None]] /\ Unlock(n)
      /\ UNCHANGED <<journals, bound, logical, guests, seeds, msgs, tenants>>
  BY DEF UnfenceClears
<1>2. op'[n] = Idle /\ op'[Peer(n)] = op[Peer(n)] /\ op' \in [Nodes -> Operations]
  BY <1>1, UnlockFacts
<1>3. NodeOp(n)'
  BY <1>2, IdleOp
<1>4. ServingType'
  BY <1>1, FenceCleared DEF StateType, ServingType
<1>5. ControlType' /\ Traceable
  BY <1>1, <1>2, KeptTraceable DEF StateType, ControlType
<1>8. lfence'[Peer(n)] = lfence[Peer(n)]
  BY <1>1, PeerFacts DEF StateType, ServingType
<1> QED
  BY <1>1, <1>2, <1>3, <1>4, <1>5, <1>8, ControlStep DEF journals, guests, tenants

\* Steps on no mutex: every holder relies on what it did.
LEMMA OpsKept ==
    ASSUME HandoffInv, UNCHANGED <<op, source, physical, bound, lfence, creates>>,
           \A m \in Nodes : vm[bound[m]].mode = "primary" /\ ~Allows(bound[m]) => ~Allows(bound[m])'
    PROVE  OpInv'
<1>1. ASSUME NEW m \in Nodes PROVE NodeOp(m)'
  BY OpKept DEF Granted
<1> QED
  BY <1>1 DEF OpInv

\* A request is sent or lost: provisions are of prepared generations.
LEMMA MessageStep ==
    ASSUME HandoffInv, msgs' \subseteq Provisions \cup Binds \cup Handoffs \cup Answers, Traceable,
           UNCHANGED <<source, physical, bound, logical, lfence, vm, creates, lost, op, seeds, sess, acked>>
    PROVE  HandoffInv'
<1> USE DEF HandoffInv
<1>1. StateType'
  BY DEF StateType, JournalType, GuestType, TenantType, ServingType, ControlType
<1>2. Core'
  BY ControlCore DEF Attached
<1>3. OpInv'
  BY OpsKept DEF Allows
<1> QED
  BY <1>1, <1>2, <1>3

\* A message is lost.
LEMMA LoseMessageStep ==
    ASSUME HandoffInv, NEW m \in msgs, LoseMessage(m)
    PROVE  HandoffInv'
<1> USE DEF HandoffInv
<1>1. msgs' = msgs \ {m} /\ UNCHANGED <<journals, serving, guests, op, seeds, tenants>>
  BY DEF LoseMessage
<1>2. msgs' \subseteq Provisions \cup Binds \cup Handoffs \cup Answers
  BY <1>1 DEF StateType, ControlType
<1>3. Traceable
  BY <1>1, KeptTraceable
<1> QED
  BY <1>1, <1>2, <1>3, MessageStep DEF journals, serving, guests, tenants

\* The peer is asked to bind its verified candidate as a standby.
LEMMA BindStandbySourceStep ==
    ASSUME HandoffInv, NEW n \in Nodes, bind_standby_source(n)
    PROVE  HandoffInv'
<1> USE PeerFacts DEF HandoffInv
<1> DEFINE t == Cand(Peer(n))
           b == [kind |-> "bind", to |-> Peer(n), gen |-> t.gen, cand |-> t.cand,
                 vm |-> t.srcVm, lsn |-> Lsn(bound[n])]
<1>1. /\ t # None /\ t.phase = "verified" /\ msgs' = msgs \cup {b}
      /\ UNCHANGED <<journals, serving, guests, op, seeds, tenants>>
  BY DEF bind_standby_source
<1>2. t \in CandidateRecords /\ t.cand = t.gen
  BY <1>1, RecordTypes DEF CandidateRecords, Core, CandInv
<1>3. Lsn(bound[n]) \in Nat
  BY DEF StateType, ServingType, GuestType, GuestState, Lsn
<1>4. b \in Binds /\ b.kind # "provision"
  BY <1>2, <1>3 DEF Binds, CandidateRecords
<1> HIDE DEF b
<1>5. msgs' \subseteq Provisions \cup Binds \cup Handoffs \cup Answers
  BY <1>1, <1>4 DEF StateType, ControlType
<1>6. Traceable
  BY <1>1, <1>4, KeptTraceable
<1> QED
  BY <1>1, <1>5, <1>6, MessageStep DEF journals, serving, guests, tenants

\* A message has the fields of its kind.
LEMMA MessageTypes ==
    ASSUME StateType, NEW m \in msgs
    PROVE  /\ m.to \in Nodes
           /\ m.kind = "provision" => m \in Provisions
           /\ m.kind = "bind" => m \in Binds
           /\ m.kind = "handoff" => m \in Handoffs
           /\ m.kind = "activated" => m \in Answers
BY DEF StateType, ControlType, Provisions, Binds, Handoffs, Answers

\* The answer of an activated candidate is a message.
LEMMA AnswerType ==
    ASSUME StateType, Core, NEW n \in Nodes, Cand(n) # None, Cand(n).phase \in {"binding", "activated"}
    PROVE  Answer(n) \in Answers /\ Answer(n).kind # "provision"
<1>1. Cand(n).gen \in Gens /\ Cand(n).cand = Cand(n).gen
  BY RecordTypes DEF CandidateRecords, Core, CandInv
<1> QED
  BY <1>1, PeerFacts DEF Answer, Answers

\* A request to accept the handoff is served or refused.
LEMMA AcceptHandoffStep ==
    ASSUME HandoffInv, NEW n \in Nodes, NEW m \in msgs, accept_handoff(n, m)
    PROVE  HandoffInv'
<1> USE PeerFacts DEF HandoffInv
<1> DEFINE k == Cand(n)
           fits == k # None /\ k.gen = m.gen /\ k.cand = m.cand /\ k.srcVm = m.vm
<1>1. m.kind = "handoff" /\ op[n] = Idle /\ UNCHANGED <<journals, serving, guests, seeds, tenants>>
  BY DEF accept_handoff
<1>2. m \in Handoffs /\ msgs \subseteq Provisions \cup Binds \cup Handoffs \cup Answers
  BY <1>1, MessageTypes DEF StateType, ControlType
<1>3. CASE fits /\ k.phase \in {"verified", "standby"} /\ Lock(n, "accept", "grant", m) /\ msgs' = msgs \ {m}
  <2>1. [kind |-> "accept", step |-> "grant", req |-> m] \in Operations
    BY <1>2 DEF Operations, OpKinds, OpStages
  <2>2. /\ op'[n].kind = "accept" /\ op'[n].step = "grant" /\ op'[n].req = m
        /\ op'[Peer(n)] = op[Peer(n)] /\ op' \in [Nodes -> Operations]
    BY <1>3, <2>1, LockFacts
  <2>3. Cand(n)' = Cand(n)
    BY <1>1 DEF journals, Cand
  <2>4. NodeOp(n)'
    BY <1>2, <1>3, <2>2, <2>3 DEF NodeOp, SeedOp, BindOp, HandoffOp, AcceptOp, UnfenceOp, FenceOp, Holds
  <2>5. ServingType' /\ ControlType' /\ Traceable
    BY <1>1, <1>3, <2>2, KeptTraceable DEF StateType, ServingType, ControlType, serving
  <2> QED
    BY <1>1, <2>2, <2>4, <2>5, ControlStep DEF journals, serving, guests, tenants
<1>4. CASE fits /\ handoff_started(k) /\ k.phase # "activated" /\ Lock(n, "accept", "run", m) /\ msgs' = msgs \ {m}
  <2>1. [kind |-> "accept", step |-> "run", req |-> m] \in Operations
    BY <1>2 DEF Operations, OpKinds, OpStages
  <2>2. /\ op'[n].kind = "accept" /\ op'[n].step = "run" /\ op'[n].req = m
        /\ op'[Peer(n)] = op[Peer(n)] /\ op' \in [Nodes -> Operations]
    BY <1>4, <2>1, LockFacts
  <2>3. Cand(n)' = Cand(n)
    BY <1>1 DEF journals, Cand
  <2>4. NodeOp(n)'
    BY <1>2, <1>4, <2>2, <2>3 DEF NodeOp, SeedOp, BindOp, HandoffOp, AcceptOp, UnfenceOp, FenceOp, Holds
  <2>5. ServingType' /\ ControlType' /\ Traceable
    BY <1>1, <1>4, <2>2, KeptTraceable DEF StateType, ServingType, ControlType, serving
  <2> QED
    BY <1>1, <2>2, <2>4, <2>5, ControlStep DEF journals, serving, guests, tenants
<1>5. CASE fits /\ k.phase = "activated" /\ msgs' = (msgs \ {m}) \cup {Answer(n)} /\ UNCHANGED op
  <2>1. Answer(n) \in Answers /\ Answer(n).kind # "provision"
    BY <1>5, AnswerType
  <2>2. msgs' \subseteq Provisions \cup Binds \cup Handoffs \cup Answers /\ Traceable
    BY <1>1, <1>2, <1>5, <2>1, KeptTraceable
  <2> QED
    BY <1>1, <1>5, <2>2, MessageStep DEF journals, serving, guests, tenants
<1>6. CASE msgs' = msgs \ {m} /\ UNCHANGED op
  <2>1. msgs' \subseteq Provisions \cup Binds \cup Handoffs \cup Answers /\ Traceable
    BY <1>1, <1>2, <1>6, KeptTraceable
  <2> QED
    BY <1>1, <1>6, <2>1, MessageStep DEF journals, serving, guests, tenants
<1> QED
  BY <1>3, <1>4, <1>5, <1>6 DEF accept_handoff

\* The source confirms its grant.
LEMMA GrantConfirmedStep ==
    ASSUME HandoffInv, NEW n \in Nodes, GrantConfirmed(n)
    PROVE  HandoffInv'
<1> USE PeerFacts DEF HandoffInv
<1> DEFINE m == op[n].req
           s == Src(Peer(n))
<1>1. /\ Holds(n, "accept", "grant") /\ s # None /\ s.grant # None
      /\ s.gen = m.gen /\ s.vm = m.vm /\ s.grant = [cand |-> m.cand, barrier |-> m.barrier]
      /\ Step(n, "begin") /\ UNCHANGED <<journals, serving, guests, seeds, msgs, tenants>>
  BY DEF GrantConfirmed, source_grant
<1>2. /\ Cand(n) # None /\ m \in Handoffs /\ Cand(n).phase \in {"verified", "standby"}
      /\ Cand(n).gen = m.gen /\ Cand(n).srcVm = m.vm /\ Cand(n).cand = m.cand
  BY <1>1 DEF OpInv, NodeOp, AcceptOp, Holds
<1>3. m.cand = m.gen
  BY <1>2, RecordTypes DEF Core, CandInv
<1>4. Granted(Peer(n), m.gen, m.vm, m.barrier)
  BY <1>1, <1>3, RecordTypes DEF Granted
<1>5. /\ op'[n].kind = "accept" /\ op'[n].step = "begin" /\ op'[n].req = m
      /\ op'[Peer(n)] = op[Peer(n)] /\ op' \in [Nodes -> Operations]
  BY <1>1, StepFacts DEF OpStages, Holds
<1>6. Cand(n)' = Cand(n) /\ Granted(Peer(n), m.gen, m.vm, m.barrier)'
  <2>1. source' = source /\ physical' = physical
    BY <1>1 DEF journals
  <2>2. PICK q : q = m
    OBVIOUS
  <2>3. Granted(Peer(n), q.gen, q.vm, q.barrier)' <=> Granted(Peer(n), q.gen, q.vm, q.barrier)
    BY <2>1 DEF Granted
  <2> QED
    BY <1>4, <1>5, <2>1, <2>2, <2>3 DEF Cand
<1>7. NodeOp(n)'
  BY <1>2, <1>5, <1>6 DEF NodeOp, SeedOp, BindOp, HandoffOp, AcceptOp, UnfenceOp, FenceOp, Holds
<1>8. ServingType' /\ ControlType' /\ Traceable
  BY <1>1, <1>5, KeptTraceable DEF StateType, ServingType, ControlType, serving
<1> QED
  BY <1>1, <1>5, <1>7, <1>8, ControlStep DEF journals, serving, guests, tenants

-----------------------------------------------------------------------------
(* Tenants and restarts *)

\* A tenant connection goes from one stage to the next.
LEMMA SessionTypes ==
    ASSUME StateType, NEW c \in Clients, NEW s \in Sessions, sess' = [sess EXCEPT ![c] = s],
           s.at \in {"routed", "attached"} => s.vm \in VMs,
           s.at \in {"admitted", "claim", "vetted"} => s.node \in Nodes,
           acked' = acked
    PROVE  /\ TenantType'
           /\ s.at # "attached" => \A v \in VMs : Attached(v)' \subseteq Attached(v)
           /\ \A v \in VMs : s.vm # v => Attached(v)' \subseteq Attached(v)
<1>1. sess \in [Clients -> Sessions] /\ TenantType
  BY DEF StateType, TenantType
<1>2. sess' \in [Clients -> Sessions] /\ sess'[c] = s /\ \A d \in Clients : d # c => sess'[d] = sess[d]
  BY <1>1
<1>3. TenantType'
  BY <1>1, <1>2 DEF TenantType
<1> QED
  BY <1>2, <1>3 DEF Attached

\* A session starts only on a VM that admits it.
LEMMA TenantStep ==
    ASSUME HandoffInv, NEW c \in Clients, NEW s \in Sessions, sess' = [sess EXCEPT ![c] = s],
           s.at \in {"routed", "attached"} => s.vm \in VMs,
           s.at \in {"admitted", "claim", "vetted"} => s.node \in Nodes,
           s.at = "attached" => Allows(s.vm),
           UNCHANGED <<source, physical, bound, logical, lfence, vm, creates, lost, op, seeds, msgs, acked>>
    PROVE  HandoffInv'
<1> USE DEF HandoffInv
<1>1. /\ TenantType'
      /\ s.at # "attached" => \A v \in VMs : Attached(v)' \subseteq Attached(v)
      /\ \A v \in VMs : s.vm # v => Attached(v)' \subseteq Attached(v)
  BY SessionTypes
<1>2. StateType'
  BY <1>1 DEF StateType, JournalType, GuestType, ServingType, ControlType
<1>3. Traceable
  BY KeptTraceable
<1>4. \A v \in VMs : ~Allows(v) /\ Attached(v) = {} => Attached(v)' = {}
  BY <1>1
<1>5. Core'
  BY <1>3, <1>4, ControlCore
<1>6. OpInv'
  BY OpsKept DEF Allows
<1> QED
  BY <1>2, <1>5, <1>6

\* Connections are routed, vetted, checked out, started and ended.
LEMMA SessionStep ==
    ASSUME HandoffInv, NEW c \in Clients,
           \/ \E n \in Doors : Connect(c, n) \/ ConnectToPeer(c, n)
           \/ ClaimVetted(c) \/ checkout(c) \/ SessionStarts(c) \/ Disconnect(c)
    PROVE  HandoffInv'
<1> USE DEF HandoffInv
<1>0. /\ sess \in [Clients -> Sessions] /\ sess[c] \in Sessions /\ bound \in [Nodes -> VMs]
      /\ sess[c].at \in {"routed", "attached"} => sess[c].vm \in VMs
      /\ sess[c].at \in {"admitted", "claim", "vetted"} => sess[c].node \in Nodes
  BY DEF StateType, TenantType, ServingType
<1> USE DEF journals, serving, guests, control
<1>1. ASSUME NEW n \in Doors, Connect(c, n) PROVE HandoffInv'
  <2>0. n \in Nodes
    BY HandoffAssumption
  <2> DEFINE s == [at |-> "admitted", node |-> n, vm |-> None, claim |-> None]
  <2>1. s \in Sessions /\ s.at = "admitted" /\ s.node = n
    BY <2>0 DEF Sessions
  <2>2. sess' = [sess EXCEPT ![c] = s] /\ UNCHANGED <<journals, serving, guests, control, acked>>
    BY <1>1 DEF Connect, Session
  <2> HIDE DEF s
  <2> QED
    BY <2>0, <2>1, <2>2, TenantStep
<1>2. ASSUME NEW n \in Doors, ConnectToPeer(c, n) PROVE HandoffInv'
  <2>0. n \in Nodes /\ Peer(n) \in Nodes
    BY HandoffAssumption, PeerFacts
  <2>1. ASSUME NEW q \in Claims, Session(c, "claim", Peer(n), None, q),
               UNCHANGED <<journals, serving, guests, control, acked>>
        PROVE  HandoffInv'
    <3> DEFINE s == [at |-> "claim", node |-> Peer(n), vm |-> None, claim |-> q]
    <3>1. s \in Sessions /\ s.at = "claim" /\ s.node = Peer(n)
      BY <2>0, <2>1 DEF Sessions
    <3>2. sess' = [sess EXCEPT ![c] = s]
      BY <2>1 DEF Session
    <3> HIDE DEF s
    <3> QED
      BY <2>0, <2>1, <3>1, <3>2, TenantStep
  <2>2. CASE RouteByGrant(n) /\ Session(c, "claim", Peer(n), None,
                     [kind |-> "activation", gen |-> Src(n).gen, cand |-> Src(n).grant.cand,
                      srcVm |-> Src(n).vm])
    <3>1. Src(n) \in SourceRecords /\ Src(n).grant # None
      BY <2>0, <2>2, RecordTypes DEF RouteByGrant, SourceRoute
    <3>2. [kind |-> "activation", gen |-> Src(n).gen, cand |-> Src(n).grant.cand,
           srcVm |-> Src(n).vm] \in Claims
      BY <3>1 DEF SourceRecords, Grants, Claims
    <3> QED
      BY <1>2, <2>1, <2>2, <3>2 DEF ConnectToPeer
  <2>3. CASE RouteToInitialSource(n) /\ Session(c, "claim", Peer(n), None,
                     [kind |-> "initial", gen |-> Cand(n).gen, cand |-> Cand(n).cand,
                      srcVm |-> Cand(n).srcVm])
    <3>1. Cand(n) \in CandidateRecords /\ Cand(n).cand = Cand(n).gen
      BY <2>0, <2>3, RecordTypes DEF RouteToInitialSource, Core, CandInv
    <3>2. [kind |-> "initial", gen |-> Cand(n).gen, cand |-> Cand(n).cand,
           srcVm |-> Cand(n).srcVm] \in Claims
      BY <3>1 DEF CandidateRecords, Claims
    <3> QED
      BY <1>2, <2>1, <2>3, <3>2 DEF ConnectToPeer
  <2> QED
    BY <1>2, <2>2, <2>3 DEF ConnectToPeer
<1>3. ASSUME ClaimVetted(c) PROVE HandoffInv'
  <2> DEFINE s == [sess[c] EXCEPT !.at = "vetted"]
  <2>1. s \in Sessions /\ s.at = "vetted" /\ s.node = sess[c].node
    BY <1>0 DEF Sessions
  <2>2. sess[c].at = "claim" /\ sess' = [sess EXCEPT ![c] = s]
        /\ UNCHANGED <<journals, serving, guests, control, acked>>
    BY <1>0, <1>3 DEF ClaimVetted
  <2> HIDE DEF s
  <2> QED
    BY <1>0, <2>1, <2>2, TenantStep
<1>4. ASSUME checkout(c) PROVE HandoffInv'
  <2> DEFINE s == [at |-> "routed", node |-> sess[c].node, vm |-> bound[sess[c].node], claim |-> None]
  <2>1. sess[c].at \in {"admitted", "vetted"} /\ sess' = [sess EXCEPT ![c] = s]
        /\ UNCHANGED <<journals, serving, guests, control, acked>>
    BY <1>4 DEF checkout, Session
  <2>2. s \in Sessions /\ s.at = "routed" /\ s.vm \in VMs
    BY <1>0, <2>1 DEF Sessions
  <2> HIDE DEF s
  <2> QED
    BY <1>0, <2>1, <2>2, TenantStep
<1>5. ASSUME SessionStarts(c) PROVE HandoffInv'
  <2> DEFINE r == [sess[c] EXCEPT !.at = "attached"]
             s == [r EXCEPT !.node = None]
  <2>1. sess[c].at = "routed" /\ Allows(sess[c].vm)
        /\ UNCHANGED <<journals, serving, guests, control, acked>>
    BY <1>5 DEF SessionStarts, Admits
  <2>2. r \in Sessions /\ r.at = "attached" /\ r.vm = sess[c].vm
    BY <1>0 DEF Sessions
  <2>3. s = [sess[c] EXCEPT !.at = "attached", !.node = None]
    BY <1>0 DEF Sessions
  <2>4. sess' = [sess EXCEPT ![c] = s]
    <3>1. sess' = [sess EXCEPT ![c] = [sess[c] EXCEPT !.at = "attached", !.node = None]]
      BY <1>0, <1>5 DEF SessionStarts
    <3> QED
      BY <2>3, <3>1
  <2> HIDE DEF r
  <2>5. s \in Sessions /\ s.at = "attached" /\ s.vm = sess[c].vm
    BY <2>2 DEF Sessions
  <2> HIDE DEF s
  <2> QED
    BY <1>0, <2>1, <2>4, <2>5, TenantStep
<1>6. ASSUME Disconnect(c) PROVE HandoffInv'
  <2>1. Off \in Sessions /\ Off.at = "off"
    BY DEF Off, Sessions
  <2>2. sess' = [sess EXCEPT ![c] = Off] /\ UNCHANGED <<journals, serving, guests, control, acked>>
    BY <1>6 DEF Disconnect
  <2> QED
    BY <2>1, <2>2, TenantStep
<1> QED
  BY <1>1, <1>2, <1>3, <1>4, <1>5, <1>6

\* A node restarts: its mutex, workers and opening connections are gone.
LEMMA CrashStep ==
    ASSUME HandoffInv, NEW n \in Nodes, Crash(n)
    PROVE  HandoffInv'
<1> USE PeerFacts DEF HandoffInv
<1> DEFINE opening == {c \in Clients : sess[c].at \notin {"off", "attached"} /\ sess[c].node = n}
<1>1. /\ op' = [op EXCEPT ![n] = Idle] /\ seeds' = [seeds EXCEPT ![n] = {}]
      /\ msgs' \subseteq msgs
      /\ sess' = [c \in Clients |-> IF c \in opening THEN Off ELSE sess[c]]
      /\ UNCHANGED <<journals, serving, guests, acked>>
  BY DEF Crash
<1>2. op'[n] = Idle /\ op'[Peer(n)] = op[Peer(n)] /\ op' \in [Nodes -> Operations]
  BY <1>1, UnlockFacts DEF Unlock
<1>3. TenantType' /\ \A v \in VMs : Attached(v)' \subseteq Attached(v)
  <2>1. Off \in Sessions /\ Off.at = "off"
    BY DEF Off, Sessions
  <2>2. /\ sess' \in [Clients -> Sessions]
        /\ \A c \in Clients : sess'[c] = sess[c] \/ sess'[c].at = "off"
    BY <1>1, <2>1 DEF StateType, TenantType
  <2>3. TenantType'
    BY <1>1, <2>2 DEF StateType, TenantType
  <2> QED
    BY <2>2, <2>3 DEF Attached
<1>4. \A m \in Nodes : seeds'[m] \subseteq seeds[m]
  BY <1>1 DEF StateType, ControlType
<1>5. ControlType'
  BY <1>1, <1>2, <1>4 DEF StateType, ControlType
<1>6. StateType'
  BY <1>1, <1>3, <1>5 DEF StateType, JournalType, ServingType, GuestType, journals, serving, guests
<1>7. Traceable
  <2>1. \A m \in msgs : m.to \in Nodes
    BY MessageTypes
  <2> QED
    BY <1>1, <1>4, <2>1 DEF Traceable
<1>8. Core'
  BY <1>1, <1>3, <1>7, ControlCore DEF journals, serving, guests
<1>9. NodeOp(n)'
  BY <1>2, IdleOp
<1>10. NodeOp(Peer(n))'
  BY <1>1, <1>2, OpKept DEF Granted, Allows, journals, serving, guests
<1> QED
  BY <1>6, <1>8, <1>9, <1>10, Assembled

-----------------------------------------------------------------------------
(* Writes to a VM's log *)

\* Only a record that opens makes a closed VM allow connections.
LEMMA WriteFacts ==
    ASSUME StateType, NEW v \in VMs, NEW x \in Int, NEW b \in BOOLEAN, vm' = Write(v, x, b)
    PROVE  /\ vm' \in [VMs -> GuestState]
           /\ \A w \in VMs : /\ vm'[w].mode = vm[w].mode /\ vm'[w].promo = vm[w].promo
                             /\ vm'[w].src = vm[w].src
           /\ \A w \in VMs : w # v => vm'[w] = vm[w]
           /\ vm'[v].wal = IF b THEN Append(vm[v].wal, x) ELSE vm[v].wal
           /\ \A w \in VMs : x # Open /\ ~Allows(w) => ~Allows(w)'
           /\ \A w \in VMs : w # v /\ ~Allows(w) => ~Allows(w)'
           /\ x = Close /\ (Allows(v) => b) => ~Allows(v)'
<1>0. vm \in [VMs -> GuestState] /\ vm[v] \in GuestState
  BY DEF StateType, GuestType
<1> DEFINE wl == Append(vm[v].wal, x)
           r == [vm[v] EXCEPT !.wal = wl]
<1>1. vm[v].wal \in Seq(Int) /\ wl \in Seq(Int)
  BY <1>0 DEF GuestState
<1>2. CASE ~b
  <2>1. vm' = vm
    BY <1>2 DEF Write
  <2> QED
    BY <1>0, <1>2, <2>1 DEF Allows
<1>3. CASE b
  <2>1. vm' = [vm EXCEPT ![v] = r]
    BY <1>0, <1>3 DEF Write
  <2> HIDE DEF wl
  <2>2. /\ r \in GuestState /\ r.mode = vm[v].mode /\ r.promo = vm[v].promo /\ r.src = vm[v].src
        /\ r.wal = wl
    BY <1>0, <1>1 DEF GuestState
  <2> HIDE DEF r
  <2>3. vm' \in [VMs -> GuestState] /\ vm'[v] = r /\ \A w \in VMs : w # v => vm'[w] = vm[w]
    BY <1>0, <2>1, <2>2
  <2>4. /\ x = Close => ~SwitchedOn(wl, Open, Close)
        /\ x # Open /\ ~SwitchedOn(vm[v].wal, Open, Close) => ~SwitchedOn(wl, Open, Close)
    <3>1. Open \in Int /\ Close \in Int /\ Open # Close
      BY DEF Open, Close
    <3> QED
      BY <1>1, <3>1, SwitchAppend DEF wl
  <2>5. \A w \in VMs : w # v => (Allows(w)' <=> Allows(w))
    BY <2>3 DEF Allows
  <2>6. Allows(v)' <=> SwitchedOn(wl, Open, Close)
    BY <2>2, <2>3 DEF Allows
  <2>7. \A w \in VMs : x # Open /\ ~Allows(w) => ~Allows(w)'
    BY <2>4, <2>5, <2>6 DEF Allows
  <2> QED
    BY <1>3, <2>2, <2>3, <2>4, <2>5, <2>6, <2>7 DEF wl
<1> QED
  BY <1>2, <1>3

\* Writing to a log, under a mutex, something that opens no VM with a ready fence and
\* no VM the peer closes.
LEMMA WriteStep ==
    ASSUME HandoffInv, NEW n \in Nodes, NEW v \in VMs, NEW x \in Int, NEW b \in BOOLEAN,
           vm' = Write(v, x, b),
           x = Open => /\ v # bound[Peer(n)]
                       /\ \A m \in Nodes : \A r \in Records(source[m]) : r.fence = "ready" => r.vm # v,
           op'[Peer(n)] = op[Peer(n)], op' \in [Nodes -> Operations], NodeOp(n)',
           UNCHANGED <<source, physical, bound, logical, lfence, creates, lost, seeds, msgs, sess, acked>>
    PROVE  HandoffInv'
<1> USE PeerFacts DEF HandoffInv
<1>1. /\ vm' \in [VMs -> GuestState]
      /\ \A w \in VMs : /\ vm'[w].mode = vm[w].mode /\ vm'[w].promo = vm[w].promo
                        /\ vm'[w].src = vm[w].src
      /\ \A w \in VMs : x # Open /\ ~Allows(w) => ~Allows(w)'
      /\ \A w \in VMs : w # v /\ ~Allows(w) => ~Allows(w)'
  BY WriteFacts
<1>2. StateType'
  BY <1>1 DEF StateType, JournalType, GuestType, ServingType, ControlType, TenantType
<1>3. Traceable
  BY KeptTraceable
<1>4. \A m \in Nodes : \A r \in Records(source[m]) : r.fence = "ready" /\ ~Allows(r.vm) => ~Allows(r.vm)'
  <2>1. \A m \in Nodes : \A r \in Records(source[m]) : r.vm \in VMs
    BY RecordTypes DEF SourceRecords
  <2> QED
    BY <1>1, <2>1
<1>5. Core'
  BY <1>1, <1>3, <1>4, WalCore
<1>6. bound[Peer(n)] \in VMs
  BY DEF StateType, ServingType
<1>7. NodeOp(Peer(n))'
  BY <1>1, <1>6, OpKept DEF Granted
<1> QED
  BY <1>2, <1>5, <1>7, Assembled

\* The handoff closes the source VM.
LEMMA CloseSourceStep ==
    ASSUME HandoffInv, NEW n \in Nodes, CloseSource(n)
    PROVE  HandoffInv'
<1> USE PeerFacts DEF HandoffInv
<1>1. /\ Holds(n, "handoff", "close") /\ vm' = Write(bound[n], Close, Allows(bound[n]))
      /\ Step(n, "drain") /\ UNCHANGED <<journals, serving, creates, lost, seeds, msgs, tenants>>
  BY DEF CloseSource
<1>2. bound[n] \in VMs /\ Close \in Int /\ Close # Open /\ Allows(bound[n]) \in BOOLEAN
  BY DEF StateType, ServingType, Close, Open, Allows, SwitchedOn
<1>3. /\ op'[n].kind = "handoff" /\ op'[n].step = "drain" /\ op'[n].req = op[n].req
      /\ op'[Peer(n)] = op[Peer(n)] /\ op' \in [Nodes -> Operations]
  BY <1>1, StepFacts DEF OpStages, Holds
<1>4. ~Allows(bound[n])' /\ bound' = bound /\ source' = source
  <2>1. PICK v \in VMs : v = bound[n]
    BY <1>2
  <2>2. ~Allows(v)'
    BY <1>1, <1>2, <2>1, WriteFacts
  <2> QED
    BY <1>1, <2>1, <2>2 DEF serving, journals
<1>5. NodeOp(n)'
  BY <1>1, <1>3, <1>4 DEF OpInv, NodeOp, SeedOp, BindOp, HandoffOp, AcceptOp, UnfenceOp, FenceOp, Holds, Src
<1> QED
  BY <1>1, <1>2, <1>3, <1>5, WriteStep DEF journals, serving, tenants

\* An operator's fence closes the bound VM.
LEMMA FenceClosesStep ==
    ASSUME HandoffInv, NEW n \in Nodes, FenceCloses(n)
    PROVE  HandoffInv'
<1> USE PeerFacts DEF HandoffInv
<1>1. /\ Holds(n, "fence", "close")
      /\ vm' = IF op[n].req = "hard" THEN Write(bound[n], Close, Allows(bound[n]))
                                     ELSE Write(bound[n], NoLogin, rolcanlogin(bound[n]))
      /\ Step(n, "drain") /\ UNCHANGED <<journals, serving, creates, lost, seeds, msgs, tenants>>
  BY DEF FenceCloses
<1>2. /\ bound[n] \in VMs /\ Close \in Int /\ Close # Open /\ Allows(bound[n]) \in BOOLEAN
      /\ NoLogin \in Int /\ NoLogin # Open /\ rolcanlogin(bound[n]) \in BOOLEAN
  BY DEF StateType, ServingType, Close, Open, NoLogin, Allows, rolcanlogin, SwitchedOn
<1>3. /\ op'[n].kind = "fence" /\ op'[n].step = "drain" /\ op'[n].req = op[n].req
      /\ op'[Peer(n)] = op[Peer(n)] /\ op' \in [Nodes -> Operations]
  BY <1>1, StepFacts DEF OpStages, Holds
<1>4. is_fenced(n)'
  BY <1>1 DEF OpInv, NodeOp, FenceOp, Holds, is_fenced, serving
<1>5. NodeOp(n)'
  BY <1>3, <1>4 DEF NodeOp, SeedOp, BindOp, HandoffOp, AcceptOp, UnfenceOp, FenceOp, Holds
<1>6. CASE op[n].req = "hard"
  BY <1>1, <1>2, <1>3, <1>5, <1>6, WriteStep DEF journals, serving, tenants
<1>7. CASE op[n].req # "hard"
  BY <1>1, <1>2, <1>3, <1>5, <1>7, WriteStep DEF journals, serving, tenants
<1> QED
  BY <1>6, <1>7

\* Unfence reopens the bound VM, which has no ready fence.
LEMMA UnfenceOpensStep ==
    ASSUME HandoffInv, NEW n \in Nodes, UnfenceOpens(n)
    PROVE  HandoffInv'
<1> USE PeerFacts DEF HandoffInv
<1>1. /\ Holds(n, "unfence", "open")
      /\ vm' = IF lfence[n].mode = "hard" THEN Write(bound[n], Open, ~Allows(bound[n]))
                                          ELSE Write(bound[n], Login, ~rolcanlogin(bound[n]))
      /\ Step(n, "clear") /\ UNCHANGED <<journals, serving, creates, lost, seeds, msgs, tenants>>
  BY DEF UnfenceOpens
<1>2. /\ bound[n] \in VMs /\ Open \in Int /\ (~Allows(bound[n])) \in BOOLEAN
      /\ Login \in Int /\ Login # Open /\ (~rolcanlogin(bound[n])) \in BOOLEAN
  BY DEF StateType, ServingType, Open, Login, Allows, rolcanlogin, SwitchedOn
<1>3. /\ op'[n].kind = "unfence" /\ op'[n].step = "clear" /\ op'[n].req = op[n].req
      /\ op'[Peer(n)] = op[Peer(n)] /\ op' \in [Nodes -> Operations]
  BY <1>1, StepFacts DEF OpStages, Holds
<1>4. NodeOp(n)'
  BY <1>3 DEF NodeOp, SeedOp, BindOp, HandoffOp, AcceptOp, UnfenceOp, FenceOp, Holds
<1>5. bound[n] # bound[Peer(n)]
  BY Owned
<1>6. ASSUME NEW m \in Nodes, NEW r \in Records(source[m]), r.fence = "ready" PROVE r.vm # bound[n]
  <2>1. CASE m = n
    BY <1>1, <1>6, <2>1 DEF OpInv, NodeOp, UnfenceOp
  <2>2. CASE m = Peer(n)
    BY <2>2, Owned
  <2> QED
    BY <2>1, <2>2
<1>7. CASE lfence[n].mode = "hard"
  BY <1>1, <1>2, <1>3, <1>4, <1>5, <1>6, <1>7, WriteStep DEF journals, serving, tenants
<1>8. CASE lfence[n].mode # "hard"
  BY <1>1, <1>2, <1>3, <1>4, <1>8, WriteStep DEF journals, serving, tenants
<1> QED
  BY <1>7, <1>8

\* The promoted candidate is opened before it is activated: no record names it.
LEMMA OpenAdmissionStep ==
    ASSUME HandoffInv, NEW n \in Nodes, OpenAdmission(n)
    PROVE  HandoffInv'
<1> USE PeerFacts DEF HandoffInv
<1>1. /\ Holds(n, "accept", "open")
      /\ vm' = Write(Cand(n).cand, Open, ~Allows(Cand(n).cand))
      /\ Step(n, "activate") /\ UNCHANGED <<journals, serving, creates, lost, seeds, msgs, tenants>>
  BY DEF OpenAdmission
<1>2. Cand(n) # None /\ Cand(n).phase = "binding" /\ bound[n] = Cand(n).cand
  BY <1>1 DEF OpInv, NodeOp, AcceptOp, Holds
<1>3. /\ bound[n] \in VMs /\ Open \in Int /\ (~Allows(bound[n])) \in BOOLEAN
  BY DEF StateType, ServingType, Open, Allows, SwitchedOn
<1>4. /\ op'[n].kind = "accept" /\ op'[n].step = "activate" /\ op'[n].req = op[n].req
      /\ op'[Peer(n)] = op[Peer(n)] /\ op' \in [Nodes -> Operations]
  BY <1>1, StepFacts DEF OpStages, Holds
<1>5. NodeOp(n)'
  <2>1. Cand(n)' = Cand(n) /\ bound' = bound
    BY <1>1 DEF journals, serving, Cand
  <2> QED
    BY <1>2, <1>4, <2>1 DEF NodeOp, SeedOp, BindOp, HandoffOp, AcceptOp, UnfenceOp, FenceOp, Holds
<1>6. bound[n] # bound[Peer(n)]
  BY Owned
<1>7. \A m \in Nodes : \A r \in Records(source[m]) : r.vm # bound[n]
  BY <1>2, NoRecordYet
<1>8. vm' = Write(bound[n], Open, ~Allows(bound[n]))
  BY <1>1, <1>2
<1>9. UNCHANGED <<source, physical, bound, logical, lfence, creates, lost, seeds, msgs, sess, acked>>
  BY <1>1 DEF journals, serving, tenants
<1> QED
  BY <1>3, <1>4, <1>5, <1>6, <1>7, <1>8, <1>9, WriteStep

\* A tenant commits.
LEMMA CommitStep ==
    ASSUME HandoffInv, NEW c \in Clients, Commit(c)
    PROVE  HandoffInv'
<1> USE DEF HandoffInv
<1> DEFINE x == Cardinality(acked) + 1
<1>1. /\ sess[c].at = "attached" /\ x <= MaxCommits
      /\ vm' = Write(sess[c].vm, x, TRUE) /\ acked' = acked \cup {x}
      /\ UNCHANGED <<journals, serving, creates, lost, control, sess>>
  BY DEF Commit
<1>2. sess[c].vm \in VMs /\ acked \subseteq 1 .. MaxCommits /\ TenantType
  BY <1>1 DEF StateType, TenantType
<1>3. x \in 1 .. MaxCommits
  <2>1. IsFiniteSet(1 .. MaxCommits)
    BY HandoffAssumption, FS_Interval
  <2>2. IsFiniteSet(acked)
    BY <1>2, <2>1, FS_Subset
  <2>3. Cardinality(acked) \in Nat
    BY <2>2, FS_CardinalityType
  <2> QED
    BY <1>1, <2>3, HandoffAssumption
<1> HIDE DEF x
<1>4. x \in Int /\ x # Open
  BY <1>3 DEF Open
<1>5. /\ vm' \in [VMs -> GuestState]
      /\ \A w \in VMs : /\ vm'[w].mode = vm[w].mode /\ vm'[w].promo = vm[w].promo
                        /\ vm'[w].src = vm[w].src
      /\ \A w \in VMs : ~Allows(w) => ~Allows(w)'
  BY <1>1, <1>2, <1>4, WriteFacts
<1>6. StateType'
  BY <1>1, <1>2, <1>3, <1>5 DEF StateType, JournalType, GuestType, ServingType, ControlType, TenantType,
                           journals, serving, control
<1>7. Traceable
  BY <1>1, KeptTraceable DEF control
<1>8. \A m \in Nodes : \A r \in Records(source[m]) : r.vm \in VMs
  BY RecordTypes DEF SourceRecords
<1>9. Core'
  BY <1>1, <1>5, <1>7, <1>8, WalCore DEF journals, serving
<1>10. \A m \in Nodes : bound[m] \in VMs
  BY DEF StateType, ServingType
<1>11. OpInv'
  BY <1>1, <1>5, <1>10, OpsKept DEF journals, serving, control
<1> QED
  BY <1>6, <1>9, <1>11

-----------------------------------------------------------------------------
(* Guests *)

\* A VM that is no primary changes, and becomes none.
LEMMA GuestUpdate ==
    ASSUME HandoffInv, NEW g \in Gens, NEW r \in GuestState, vm' = [vm EXCEPT ![g] = r],
           vm[g].mode # "primary", r.mode # "primary",
           r.mode \in {"seeding", "standby"} => r.src \in VMs,
           \/ r.promo = "none"
           \/ /\ r.promo \in {"prepared", "promoting"} /\ r.mode = "standby"
              /\ \E n \in Nodes : \E k \in Records(physical[n]) : k.gen = g /\ handoff_started(k),
           CreateInv', creates' \in [Gens -> Nat],
           UNCHANGED <<source, physical, bound, logical, lost, sess>>, Traceable
    PROVE  /\ GuestType' /\ Core'
           /\ \A m \in Nodes : vm[bound[m]].mode = "primary" /\ ~Allows(bound[m]) => ~Allows(bound[m])'
<1> USE PeerFacts DEF HandoffInv
<1>0. g \in VMs /\ Gens \subseteq VMs /\ Nodes \subseteq VMs /\ g \notin Nodes
  BY HandoffAssumption DEF VMs
<1>1. /\ vm' \in [VMs -> GuestState] /\ vm'[g] = r /\ \A w \in VMs : w # g => vm'[w] = vm[w]
  BY <1>0 DEF StateType, GuestType
<1>2. GuestType'
  BY <1>1 DEF StateType, GuestType
<1>3. \A w \in VMs : vm[w].mode = "primary" /\ ~Allows(w) => ~Allows(w)'
  BY <1>1 DEF Allows
<1>4. \A m \in Nodes : \A q \in Records(source[m]) : q.vm \in VMs /\ vm[q.vm].mode = "primary"
  BY RecordTypes DEF SourceRecords, Core, ShutInv
<1>5. PromoteInv'
  <2>1. \A m \in Nodes : Cand(m) # None => Cand(m).gen \in VMs
    BY <1>0, RecordTypes DEF CandidateRecords
  <2>2. vm[g].promo # "promoted"
    BY DEF Core, PromoteInv
  <2>3. \A h \in Gens : vm'[h].promo # "none" =>
          \E n \in Nodes : \E k \in Records(physical[n]) : k.gen = h /\ handoff_started(k)
    BY <1>0, <1>1 DEF Core, PromoteInv
  <2>4. \A h \in Gens : /\ vm'[h].mode = "primary" => vm'[h].promo \in {"promoting", "promoted"}
                        /\ vm'[h].promo = "prepared" => vm'[h].mode = "standby"
                        /\ vm'[h].promo = "promoting" => vm'[h].mode \in {"standby", "primary"}
                        /\ vm'[h].promo = "promoted" => vm'[h].mode = "primary"
    BY <1>0, <1>1 DEF Core, PromoteInv
  <2>5. \A n \in Nodes : vm'[n] = vm[n]
    BY <1>0, <1>1
  <2>6. \A n \in Nodes : Cand(n) # None =>
          (Cand(n).phase \in {"promoted", "binding", "activated"} => vm'[Cand(n).gen].promo = "promoted")
    BY <1>1, <2>1, <2>2 DEF Core, PromoteInv
  <2> QED
    BY <2>3, <2>4, <2>5, <2>6 DEF Core, PromoteInv, Granted, Cand
<1>6. Core'
  BY <1>0, <1>1, <1>3, <1>4, <1>5, GuestCore
<1>7. \A m \in Nodes : bound[m] \in VMs
  BY DEF StateType, ServingType
<1> QED
  BY <1>2, <1>3, <1>6, <1>7

\* A VM that has not been prepared for promotion has an empty promotion journal.
LEMMA NotPromoting ==
    ASSUME HandoffInv, NEW g \in Gens, vm[g].mode \notin {"standby", "primary"}
    PROVE  vm[g].promo = "none" /\ vm[g] \in GuestState
<1>1. g \in VMs
  BY DEF VMs
<1>2. vm[g] \in GuestState
  BY <1>1 DEF HandoffInv, StateType, GuestType
<1>3. vm[g].promo \in {"none", "prepared", "promoting", "promoted"}
  BY <1>2 DEF GuestState, Promotions
<1> QED
  BY <1>2, <1>3 DEF HandoffInv, Core, PromoteInv

\* A guest changes by itself.
LEMMA GuestStep ==
    ASSUME HandoffInv, NEW g \in Gens, NEW r \in GuestState, vm' = [vm EXCEPT ![g] = r],
           vm[g].mode # "primary", r.mode # "primary",
           r.mode \in {"seeding", "standby"} => r.src \in VMs,
           r.promo = "none" \/ (r.promo = vm[g].promo /\ r.mode = vm[g].mode),
           UNCHANGED <<journals, serving, creates, lost, control, tenants>>
    PROVE  HandoffInv'
<1> USE DEF HandoffInv, journals, serving, control, tenants
<1>0. vm[g].promo \in {"none", "prepared", "promoting", "promoted"}
  BY DEF StateType, GuestType, GuestState, Promotions, VMs
<1>1. CreateInv' /\ creates' \in [Gens -> Nat]
  BY DEF Core, CreateInv, StateType, GuestType
<1>2. \/ r.promo = "none"
      \/ /\ r.promo \in {"prepared", "promoting"} /\ r.mode = "standby"
         /\ \E n \in Nodes : \E k \in Records(physical[n]) : k.gen = g /\ handoff_started(k)
  BY <1>0 DEF Core, PromoteInv
<1>3. Traceable
  BY KeptTraceable
<1>4. /\ GuestType' /\ Core'
      /\ \A m \in Nodes : vm[bound[m]].mode = "primary" /\ ~Allows(bound[m]) => ~Allows(bound[m])'
  BY <1>1, <1>2, <1>3, GuestUpdate
<1>5. StateType'
  BY <1>4 DEF StateType, JournalType, ServingType, ControlType, TenantType
<1>6. OpInv'
  BY <1>4, OpsKept
<1> QED
  BY <1>4, <1>5, <1>6

\* One field of a VM changes.
LEMMA GuestFields ==
    ASSUME NEW r \in GuestState
    PROVE  /\ \A x \in VmModes : /\ [r EXCEPT !.mode = x] \in GuestState
                                 /\ [r EXCEPT !.mode = x].mode = x
                                 /\ [r EXCEPT !.mode = x].promo = r.promo
                                 /\ [r EXCEPT !.mode = x].src = r.src
                                 /\ [r EXCEPT !.mode = x].wal = r.wal
           /\ \A x \in Seq(Int) : /\ [r EXCEPT !.wal = x] \in GuestState
                                  /\ [r EXCEPT !.wal = x].wal = x
                                  /\ [r EXCEPT !.wal = x].promo = r.promo
                                  /\ [r EXCEPT !.wal = x].src = r.src
                                  /\ [r EXCEPT !.wal = x].mode = r.mode
           /\ \A x \in Promotions : /\ [r EXCEPT !.promo = x] \in GuestState
                                    /\ [r EXCEPT !.promo = x].promo = x
                                    /\ [r EXCEPT !.promo = x].mode = r.mode
                                    /\ [r EXCEPT !.promo = x].src = r.src
                                    /\ [r EXCEPT !.promo = x].wal = r.wal
           /\ \A x \in VMs : /\ [r EXCEPT !.src = x] \in GuestState
                             /\ [r EXCEPT !.src = x].src = x
                             /\ [r EXCEPT !.src = x].mode = r.mode
                             /\ [r EXCEPT !.src = x].promo = r.promo
                             /\ [r EXCEPT !.src = x].wal = r.wal
BY DEF GuestState

\* A created VM becomes visible.
LEMMA VmVisibleStep ==
    ASSUME HandoffInv, NEW g \in Gens, VmVisible(g)
    PROVE  HandoffInv'
<1>1. /\ vm[g].mode = "pending" /\ vm' = [vm EXCEPT ![g].mode = "fresh"]
      /\ UNCHANGED <<journals, serving, creates, lost, control, tenants>>
  BY DEF VmVisible
<1>2. vm[g].promo = "none" /\ vm[g] \in GuestState
  BY <1>1, NotPromoting
<1> DEFINE r == [vm[g] EXCEPT !.mode = "fresh"]
<1>3. r \in GuestState /\ r.mode = "fresh" /\ r.promo = "none"
  BY <1>2, GuestFields DEF VmModes
<1>4. vm' = [vm EXCEPT ![g] = r]
  BY <1>1
<1> HIDE DEF r
<1> QED
  BY <1>1, <1>3, <1>4, GuestStep

\* A guest finishes its base backup.
LEMMA SeedCopiedStep ==
    ASSUME HandoffInv, NEW g \in Gens, SeedCopied(g)
    PROVE  HandoffInv'
<1>1. /\ vm[g].mode = "seeding"
      /\ vm' = [vm EXCEPT ![g].mode = "standby", ![g].wal = vm[vm[g].src].wal]
      /\ UNCHANGED <<journals, serving, creates, lost, control, tenants>>
  BY DEF SeedCopied
<1>2. vm[g].promo = "none" /\ vm[g] \in GuestState
  BY <1>1, NotPromoting
<1>3. g \in VMs /\ vm \in [VMs -> GuestState] /\ vm[g].src \in VMs /\ vm[vm[g].src].wal \in Seq(Int)
  BY <1>1 DEF HandoffInv, StateType, GuestType, GuestState, VMs
<1> DEFINE w == vm[vm[g].src].wal
           q == [vm[g] EXCEPT !.mode = "standby"]
           r == [q EXCEPT !.wal = w]
<1>4. q \in GuestState /\ q.mode = "standby" /\ q.promo = "none" /\ q.src = vm[g].src
  BY <1>2, GuestFields DEF VmModes
<1>5. w \in Seq(Int)
  BY <1>3
<1>6. vm' = [vm EXCEPT ![g] = r]
  <2>1. vm' = [vm EXCEPT ![g] = [vm[g] EXCEPT !.mode = "standby", !.wal = w]]
    BY <1>1, <1>3
  <2>2. [vm[g] EXCEPT !.mode = "standby", !.wal = w] = r
    BY <1>2 DEF GuestState
  <2> QED
    BY <2>1, <2>2
<1> HIDE DEF q, w
<1>7. r \in GuestState /\ r.mode = "standby" /\ r.promo = "none" /\ r.src \in VMs
  BY <1>3, <1>4, <1>5, GuestFields
<1> HIDE DEF r
<1> QED
  BY <1>1, <1>6, <1>7, GuestStep

\* A standby replays a record.
LEMMA ReplicateStep ==
    ASSUME HandoffInv, NEW g \in Gens, Replicate(g)
    PROVE  HandoffInv'
<1> DEFINE x == vm[vm[g].src].wal[Lsn(g) + 1]
           w == Append(vm[g].wal, x)
           r == [vm[g] EXCEPT !.wal = w]
<1>1. /\ vm[g].mode = "standby" /\ Lsn(g) < Lsn(vm[g].src)
      /\ vm' = [vm EXCEPT ![g].wal = w]
      /\ UNCHANGED <<journals, serving, creates, lost, control, tenants>>
  BY DEF Replicate
<1>2. g \in VMs /\ vm \in [VMs -> GuestState] /\ vm[g].src \in VMs
  BY <1>1 DEF HandoffInv, StateType, GuestType, VMs
<1>3. vm[g] \in GuestState /\ vm[g].wal \in Seq(Int) /\ vm[vm[g].src].wal \in Seq(Int)
  BY <1>2 DEF GuestState
<1>4. x \in Int
  BY <1>1, <1>3 DEF Lsn
<1> HIDE DEF x
<1>5. w \in Seq(Int)
  BY <1>3, <1>4
<1> HIDE DEF w
<1>6. r \in GuestState /\ r.mode = "standby" /\ r.promo = vm[g].promo /\ r.src \in VMs
  BY <1>1, <1>2, <1>3, <1>5, GuestFields
<1>7. vm' = [vm EXCEPT ![g] = r]
  BY <1>1, <1>2
<1> HIDE DEF r
<1> QED
  BY <1>1, <1>6, <1>7, GuestStep

\* PostgreSQL promotes the guest: to a primary, then its journal says so.
LEMMA PgPromoteStep ==
    ASSUME HandoffInv, NEW g \in Gens, PgPromote(g)
    PROVE  HandoffInv'
<1> USE DEF HandoffInv
<1>1. /\ vm[g].promo = "promoting"
      /\ vm' = [vm EXCEPT ![g] = IF vm[g].mode = "standby" THEN [vm[g] EXCEPT !.mode = "primary"]
                                 ELSE [vm[g] EXCEPT !.promo = "promoted"]]
      /\ UNCHANGED <<journals, serving, creates, lost, control, tenants>>
  BY DEF PgPromote
<1>2. /\ g \in VMs /\ vm \in [VMs -> GuestState] /\ vm[g] \in GuestState /\ Gens \subseteq VMs
      /\ Nodes \subseteq VMs /\ g \notin Nodes /\ vm[g].mode \in {"standby", "primary"}
  BY <1>1, HandoffAssumption DEF StateType, GuestType, VMs, Core, PromoteInv
<1>3. UNCHANGED <<source, physical, bound, logical, lfence, creates, lost, op, seeds, msgs, sess, acked>>
  BY <1>1 DEF journals, serving, control, tenants
<1>4. Traceable
  BY <1>3, KeptTraceable
<1>5. CASE vm[g].mode = "standby"
  <2> DEFINE r == [vm[g] EXCEPT !.mode = "primary"]
  <2>1. /\ r \in GuestState /\ r.mode = "primary" /\ r.promo = vm[g].promo /\ r.src = vm[g].src
        /\ r.wal = vm[g].wal
    BY <1>2, GuestFields DEF VmModes
  <2>2. vm' = [vm EXCEPT ![g] = r]
    BY <1>1, <1>5
  <2> HIDE DEF r
  <2>3. vm' \in [VMs -> GuestState] /\ vm'[g] = r /\ \A w \in VMs : w # g => vm'[w] = vm[w]
    BY <1>2, <2>1, <2>2
  <2>4. Core'
    BY <1>1, <1>2, <1>3, <1>5, <2>1, <2>3, PrimaryCore
  <2>5. StateType'
    BY <1>3, <2>1, <2>3 DEF StateType, JournalType, ServingType, GuestType, ControlType, TenantType
  <2>6. \A w \in VMs : Allows(w)' <=> Allows(w)
    BY <2>1, <2>3 DEF Allows
  <2>7. \A m \in Nodes : bound[m] \in VMs
    BY DEF StateType, ServingType
  <2>8. OpInv'
    BY <1>3, <2>6, <2>7, OpsKept
  <2> QED
    BY <2>4, <2>5, <2>8
<1>6. CASE vm[g].mode # "standby"
  <2> DEFINE r == [vm[g] EXCEPT !.promo = "promoted"]
  <2>1. /\ r \in GuestState /\ r.mode = "primary" /\ r.promo = "promoted" /\ r.src = vm[g].src
        /\ r.wal = vm[g].wal
    BY <1>2, <1>6, GuestFields DEF Promotions
  <2>2. vm' = [vm EXCEPT ![g] = r]
    BY <1>1, <1>6
  <2> HIDE DEF r
  <2>3. vm' \in [VMs -> GuestState] /\ vm'[g] = r /\ \A w \in VMs : w # g => vm'[w] = vm[w]
    BY <1>2, <2>1, <2>2
  <2>4. /\ \A w \in VMs : vm'[w].mode = "primary" <=> vm[w].mode = "primary"
        /\ \A w \in VMs : Allows(w)' <=> Allows(w)
    BY <1>2, <1>6, <2>1, <2>3 DEF Allows
  <2>5. PromoteInv'
    <3>1. \A m \in Nodes : Cand(m) # None => Cand(m).gen \in VMs
      BY <1>2, RecordTypes DEF CandidateRecords
    <3>2. \A h \in Gens : vm'[h].promo # "none" =>
            \E n \in Nodes : \E k \in Records(physical[n]) : k.gen = h /\ handoff_started(k)
      BY <1>1, <1>2, <2>3 DEF Core, PromoteInv
    <3>3. \A h \in Gens : /\ vm'[h].mode = "primary" => vm'[h].promo \in {"promoting", "promoted"}
                          /\ vm'[h].promo = "prepared" => vm'[h].mode = "standby"
                          /\ vm'[h].promo = "promoting" => vm'[h].mode \in {"standby", "primary"}
                          /\ vm'[h].promo = "promoted" => vm'[h].mode = "primary"
      BY <1>2, <2>1, <2>3 DEF Core, PromoteInv
    <3>4. \A n \in Nodes : vm'[n] = vm[n]
      BY <1>2, <2>3
    <3>5. \A n \in Nodes : Cand(n) # None =>
            (Cand(n).phase \in {"promoted", "binding", "activated"} => vm'[Cand(n).gen].promo = "promoted")
      BY <2>1, <2>3, <3>1 DEF Core, PromoteInv
    <3> QED
      BY <1>3, <3>2, <3>3, <3>4, <3>5 DEF Core, PromoteInv, Granted, Cand
  <2>6. CreateInv'
    BY <1>3 DEF Core, CreateInv
  <2>7. \A m \in Nodes : bound[m] \in VMs /\ \A q \in Records(source[m]) : q.vm \in VMs
    BY RecordTypes DEF StateType, ServingType, SourceRecords
  <2>8. Core'
    BY <1>3, <1>4, <2>4, <2>5, <2>6, <2>7, GuestCore
  <2>9. StateType'
    BY <1>3, <2>1, <2>3 DEF StateType, JournalType, ServingType, GuestType, ControlType, TenantType
  <2>10. OpInv'
    BY <1>3, <2>4, <2>7, OpsKept
  <2> QED
    BY <2>8, <2>9, <2>10
<1> QED
  BY <1>5, <1>6

-----------------------------------------------------------------------------
(* The candidate's journal *)

\* The phases of a candidate, as a set.
LEMMA PhaseNames ==
    {"intent", "creating", "candidate", "seeding", "verified", "standby_binding", "standby",
     "prepared", "promoting", "promoted", "binding", "activated"} \subseteq ToSet(Phases)
<1>1. /\ DOMAIN Phases = 1 .. 12
      /\ Phases[1] = "intent" /\ Phases[2] = "creating" /\ Phases[3] = "candidate"
      /\ Phases[4] = "seeding" /\ Phases[5] = "verified" /\ Phases[6] = "standby_binding"
      /\ Phases[7] = "standby" /\ Phases[8] = "prepared" /\ Phases[9] = "promoting"
      /\ Phases[10] = "promoted" /\ Phases[11] = "binding" /\ Phases[12] = "activated"
  BY DEF Phases
<1> QED
  BY <1>1 DEF ToSet

\* A transition of the candidate's record.
LEMMA AdvanceFacts ==
    ASSUME StateType, NEW n \in Nodes, NEW from, NEW to \in ToSet(Phases), NEW v \in Gens \cup {None},
           Advance(n, from, to, v)
    PROVE  /\ Cand(n) # None /\ Cand(n).phase = from /\ <<from, to>> \in LegalAdvance
           /\ Cand(n)' \in CandidateRecords
           /\ physical' = [physical EXCEPT ![n] = Update(physical[n], Cand(n)')]
           /\ Cand(n)'.gen = Cand(n).gen /\ Cand(n)'.pred = Cand(n).pred
           /\ Cand(n)'.srcVm = Cand(n).srcVm /\ Cand(n)'.prev = Cand(n).prev
           /\ Cand(n)'.barrier = Cand(n).barrier /\ Cand(n)'.phase = to
           /\ v = None => Cand(n)'.cand = Cand(n).cand
           /\ v # None => Cand(n)'.cand = v
<1>1. /\ Cand(n) # None /\ Cand(n).phase = from /\ <<from, to>> \in LegalAdvance
      /\ physical' = [physical EXCEPT ![n] = advance(physical[n], to, v)]
  BY DEF Advance, advance_ok, Cand
<1>2. Cand(n) \in CandidateRecords
  BY <1>1, RecordTypes
<1> DEFINE c == IF v = None THEN Cand(n).cand ELSE v
           p == [Cand(n) EXCEPT !.phase = to]
           k == [p EXCEPT !.cand = c]
<1>3. c \in Gens \cup {None}
  BY <1>2 DEF CandidateRecords
<1>4. advance(physical[n], to, v) = Update(physical[n], k)
  BY <1>2 DEF advance, Cand, CandidateRecords
<1> HIDE DEF c
<1>5. /\ p \in CandidateRecords /\ p.gen = Cand(n).gen /\ p.pred = Cand(n).pred
      /\ p.srcVm = Cand(n).srcVm /\ p.phase = to
      /\ p.prev = Cand(n).prev /\ p.barrier = Cand(n).barrier
  BY <1>2 DEF CandidateRecords
<1> HIDE DEF p
<1>6. /\ k \in CandidateRecords /\ k.gen = p.gen /\ k.pred = p.pred
      /\ k.srcVm = p.srcVm /\ k.phase = p.phase /\ k.cand = c
      /\ k.prev = p.prev /\ k.barrier = p.barrier
  BY <1>3, <1>5 DEF CandidateRecords
<1> HIDE DEF k
<1>7. Cand(n)' = k
  <2>1. physical'[n] = Update(physical[n], k)
    BY <1>1, <1>4 DEF StateType, JournalType
  <2>2. Update(physical[n], k).cur = k
    BY <1>6, UpdateRecords, RecordTypes, NoneAssumption DEF CandidateJournals
  <2> QED
    BY <2>1, <2>2 DEF Cand
<1> QED
  BY <1>1, <1>4, <1>5, <1>6, <1>7 DEF c

\* The phase a transition ends in, and the VM it names.
LEMMA AdvancePhase ==
    ASSUME StateType, NEW n \in Nodes, NEW from, NEW to \in ToSet(Phases), NEW v \in Gens \cup {None},
           Advance(n, from, to, v)
    PROVE  Cand(n)'.phase = to /\ (v # None => Cand(n)'.cand = v)
BY AdvanceFacts

\* The current candidate record is rewritten, under the node's mutex.
LEMMA CandStep ==
    ASSUME HandoffInv, NEW n \in Nodes, Cand(n) # None, NEW k \in CandidateRecords,
           physical' = [physical EXCEPT ![n] = Update(physical[n], k)],
           k.gen = Cand(n).gen, k.pred = Cand(n).pred, k.srcVm = Cand(n).srcVm,
           k.phase # "intent", Cand(n).phase # "activated",
           k.cand = IF k.phase = "creating" THEN None ELSE k.gen,
           handoff_started(Cand(n)) => handoff_started(k),
           handoff_started(k) => k.barrier \in Nat /\ Granted(Peer(n), k.gen, k.srcVm, k.barrier),
           k.phase \in {"promoted", "binding", "activated"} => vm[k.gen].promo = "promoted",
           k.phase = "activated" => bound[n] = k.gen,
           ControlType', Traceable, op'[Peer(n)] = op[Peer(n)],
           Cand(n)' = k => NodeOp(n)',
           UNCHANGED <<source, bound, logical, lfence, vm, creates, lost, sess, acked>>
    PROVE  HandoffInv'
<1> USE PeerFacts DEF HandoffInv
<1>1. Core'
  BY CandUpdateCore
<1>2. physical[n] \in CandidateJournals /\ None \notin CandidateRecords
  BY RecordTypes, NoneAssumption
<1>3. Update(physical[n], k) \in CandidateJournals /\ Update(physical[n], k).cur = k
  BY <1>2, UpdateRecords DEF CandidateJournals
<1>4. /\ physical' \in [Nodes -> CandidateJournals] /\ physical'[n] = Update(physical[n], k)
      /\ physical'[Peer(n)] = physical[Peer(n)]
  BY <1>3 DEF StateType, JournalType
<1>5. StateType'
  BY <1>4 DEF StateType, JournalType, ServingType, GuestType, TenantType
<1>6. NodeOp(n)'
  BY <1>3, <1>4 DEF Cand
<1>7. NodeOp(Peer(n))'
  BY <1>4, OpKept DEF Granted, Allows
<1> QED
  BY <1>1, <1>5, <1>6, <1>7, Assembled

\* The seed worker owns the VM it found.
LEMMA SeedOwnsStep ==
    ASSUME HandoffInv, NEW n \in Nodes, SeedOwns(n)
    PROVE  HandoffInv'
<1> USE PeerFacts DEF HandoffInv
<1>1. /\ Holds(n, "seed", "find") /\ Advance(n, "creating", "candidate", op[n].req.gen) /\ Step(n, "run")
      /\ UNCHANGED <<source, serving, guests, seeds, msgs, tenants>>
  BY DEF SeedOwns
<1>2. /\ op[n].req \in Provisions /\ op[n].req.to = n /\ Cand(n) # None /\ Cand(n).gen = op[n].req.gen
      /\ Cand(n).srcVm = op[n].req.vm
  BY <1>1 DEF OpInv, NodeOp, SeedOp, Holds
<1>3. PICK g \in Gens : g = op[n].req.gen /\ g # None
  BY <1>2, HandoffAssumption DEF Provisions
<1>4. /\ Cand(n).phase = "creating" /\ Cand(n)' \in CandidateRecords
      /\ physical' = [physical EXCEPT ![n] = Update(physical[n], Cand(n)')]
      /\ Cand(n)'.gen = Cand(n).gen /\ Cand(n)'.pred = Cand(n).pred /\ Cand(n)'.srcVm = Cand(n).srcVm
      /\ Cand(n)'.phase = "candidate" /\ Cand(n)'.cand = g
  <2>1. "candidate" \in ToSet(Phases) /\ g \in Gens \cup {None} /\ Advance(n, "creating", "candidate", g)
    BY <1>1, <1>3, PhaseNames
  <2>2. PICK p \in ToSet(Phases) : p = "candidate"
    BY <2>1
  <2>3. Advance(n, "creating", p, g)
    BY <2>1, <2>2
  <2>4. /\ Cand(n).phase = "creating" /\ Cand(n)' \in CandidateRecords
        /\ physical' = [physical EXCEPT ![n] = Update(physical[n], Cand(n)')]
        /\ Cand(n)'.gen = Cand(n).gen /\ Cand(n)'.pred = Cand(n).pred /\ Cand(n)'.srcVm = Cand(n).srcVm
    BY <1>3, <2>1, <2>3, AdvanceFacts
  <2>5. Cand(n)'.phase = p /\ Cand(n)'.cand = g
    BY <1>3, <2>1, <2>3, AdvancePhase
  <2> QED
    BY <2>2, <2>4, <2>5
<1>5. /\ op'[n].kind = "seed" /\ op'[n].step = "run" /\ op'[n].req = op[n].req
      /\ op'[Peer(n)] = op[Peer(n)] /\ op' \in [Nodes -> Operations]
  BY <1>1, StepFacts DEF OpStages, Holds
<1>6. NodeOp(n)'
  BY <1>2, <1>4, <1>5, NoneAssumption
     DEF NodeOp, SeedOp, BindOp, HandoffOp, AcceptOp, UnfenceOp, FenceOp, Holds
<1>7. ControlType' /\ Traceable
  BY <1>1, <1>5, KeptTraceable DEF StateType, ControlType
<1>8. ~handoff_started(Cand(n)) /\ ~handoff_started(Cand(n)')
  BY <1>4 DEF handoff_started, HandoffPhases
<1>9. UNCHANGED <<source, bound, logical, lfence, vm, creates, lost, sess, acked>>
  BY <1>1 DEF serving, guests, tenants
<1>10. Cand(n)'.cand = Cand(n)'.gen
  BY <1>2, <1>3, <1>4
<1> QED
  BY <1>2, <1>4, <1>5, <1>6, <1>7, <1>8, <1>9, <1>10, CandStep

\* A transition of the candidate's record that names no VM.
LEMMA AdvanceStep ==
    ASSUME HandoffInv, NEW n \in Nodes, NEW from, NEW to, Advance(n, from, to, None), from # "creating",
           to = "promoted" => vm[Cand(n).gen].promo = "promoted",
           to = "activated" => bound[n] = Cand(n).cand,
           ControlType', Traceable, op'[Peer(n)] = op[Peer(n)],
           (/\ Cand(n)' # None /\ Cand(n)'.phase = to /\ Cand(n)'.gen = Cand(n).gen
            /\ Cand(n)'.srcVm = Cand(n).srcVm /\ Cand(n)'.cand = Cand(n).cand)
              => NodeOp(n)',
           UNCHANGED <<source, bound, logical, lfence, vm, creates, lost, sess, acked>>
    PROVE  HandoffInv'
<1> USE PeerFacts DEF HandoffInv
<1>1. <<from, to>> \in LegalAdvance
  BY DEF Advance, advance_ok
<1>2. /\ from \in {"intent", "candidate", "seeding", "standby_binding", "prepared", "promoting",
                   "promoted", "binding"}
      /\ from = "intent" => to = "creating"
      /\ from = "candidate" => to = "seeding"
      /\ from = "seeding" => to = "verified"
      /\ from = "standby_binding" => to = "standby"
      /\ from = "prepared" => to = "promoting"
      /\ from = "promoting" => to = "promoted"
      /\ from = "promoted" => to = "binding"
      /\ from = "binding" => to = "activated"
  BY <1>1 DEF LegalAdvance
<1>3. to \in ToSet(Phases) /\ None \in Gens \cup {None}
  BY <1>2, PhaseNames
<1>4. /\ Cand(n) # None /\ Cand(n).phase = from /\ Cand(n)' \in CandidateRecords
      /\ physical' = [physical EXCEPT ![n] = Update(physical[n], Cand(n)')]
      /\ Cand(n)'.gen = Cand(n).gen /\ Cand(n)'.pred = Cand(n).pred
      /\ Cand(n)'.srcVm = Cand(n).srcVm /\ Cand(n)'.cand = Cand(n).cand
      /\ Cand(n)'.barrier = Cand(n).barrier /\ Cand(n)'.phase = to
  <2>1. PICK p \in ToSet(Phases) : p = to
    BY <1>3
  <2>2. Advance(n, from, p, None)
    BY <2>1
  <2>3. /\ Cand(n) # None /\ Cand(n).phase = from /\ Cand(n)' \in CandidateRecords
        /\ physical' = [physical EXCEPT ![n] = Update(physical[n], Cand(n)')]
        /\ Cand(n)'.gen = Cand(n).gen /\ Cand(n)'.pred = Cand(n).pred
        /\ Cand(n)'.srcVm = Cand(n).srcVm /\ Cand(n)'.cand = Cand(n).cand
        /\ Cand(n)'.barrier = Cand(n).barrier
    BY <1>3, <2>2, AdvanceFacts
  <2>4. Cand(n)'.phase = p
    BY <1>3, <2>2, AdvancePhase
  <2> QED
    BY <2>1, <2>3, <2>4
<1>5. PICK k \in CandidateRecords : k = Cand(n)'
  BY <1>4
<1>6. Cand(n) \in Records(physical[n])
  BY <1>4, RecordTypes
<1>7. /\ Cand(n).cand = IF from = "intent" THEN None ELSE Cand(n).gen
      /\ from # "activated" /\ to # "intent"
  BY <1>2, <1>4, <1>6 DEF Core, CandInv
<1>8. k.cand = IF k.phase = "creating" THEN None ELSE k.gen
  BY <1>2, <1>4, <1>5, <1>7
<1>9. handoff_started(Cand(n)) <=> handoff_started(k)
  BY <1>2, <1>4, <1>5 DEF handoff_started, HandoffPhases
<1>10. handoff_started(k) => k.barrier \in Nat /\ Granted(Peer(n), k.gen, k.srcVm, k.barrier)
  BY <1>4, <1>5, <1>6, <1>9 DEF Core, PromoteInv
<1>11. k.phase \in {"promoted", "binding", "activated"} => vm[k.gen].promo = "promoted"
  BY <1>2, <1>4, <1>5 DEF Core, PromoteInv
<1>12. k.phase = "activated" => bound[n] = k.gen
  BY <1>2, <1>4, <1>5, <1>7
<1>13. Cand(n)' = k => NodeOp(n)'
  BY <1>4, <1>5, NoneAssumption
<1> QED
  BY <1>4, <1>5, <1>7, <1>8, <1>9, <1>10, <1>11, <1>12, <1>13, CandStep

\* A seed worker takes the mutex.
LEMMA SeedBeginsStep ==
    ASSUME HandoffInv, NEW n \in Nodes, NEW m \in seeds[n], SeedBegins(n, m)
    PROVE  HandoffInv'
<1> USE PeerFacts DEF HandoffInv
<1>1. /\ seeds' = [seeds EXCEPT ![n] = seeds[n] \ {m}]
      /\ UNCHANGED <<source, serving, guests, msgs, tenants>>
  BY DEF SeedBegins
<1>2. m \in Provisions /\ m.to = n
  BY DEF StateType, ControlType, Core, GenInv
<1>3. seeds' \in [Nodes -> SUBSET Provisions] /\ \A o \in Nodes : seeds'[o] \subseteq seeds[o]
  BY <1>1 DEF StateType, ControlType
<1>4. Traceable
  <2>1. \A x \in msgs : x.to \in Nodes
    BY MessageTypes
  <2> QED
    BY <1>1, <1>3, <2>1 DEF Traceable
<1>5. UNCHANGED <<source, bound, logical, lfence, vm, creates, lost, sess, acked, msgs>>
  BY <1>1 DEF serving, guests, tenants
<1>6. CASE SeedIsStale(n, m)
  <2>1. UNCHANGED <<op, physical>>
    BY <1>6 DEF SeedBegins
  <2>2. NodeOp(n)'
    BY <1>5, <2>1, OpKept DEF Granted, Allows
  <2>3. ControlType' /\ ServingType'
    BY <1>3, <1>5, <2>1 DEF StateType, ControlType, ServingType
  <2> QED
    BY <1>4, <1>5, <2>1, <2>2, <2>3, ControlStep
<1>7. CASE ~SeedIsStale(n, m)
  <2>0. Cand(n) # None /\ Cand(n).gen = m.gen /\ Cand(n).srcVm = m.vm
    BY <1>7 DEF SeedIsStale
  <2>1. CASE Cand(n).phase = "intent"
    <3>1. Lock(n, "seed", "create", m) /\ Advance(n, "intent", "creating", None)
      BY <1>7, <2>1 DEF SeedBegins
    <3>2. [kind |-> "seed", step |-> "create", req |-> m] \in Operations
      BY <1>2 DEF Operations, OpKinds, OpStages
    <3>3. /\ op'[n].kind = "seed" /\ op'[n].step = "create" /\ op'[n].req = m
          /\ op'[Peer(n)] = op[Peer(n)] /\ op' \in [Nodes -> Operations]
      BY <3>1, <3>2, LockFacts
    <3>4. creates[Cand(n).gen] = 0
      <4>1. Cand(n) \in Records(physical[n]) /\ Cand(n).gen \in Gens
            /\ Records(physical[n]) = ToSet(physical[n].hist) \cup {Cand(n)}
        BY <2>0, RecordTypes DEF CandidateRecords
      <4>2. ASSUME creates[Cand(n).gen] # 0 PROVE FALSE
        <5>1. PICK o \in Nodes : \E k \in Records(physical[o]) : k.gen = Cand(n).gen /\ k.phase # "intent"
          BY <4>1, <4>2 DEF Core, CreateInv
        <5>2. PICK k \in Records(physical[o]) : k.gen = Cand(n).gen /\ k.phase # "intent"
          BY <5>1
        <5>3. o = n
          BY <4>1, <5>2, Owned
        <5> QED
          BY <2>1, <4>1, <5>2, <5>3 DEF Core, CandInv
      <4> QED
        BY <4>2
    <3>5. (/\ Cand(n)' # None /\ Cand(n)'.phase = "creating" /\ Cand(n)'.gen = Cand(n).gen
           /\ Cand(n)'.srcVm = Cand(n).srcVm)
             => NodeOp(n)'
      BY <1>2, <1>5, <2>0, <3>3, <3>4 DEF NodeOp, SeedOp, BindOp, HandoffOp, AcceptOp, UnfenceOp, FenceOp, Holds
    <3>6. ControlType'
      BY <1>3, <1>5, <3>3 DEF StateType, ControlType
    <3> QED
      BY <1>4, <1>5, <3>1, <3>3, <3>5, <3>6, AdvanceStep
  <2>2. CASE Cand(n).phase # "intent"
    <3> DEFINE s == IF Cand(n).phase = "creating" THEN "find" ELSE "run"
    <3>1. Lock(n, "seed", s, m) /\ UNCHANGED physical
      BY <1>7, <2>2 DEF SeedBegins
    <3>2. s \in {"find", "run"}
      OBVIOUS
    <3> HIDE DEF s
    <3>3. [kind |-> "seed", step |-> s, req |-> m] \in Operations
      BY <1>2, <3>2 DEF Operations, OpKinds, OpStages
    <3>4. /\ op'[n].kind = "seed" /\ op'[n].step = s /\ op'[n].req = m
          /\ op'[Peer(n)] = op[Peer(n)] /\ op' \in [Nodes -> Operations]
      BY <3>1, <3>3, LockFacts
    <3>5. Cand(n)' = Cand(n)
      BY <3>1 DEF Cand
    <3>6. NodeOp(n)'
      BY <1>2, <2>0, <3>2, <3>4, <3>5 DEF NodeOp, SeedOp, BindOp, HandoffOp, AcceptOp, UnfenceOp, FenceOp, Holds
    <3>7. ControlType' /\ ServingType'
      BY <1>3, <1>5, <3>4 DEF StateType, ControlType, ServingType
    <3> QED
      BY <1>4, <1>5, <3>1, <3>4, <3>6, <3>7, ControlStep
  <2> QED
    BY <2>1, <2>2
<1> QED
  BY <1>6, <1>7

\* The seeded standby is verified.
LEMMA SeedVerifiedStep ==
    ASSUME HandoffInv, NEW n \in Nodes, SeedVerified(n)
    PROVE  HandoffInv'
<1> USE PeerFacts DEF HandoffInv
<1>1. /\ Advance(n, "seeding", "verified", None) /\ Unlock(n)
      /\ UNCHANGED <<source, serving, guests, seeds, msgs, tenants>>
  BY DEF SeedVerified
<1>2. op'[n] = Idle /\ op'[Peer(n)] = op[Peer(n)] /\ op' \in [Nodes -> Operations]
  BY <1>1, UnlockFacts
<1>3. NodeOp(n)'
  BY <1>2, IdleOp
<1>4. ControlType' /\ Traceable
  BY <1>1, <1>2, KeptTraceable DEF StateType, ControlType
<1>5. UNCHANGED <<source, bound, logical, lfence, vm, creates, lost, sess, acked>>
  BY <1>1 DEF serving, guests, tenants
<1> QED
  BY <1>1, <1>2, <1>3, <1>4, <1>5, AdvanceStep

\* The standby binding is recorded.
LEMMA StandbyBoundStep ==
    ASSUME HandoffInv, NEW n \in Nodes, StandbyBound(n)
    PROVE  HandoffInv'
<1> USE PeerFacts DEF HandoffInv
<1>1. /\ Advance(n, "standby_binding", "standby", None) /\ Unlock(n)
      /\ UNCHANGED <<source, serving, guests, seeds, msgs, tenants>>
  BY DEF StandbyBound
<1>2. op'[n] = Idle /\ op'[Peer(n)] = op[Peer(n)] /\ op' \in [Nodes -> Operations]
  BY <1>1, UnlockFacts
<1>3. NodeOp(n)'
  BY <1>2, IdleOp
<1>4. ControlType' /\ Traceable
  BY <1>1, <1>2, KeptTraceable DEF StateType, ControlType
<1>5. UNCHANGED <<source, bound, logical, lfence, vm, creates, lost, sess, acked>>
  BY <1>1 DEF serving, guests, tenants
<1> QED
  BY <1>1, <1>2, <1>3, <1>4, <1>5, AdvanceStep

\* The candidate is activated, and the peer is told.
LEMMA ActivateStep ==
    ASSUME HandoffInv, NEW n \in Nodes, Activate(n)
    PROVE  HandoffInv'
<1> USE PeerFacts DEF HandoffInv
<1>1. /\ Holds(n, "accept", "activate") /\ Advance(n, "binding", "activated", None) /\ Unlock(n)
      /\ msgs' = IF op[n].req = None THEN msgs ELSE msgs \cup {Answer(n)}
      /\ UNCHANGED <<source, serving, guests, seeds, tenants>>
  BY DEF Activate
<1>2. op'[n] = Idle /\ op'[Peer(n)] = op[Peer(n)] /\ op' \in [Nodes -> Operations]
  BY <1>1, UnlockFacts
<1>3. NodeOp(n)'
  BY <1>2, IdleOp
<1>4. Cand(n) # None /\ Cand(n).phase = "binding" /\ bound[n] = Cand(n).cand
  BY <1>1 DEF OpInv, NodeOp, AcceptOp, Holds
<1>5. Answer(n) \in Answers /\ Answer(n).kind # "provision"
  BY <1>4, AnswerType
<1>6. ControlType' /\ Traceable
  BY <1>1, <1>2, <1>5, KeptTraceable DEF StateType, ControlType
<1>7. UNCHANGED <<source, bound, logical, lfence, vm, creates, lost, sess, acked>>
  BY <1>1 DEF serving, guests, tenants
<1> QED
  BY <1>1, <1>2, <1>3, <1>4, <1>6, <1>7, AdvanceStep

\* The holder of the mutex that runs the accepted handoff.
LEMMA RunningOp ==
    ASSUME NEW n \in Nodes, Holds(n, "accept", "run"), op' = op,
           Cand(n)' # None, handoff_started(Cand(n)'), Cand(n)'.phase # "activated"
    PROVE  NodeOp(n)'
BY DEF NodeOp, SeedOp, BindOp, HandoffOp, AcceptOp, UnfenceOp, FenceOp, Holds, handoff_started

\* The promotion is acknowledged in the journal, then the binding begins.
LEMMA PromotionAcknowledgedStep ==
    ASSUME HandoffInv, NEW n \in Nodes, PromotionAcknowledged(n)
    PROVE  HandoffInv'
<1> USE PeerFacts DEF HandoffInv
<1>1. Holds(n, "accept", "run") /\ UNCHANGED <<source, serving, guests, control, tenants>>
  BY DEF PromotionAcknowledged
<1>2. UNCHANGED <<source, bound, logical, lfence, vm, creates, lost, op, seeds, msgs, sess, acked>>
  BY <1>1 DEF serving, guests, tenants, control
<1>3. ControlType' /\ Traceable
  BY <1>2, KeptTraceable DEF StateType, ControlType
<1>4. Cand(n) # None /\ handoff_started(Cand(n)) /\ Cand(n).phase # "activated"
  BY <1>1 DEF OpInv, NodeOp, AcceptOp, Holds
<1>5. Cand(n).cand = Cand(n).gen
  BY <1>4, RecordTypes DEF Core, CandInv, handoff_started, HandoffPhases
<1>6. \A p \in {"promoted", "binding"} : Cand(n)' # None /\ Cand(n)'.phase = p => NodeOp(n)'
  BY <1>1, <1>2, RunningOp DEF handoff_started, HandoffPhases
<1>7. CASE vm[Cand(n).cand].promo = "promoted" /\ Advance(n, "promoting", "promoted", None)
  BY <1>2, <1>3, <1>5, <1>6, <1>7, AdvanceStep
<1>8. CASE Advance(n, "promoted", "binding", None)
  BY <1>2, <1>3, <1>6, <1>8, AdvanceStep
<1> QED
  BY <1>7, <1>8 DEF PromotionAcknowledged

\* A standby binding request is made durable.
LEMMA AcceptStandbyBindStep ==
    ASSUME HandoffInv, NEW n \in Nodes, NEW m \in msgs, accept_standby_bind(n, m)
    PROVE  HandoffInv'
<1> USE PeerFacts DEF HandoffInv
<1>1. /\ m.kind = "bind" /\ msgs' = msgs \ {m} /\ UNCHANGED <<source, serving, guests, seeds, tenants>>
  BY DEF accept_standby_bind
<1>2. UNCHANGED <<source, bound, logical, lfence, vm, creates, lost, seeds, sess, acked>>
  BY <1>1 DEF serving, guests, tenants
<1>3. Traceable /\ msgs' \subseteq Provisions \cup Binds \cup Handoffs \cup Answers /\ m \in Binds
  BY <1>1, KeptTraceable, MessageTypes DEF StateType, ControlType
<1>4. CASE /\ Cand(n) # None /\ begin_standby_binding_ok(physical[n], m.gen, m.lsn)
           /\ Lock(n, "bind", "verify", None)
           /\ physical' = [physical EXCEPT ![n] = begin_standby_binding(physical[n], m.lsn)]
  <2>1. Cand(n).phase \in {"standby_binding", "verified"} /\ Cand(n) \in CandidateRecords
        /\ Cand(n) \in Records(physical[n])
    BY <1>4, RecordTypes DEF begin_standby_binding_ok, Cand
  <2>2. m.lsn \in Nat
    BY <1>3 DEF Binds
  <2> DEFINE p == [Cand(n) EXCEPT !.phase = "standby_binding"]
             k == [p EXCEPT !.standbyLsn = m.lsn]
  <2>3. begin_standby_binding(physical[n], m.lsn) = Update(physical[n], k)
    BY <2>1 DEF begin_standby_binding, Cand, CandidateRecords
  <2>4. /\ p \in CandidateRecords /\ p.gen = Cand(n).gen /\ p.pred = Cand(n).pred
        /\ p.srcVm = Cand(n).srcVm /\ p.phase = "standby_binding" /\ p.cand = Cand(n).cand
    <3>1. "standby_binding" \in ToSet(Phases)
      BY PhaseNames
    <3> QED
      BY <2>1, <3>1 DEF CandidateRecords
  <2> HIDE DEF p
  <2>5. /\ k \in CandidateRecords /\ k.gen = p.gen /\ k.pred = p.pred
        /\ k.srcVm = p.srcVm /\ k.phase = p.phase /\ k.cand = p.cand
    BY <2>2, <2>4 DEF CandidateRecords
  <2> HIDE DEF k
  <2>6. k.cand = k.gen
    BY <2>1, <2>4, <2>5 DEF Core, CandInv
  <2>7. ~handoff_started(Cand(n)) /\ ~handoff_started(k)
    BY <2>1, <2>4, <2>5 DEF handoff_started, HandoffPhases
  <2>8. [kind |-> "bind", step |-> "verify", req |-> None] \in Operations
    BY DEF Operations, OpKinds, OpStages
  <2>9. /\ op'[n].kind = "bind" /\ op'[n].step = "verify"
        /\ op'[Peer(n)] = op[Peer(n)] /\ op' \in [Nodes -> Operations]
    BY <1>4, <2>8, LockFacts
  <2>10. Cand(n)' = k => NodeOp(n)'
    BY <2>4, <2>5, <2>9, NoneAssumption
       DEF NodeOp, SeedOp, BindOp, HandoffOp, AcceptOp, UnfenceOp, FenceOp, Holds
  <2>11. ControlType'
    BY <1>2, <1>3, <2>9 DEF StateType, ControlType
  <2>12. physical' = [physical EXCEPT ![n] = Update(physical[n], k)]
    BY <1>4, <2>3
  <2> QED
    BY <1>2, <1>3, <1>4, <2>1, <2>4, <2>5, <2>6, <2>7, <2>9, <2>10, <2>11, <2>12, CandStep
<1>5. CASE UNCHANGED <<op, physical>>
  BY <1>2, <1>3, <1>5, MessageStep
<1> QED
  BY <1>4, <1>5 DEF accept_standby_bind

\* The confirmed grant is made durable: the handoff has started.
LEMMA HandoffAcceptedStep ==
    ASSUME HandoffInv, NEW n \in Nodes, HandoffAccepted(n)
    PROVE  HandoffInv'
<1> USE PeerFacts DEF HandoffInv
<1>1. /\ Holds(n, "accept", "begin")
      /\ physical' = [physical EXCEPT ![n] = begin_handoff(physical[n], op[n].req.barrier)]
      /\ Step(n, "run") /\ UNCHANGED <<source, serving, guests, seeds, msgs, tenants>>
  BY DEF HandoffAccepted
<1>2. UNCHANGED <<source, bound, logical, lfence, vm, creates, lost, seeds, msgs, sess, acked>>
  BY <1>1 DEF serving, guests, tenants
<1>3. /\ Cand(n) # None /\ op[n].req \in Handoffs /\ Cand(n).phase \in {"verified", "standby"}
      /\ Cand(n).gen = op[n].req.gen /\ Cand(n).srcVm = op[n].req.vm
      /\ Granted(Peer(n), op[n].req.gen, op[n].req.vm, op[n].req.barrier)
  BY <1>1 DEF OpInv, NodeOp, AcceptOp, Holds
<1>4. PICK b \in Nat : b = op[n].req.barrier
  BY <1>3 DEF Handoffs
<1>5. Cand(n) \in CandidateRecords /\ Cand(n) \in Records(physical[n])
  BY <1>3, RecordTypes
<1> DEFINE p == [Cand(n) EXCEPT !.phase = "prepared"]
           q == [p EXCEPT !.barrier = b]
           k == [q EXCEPT !.standbyLsn = None]
<1>6. begin_handoff(physical[n], b) = Update(physical[n], k)
  BY <1>5 DEF begin_handoff, Cand, CandidateRecords
<1>7. /\ p \in CandidateRecords /\ p.gen = Cand(n).gen /\ p.pred = Cand(n).pred
      /\ p.srcVm = Cand(n).srcVm /\ p.phase = "prepared" /\ p.cand = Cand(n).cand
  <2>1. "prepared" \in ToSet(Phases)
    BY PhaseNames
  <2> QED
    BY <1>5, <2>1 DEF CandidateRecords
<1> HIDE DEF p
<1>8. /\ q \in CandidateRecords /\ q.gen = p.gen /\ q.pred = p.pred
      /\ q.srcVm = p.srcVm /\ q.phase = p.phase /\ q.cand = p.cand /\ q.barrier = b
  BY <1>7 DEF CandidateRecords
<1> HIDE DEF q
<1>9. /\ k \in CandidateRecords /\ k.gen = q.gen /\ k.pred = q.pred
      /\ k.srcVm = q.srcVm /\ k.phase = q.phase /\ k.cand = q.cand /\ k.barrier = q.barrier
  BY <1>8 DEF CandidateRecords
<1> HIDE DEF k
<1>10. k.cand = k.gen
  BY <1>3, <1>5, <1>7, <1>8, <1>9 DEF Core, CandInv
<1>11. handoff_started(k)
  BY <1>7, <1>8, <1>9 DEF handoff_started, HandoffPhases
<1>12. k.barrier \in Nat /\ Granted(Peer(n), k.gen, k.srcVm, k.barrier)
  BY <1>3, <1>4, <1>7, <1>8, <1>9
<1>13. /\ op'[n].kind = "accept" /\ op'[n].step = "run" /\ op'[n].req = op[n].req
       /\ op'[Peer(n)] = op[Peer(n)] /\ op' \in [Nodes -> Operations]
  BY <1>1, StepFacts DEF OpStages, Holds
<1>14. Cand(n)' = k => NodeOp(n)'
  BY <1>7, <1>8, <1>9, <1>11, <1>13, NoneAssumption
     DEF NodeOp, SeedOp, BindOp, HandoffOp, AcceptOp, UnfenceOp, FenceOp, Holds, handoff_started
<1>15. ControlType' /\ Traceable
  BY <1>2, <1>13, KeptTraceable DEF StateType, ControlType
<1>16. physical' = [physical EXCEPT ![n] = Update(physical[n], k)]
  BY <1>1, <1>4, <1>6
<1>17. k.gen = Cand(n).gen /\ k.pred = Cand(n).pred /\ k.srcVm = Cand(n).srcVm /\ k.phase = "prepared"
  BY <1>7, <1>8, <1>9
<1> QED
  BY <1>2, <1>3, <1>9, <1>10, <1>11, <1>12, <1>13, <1>14, <1>15, <1>16, <1>17, CandStep

-----------------------------------------------------------------------------
(* The seed worker and the promotion in the guest *)

\* The create request is sent, once for each candidate.
LEMMA SeedCreatesStep ==
    ASSUME HandoffInv, NEW n \in Nodes, SeedCreates(n)
    PROVE  HandoffInv'
<1> USE PeerFacts DEF HandoffInv
<1>1. /\ Holds(n, "seed", "create") /\ Step(n, "find")
      /\ creates' = [creates EXCEPT ![op[n].req.gen] = creates[op[n].req.gen] + 1]
      /\ vm' = [vm EXCEPT ![op[n].req.gen].mode =
                   IF vm[op[n].req.gen].mode = "absent" THEN "pending" ELSE vm[op[n].req.gen].mode]
      /\ UNCHANGED <<journals, serving, lost, seeds, msgs, tenants>>
  BY DEF SeedCreates
<1>2. UNCHANGED <<source, physical, bound, logical, lfence, lost, seeds, msgs, sess, acked>>
  BY <1>1 DEF journals, serving, tenants
<1>3. /\ op[n].req \in Provisions /\ op[n].req.to = n /\ Cand(n) # None /\ Cand(n).gen = op[n].req.gen
      /\ Cand(n).srcVm = op[n].req.vm /\ Cand(n).phase = "creating" /\ creates[Cand(n).gen] = 0
  BY <1>1 DEF OpInv, NodeOp, SeedOp, Holds
<1>4. PICK g \in Gens : g = op[n].req.gen
  BY <1>3 DEF Provisions
<1>5. /\ creates' \in [Gens -> Nat] /\ creates'[g] = 1 /\ \A h \in Gens : h # g => creates'[h] = creates[h]
  BY <1>1, <1>3, <1>4 DEF StateType, GuestType
<1>6. Cand(n) \in Records(physical[n]) /\ Cand(n).gen = g
  BY <1>3, <1>4, RecordTypes
<1>7. CreateInv'
  <2>1. \E o \in Nodes : \E k \in Records(physical[o]) : k.gen = g /\ k.phase # "intent"
    BY <1>3, <1>6
  <2> QED
    BY <1>2, <1>5, <2>1 DEF Core, CreateInv
<1>8. Traceable
  BY <1>2, KeptTraceable
<1>9. /\ op'[n].kind = "seed" /\ op'[n].step = "find" /\ op'[n].req = op[n].req
      /\ op'[Peer(n)] = op[Peer(n)] /\ op' \in [Nodes -> Operations]
  BY <1>1, StepFacts DEF OpStages, Holds
<1>10. NodeOp(n)'
  <2>1. Cand(n)' = Cand(n)
    BY <1>2 DEF Cand
  <2> QED
    BY <1>3, <1>9, <2>1 DEF NodeOp, SeedOp, BindOp, HandoffOp, AcceptOp, UnfenceOp, FenceOp, Holds
<1>11. g \in VMs /\ vm \in [VMs -> GuestState] /\ vm[g] \in GuestState
  BY DEF VMs, StateType, GuestType
<1>12. /\ GuestType' /\ Core'
       /\ \A m \in Nodes : vm[bound[m]].mode = "primary" /\ ~Allows(bound[m]) => ~Allows(bound[m])'
  <2>1. CASE vm[g].mode = "absent"
    <3> DEFINE r == [vm[g] EXCEPT !.mode = "pending"]
    <3>1. vm[g].promo = "none"
      BY <2>1, NotPromoting
    <3>2. r \in GuestState /\ r.mode = "pending" /\ r.promo = "none"
      BY <1>11, <3>1, GuestFields DEF VmModes
    <3>3. vm' = [vm EXCEPT ![g] = r]
      BY <1>1, <1>4, <1>11, <2>1
    <3> HIDE DEF r
    <3> QED
      BY <1>2, <1>5, <1>7, <1>8, <2>1, <3>2, <3>3, GuestUpdate
  <2>2. CASE vm[g].mode # "absent"
    <3>1. vm' = vm
      <4>1. vm' = [vm EXCEPT ![g].mode = vm[g].mode]
        BY <1>1, <1>4, <2>2
      <4>2. [vm[g] EXCEPT !.mode = vm[g].mode] = vm[g]
        BY <1>11 DEF GuestState
      <4>3. vm' = [vm EXCEPT ![g] = vm[g]]
        BY <1>11, <4>1, <4>2
      <4> QED
        BY <1>11, <4>3
    <3>2. GuestType'
      BY <1>2, <1>5, <3>1 DEF StateType, GuestType
    <3>3. PromoteInv'
      BY <1>2, <3>1 DEF Core, PromoteInv, Granted, Cand
    <3>4. Core'
      BY <1>2, <1>7, <1>8, <3>1, <3>3, GuestCore DEF Allows
    <3> QED
      BY <3>1, <3>2, <3>4, <1>2 DEF Allows
  <2> QED
    BY <2>1, <2>2
<1>13. StateType'
  BY <1>2, <1>9, <1>12 DEF StateType, JournalType, ServingType, ControlType, TenantType
<1>14. NodeOp(Peer(n))'
  <2>1. Cand(Peer(n)) # None => Cand(Peer(n)).gen # g /\ Cand(Peer(n)).gen \in Gens
    BY <1>6, Owned, RecordTypes DEF CandidateRecords
  <2>2. Holds(Peer(n), "seed", "create") => creates'[Cand(Peer(n)).gen] = creates[Cand(Peer(n)).gen]
    BY <1>5, <2>1 DEF OpInv, NodeOp, SeedOp, Holds
  <2>3. \A h, v, b : Granted(Peer(Peer(n)), h, v, b) => Granted(Peer(Peer(n)), h, v, b)'
    BY <1>2 DEF Granted
  <2> QED
    BY <1>2, <1>9, <1>12, <2>2, <2>3, OpKept
<1> QED
  BY <1>10, <1>12, <1>13, <1>14, Assembled

\* The seed is run, or found done.
LEMMA SeedRunsStep ==
    ASSUME HandoffInv, NEW n \in Nodes, SeedRuns(n)
    PROVE  HandoffInv'
<1> USE PeerFacts DEF HandoffInv
<1>1. /\ Holds(n, "seed", "run")
      /\ UNCHANGED <<source, serving, creates, lost, seeds, msgs, tenants>>
  BY DEF SeedRuns
<1>2. UNCHANGED <<source, bound, logical, lfence, creates, lost, seeds, msgs, sess, acked>>
  BY <1>1 DEF serving, tenants
<1>3. /\ op[n].req \in Provisions /\ op[n].req.to = n /\ Cand(n) # None /\ Cand(n).gen = op[n].req.gen
      /\ Cand(n).srcVm = op[n].req.vm
  BY <1>1 DEF OpInv, NodeOp, SeedOp, Holds
<1>4. PICK g \in Gens : g = op[n].req.gen
  BY <1>3 DEF Provisions
<1>5. Traceable
  BY <1>2, KeptTraceable
<1>6. CASE Advance(n, "candidate", "seeding", None) /\ UNCHANGED <<vm, op>>
  <2>1. ControlType'
    BY <1>2, <1>6 DEF StateType, ControlType
  <2>2. (/\ Cand(n)' # None /\ Cand(n)'.phase = "seeding" /\ Cand(n)'.gen = Cand(n).gen
         /\ Cand(n)'.srcVm = Cand(n).srcVm)
           => NodeOp(n)'
    BY <1>1, <1>3, <1>6 DEF NodeOp, SeedOp, BindOp, HandoffOp, AcceptOp, UnfenceOp, FenceOp, Holds
  <2> QED
    BY <1>2, <1>5, <1>6, <2>1, <2>2, AdvanceStep
<1>7. CASE /\ Step(n, "verify") /\ UNCHANGED physical
           /\ vm' = [vm EXCEPT ![op[n].req.gen] =
                        IF vm[op[n].req.gen].mode # "fresh" THEN vm[op[n].req.gen]
                        ELSE [vm[op[n].req.gen] EXCEPT !.mode = "seeding", !.src = op[n].req.vm]]
  <2>1. /\ op'[n].kind = "seed" /\ op'[n].step = "verify" /\ op'[n].req = op[n].req
        /\ op'[Peer(n)] = op[Peer(n)] /\ op' \in [Nodes -> Operations]
    BY <1>1, <1>7, StepFacts DEF OpStages, Holds
  <2>2. ControlType'
    BY <1>2, <2>1 DEF StateType, ControlType
  <2>3. NodeOp(n)'
    <3>1. Cand(n)' = Cand(n)
      BY <1>7 DEF Cand
    <3> QED
      BY <1>3, <2>1, <3>1 DEF NodeOp, SeedOp, BindOp, HandoffOp, AcceptOp, UnfenceOp, FenceOp, Holds
  <2>4. g \in VMs /\ vm \in [VMs -> GuestState] /\ vm[g] \in GuestState /\ op[n].req.vm \in VMs
    BY <1>3 DEF VMs, StateType, GuestType, Provisions
  <2>5. CASE vm[g].mode # "fresh"
    <3>1. vm' = vm
      BY <1>4, <1>7, <2>4, <2>5
    <3>2. ServingType'
      BY <1>2 DEF StateType, ServingType
    <3> QED
      BY <1>2, <1>5, <1>7, <2>1, <2>2, <2>3, <3>1, <3>2, ControlStep
  <2>6. CASE vm[g].mode = "fresh"
    <3> DEFINE q == [vm[g] EXCEPT !.mode = "seeding"]
               r == [q EXCEPT !.src = op[n].req.vm]
    <3>1. vm[g].promo = "none"
      BY <2>6, NotPromoting
    <3>2. q \in GuestState /\ q.mode = "seeding" /\ q.promo = "none"
      BY <2>4, <3>1, GuestFields DEF VmModes
    <3>3. [vm[g] EXCEPT !.mode = "seeding", !.src = op[n].req.vm] = r
      BY <2>4 DEF GuestState
    <3> HIDE DEF q
    <3>4. r \in GuestState /\ r.mode = "seeding" /\ r.promo = "none" /\ r.src \in VMs
      BY <2>4, <3>2, GuestFields
    <3> HIDE DEF r
    <3>5. vm' = [vm EXCEPT ![g] = r]
      BY <1>4, <1>7, <2>6, <3>3
    <3>6. CreateInv' /\ creates' \in [Gens -> Nat]
      BY <1>2, <1>7 DEF Core, CreateInv, StateType, GuestType
    <3>7. /\ GuestType' /\ Core'
          /\ \A m \in Nodes : vm[bound[m]].mode = "primary" /\ ~Allows(bound[m]) => ~Allows(bound[m])'
      BY <1>2, <1>5, <1>7, <2>6, <3>4, <3>5, <3>6, GuestUpdate
    <3>8. StateType'
      BY <1>2, <1>7, <2>2, <3>7 DEF StateType, JournalType, ServingType, TenantType
    <3>9. NodeOp(Peer(n))'
      <4>1. \A h, v, b : Granted(Peer(Peer(n)), h, v, b) => Granted(Peer(Peer(n)), h, v, b)'
        BY <1>2 DEF Granted
      <4> QED
        BY <1>2, <1>7, <2>1, <3>7, <4>1, OpKept
    <3> QED
      BY <2>3, <3>7, <3>8, <3>9, Assembled
  <2> QED
    BY <2>5, <2>6
<1>8. CASE Unlock(n) /\ UNCHANGED <<physical, vm>>
  <2>1. UNCHANGED <<journals, serving, guests, seeds, msgs, tenants>>
    BY <1>1, <1>8 DEF journals, guests
  <2> QED
    BY <1>8, <2>1, UnlockStep
<1> QED
  BY <1>6, <1>7, <1>8 DEF SeedRuns

\* Promotion is prepared in the guest, and then in the journal.
LEMMA PreparePromotionStep ==
    ASSUME HandoffInv, NEW n \in Nodes, PreparePromotion(n)
    PROVE  HandoffInv'
<1> USE PeerFacts DEF HandoffInv
<1>1. /\ Holds(n, "accept", "run") /\ Cand(n).phase = "prepared"
      /\ UNCHANGED <<source, serving, creates, lost, control, tenants>>
  BY DEF PreparePromotion
<1>2. UNCHANGED <<source, bound, logical, lfence, creates, lost, op, seeds, msgs, sess, acked>>
  BY <1>1 DEF serving, tenants, control
<1>3. Cand(n) # None /\ handoff_started(Cand(n)) /\ Cand(n).phase # "activated"
  BY <1>1 DEF OpInv, NodeOp, AcceptOp, Holds
<1>4. Cand(n).cand = Cand(n).gen /\ Cand(n).gen \in Gens /\ Cand(n) \in Records(physical[n])
  BY <1>1, <1>3, RecordTypes DEF Core, CandInv, CandidateRecords
<1>5. ControlType' /\ Traceable
  BY <1>2, KeptTraceable DEF StateType, ControlType
<1>6. CASE /\ vm[Cand(n).cand].promo = "none" /\ vm[Cand(n).cand].mode = "standby"
           /\ vm' = [vm EXCEPT ![Cand(n).cand].promo = "prepared"] /\ UNCHANGED physical
  <2>1. PICK g \in Gens : g = Cand(n).cand
    BY <1>4
  <2>2. g \in VMs /\ vm \in [VMs -> GuestState] /\ vm[g] \in GuestState /\ vm[g].src \in VMs
    BY <1>6, <2>1 DEF VMs, StateType, GuestType
  <2> DEFINE r == [vm[g] EXCEPT !.promo = "prepared"]
  <2>3. r \in GuestState /\ r.mode = "standby" /\ r.promo = "prepared" /\ r.src \in VMs
    <3>1. vm[g].mode = "standby" /\ "prepared" \in Promotions
      BY <1>6, <2>1 DEF Promotions
    <3> QED
      BY <2>2, <3>1, GuestFields
  <2>4. vm' = [vm EXCEPT ![g] = r]
    BY <1>6, <2>1, <2>2
  <2> HIDE DEF r
  <2>5. CreateInv' /\ creates' \in [Gens -> Nat]
    BY <1>2, <1>6 DEF Core, CreateInv, StateType, GuestType
  <2>6. \E o \in Nodes : \E k \in Records(physical[o]) : k.gen = g /\ handoff_started(k)
    BY <1>3, <1>4, <2>1
  <2>7. /\ GuestType' /\ Core'
        /\ \A m \in Nodes : vm[bound[m]].mode = "primary" /\ ~Allows(bound[m]) => ~Allows(bound[m])'
    BY <1>2, <1>5, <1>6, <2>1, <2>3, <2>4, <2>5, <2>6, GuestUpdate
  <2>8. StateType'
    BY <1>2, <1>5, <1>6, <2>7 DEF StateType, JournalType, ServingType, TenantType
  <2>9. OpInv'
    BY <1>2, <1>6, <2>7, OpsKept
  <2> QED
    BY <2>7, <2>8, <2>9
<1>7. CASE Advance(n, "prepared", "promoting", None) /\ UNCHANGED vm
  <2>1. Cand(n)' # None /\ Cand(n)'.phase = "promoting" => NodeOp(n)'
    BY <1>1, <1>2, RunningOp DEF handoff_started, HandoffPhases
  <2> QED
    BY <1>2, <1>5, <1>7, <2>1, AdvanceStep
<1> QED
  BY <1>6, <1>7 DEF PreparePromotion

\* The promotion is launched in the guest.
LEMMA LaunchPromoteStep ==
    ASSUME HandoffInv, NEW n \in Nodes, LaunchPromote(n)
    PROVE  HandoffInv'
<1> USE PeerFacts DEF HandoffInv
<1>1. /\ Holds(n, "accept", "run") /\ vm[Cand(n).cand].promo = "prepared"
      /\ vm' = [vm EXCEPT ![Cand(n).cand].promo = "promoting"]
      /\ UNCHANGED <<journals, serving, creates, lost, control, tenants>>
  BY DEF LaunchPromote
<1>2. UNCHANGED <<source, physical, bound, logical, lfence, creates, lost, op, seeds, msgs, sess, acked>>
  BY <1>1 DEF journals, serving, tenants, control
<1>3. Cand(n) # None /\ handoff_started(Cand(n)) /\ Cand(n).phase # "activated"
  BY <1>1 DEF OpInv, NodeOp, AcceptOp, Holds
<1>4. Cand(n).cand = Cand(n).gen /\ Cand(n).gen \in Gens /\ Cand(n) \in Records(physical[n])
  BY <1>3, RecordTypes DEF Core, CandInv, CandidateRecords, handoff_started, HandoffPhases
<1>5. ControlType' /\ Traceable
  BY <1>2, KeptTraceable DEF StateType, ControlType
<1>6. PICK g \in Gens : g = Cand(n).cand
  BY <1>4
<1>7. vm[g].mode = "standby"
  BY <1>1, <1>6 DEF Core, PromoteInv
<1>8. g \in VMs /\ vm \in [VMs -> GuestState] /\ vm[g] \in GuestState /\ vm[g].src \in VMs
  BY <1>7 DEF VMs, StateType, GuestType
<1> DEFINE r == [vm[g] EXCEPT !.promo = "promoting"]
<1>9. r \in GuestState /\ r.mode = "standby" /\ r.promo = "promoting" /\ r.src \in VMs
  BY <1>7, <1>8, GuestFields DEF Promotions
<1>10. vm' = [vm EXCEPT ![g] = r]
  BY <1>1, <1>6, <1>8
<1> HIDE DEF r
<1>11. CreateInv' /\ creates' \in [Gens -> Nat]
  BY <1>2 DEF Core, CreateInv, StateType, GuestType
<1>12. \E o \in Nodes : \E k \in Records(physical[o]) : k.gen = g /\ handoff_started(k)
  BY <1>3, <1>4, <1>6
<1>13. /\ GuestType' /\ Core'
       /\ \A m \in Nodes : vm[bound[m]].mode = "primary" /\ ~Allows(bound[m]) => ~Allows(bound[m])'
  BY <1>2, <1>5, <1>7, <1>9, <1>10, <1>11, <1>12, GuestUpdate
<1>14. StateType'
  BY <1>2, <1>5, <1>13 DEF StateType, JournalType, ServingType, TenantType
<1>15. OpInv'
  BY <1>2, <1>13, OpsKept
<1> QED
  BY <1>13, <1>14, <1>15

-----------------------------------------------------------------------------
(* The serving binding and the logical pairing *)

\* The candidate is bound under the node's mutex.
LEMMA BoundStep ==
    ASSUME HandoffInv, NEW n \in Nodes, Cand(n) # None,
           Cand(n).phase \notin {"activated", "intent", "creating"},
           bound' = [bound EXCEPT ![n] = Cand(n).cand],
           op' \in [Nodes -> Operations], op'[Peer(n)] = op[Peer(n)],
           bound'[n] = Cand(n).cand /\ Cand(n)' = Cand(n) => NodeOp(n)',
           UNCHANGED <<source, physical, logical, lfence, vm, creates, lost, seeds, msgs, sess, acked>>
    PROVE  HandoffInv'
<1> USE PeerFacts DEF HandoffInv
<1>1. Core'
  BY BoundCore
<1>2. Cand(n).cand \in VMs
  BY NoRecordYet DEF VMs
<1>3. bound' \in [Nodes -> VMs] /\ bound'[n] = Cand(n).cand /\ bound'[Peer(n)] = bound[Peer(n)]
  BY <1>2 DEF StateType, ServingType
<1>4. StateType'
  BY <1>3 DEF StateType, JournalType, ServingType, GuestType, ControlType, TenantType
<1>5. NodeOp(n)'
  BY <1>3 DEF Cand
<1>6. NodeOp(Peer(n))'
  BY <1>3, OpKept DEF Granted, Allows
<1> QED
  BY <1>1, <1>4, <1>5, <1>6, Assembled

\* The verified standby becomes the serving VM.
LEMMA StandbyVerifiedStep ==
    ASSUME HandoffInv, NEW n \in Nodes, StandbyVerified(n)
    PROVE  HandoffInv'
<1> USE PeerFacts DEF HandoffInv
<1>1. /\ Holds(n, "bind", "verify") /\ bound' = [bound EXCEPT ![n] = Cand(n).cand] /\ Step(n, "advance")
      /\ UNCHANGED <<journals, logical, lfence, guests, seeds, msgs, tenants>>
  BY DEF StandbyVerified, commit_handoff_binding
<1>2. Cand(n) # None /\ Cand(n).phase = "standby_binding"
  BY <1>1 DEF OpInv, NodeOp, BindOp, Holds
<1>3. /\ op'[n].kind = "bind" /\ op'[Peer(n)] = op[Peer(n)] /\ op' \in [Nodes -> Operations]
  BY <1>1, StepFacts DEF OpStages, Holds
<1>4. Cand(n)' = Cand(n) => NodeOp(n)'
  BY <1>2, <1>3 DEF NodeOp, SeedOp, BindOp, HandoffOp, AcceptOp, UnfenceOp, FenceOp, Holds
<1>5. UNCHANGED <<source, physical, logical, lfence, vm, creates, lost, seeds, msgs, sess, acked>>
  BY <1>1 DEF journals, guests, tenants
<1>6. bound' = [bound EXCEPT ![n] = Cand(n).cand]
  BY <1>1
<1> QED
  BY <1>2, <1>3, <1>4, <1>5, <1>6, BoundStep

\* The promoted VM becomes the serving one.
LEMMA BindPromotedStep ==
    ASSUME HandoffInv, NEW n \in Nodes, BindPromoted(n)
    PROVE  HandoffInv'
<1> USE PeerFacts DEF HandoffInv
<1>1. /\ Holds(n, "accept", "run") /\ Cand(n).phase = "binding"
      /\ bound' = [bound EXCEPT ![n] = Cand(n).cand] /\ Step(n, "retire")
      /\ UNCHANGED <<journals, logical, lfence, guests, seeds, msgs, tenants>>
  BY DEF BindPromoted, commit_handoff_binding
<1>2. Cand(n) # None /\ Cand(n).phase = "binding"
  BY <1>1 DEF OpInv, NodeOp, AcceptOp, Holds
<1>3. /\ op'[n].kind = "accept" /\ op'[n].step = "retire"
      /\ op'[Peer(n)] = op[Peer(n)] /\ op' \in [Nodes -> Operations]
  BY <1>1, StepFacts DEF OpStages, Holds
<1>4. bound'[n] = Cand(n).cand /\ Cand(n)' = Cand(n) => NodeOp(n)'
  BY <1>2, <1>3 DEF NodeOp, SeedOp, BindOp, HandoffOp, AcceptOp, UnfenceOp, FenceOp, Holds
<1>5. UNCHANGED <<source, physical, logical, lfence, vm, creates, lost, seeds, msgs, sess, acked>>
  BY <1>1 DEF journals, guests, tenants
<1>6. bound' = [bound EXCEPT ![n] = Cand(n).cand]
  BY <1>1
<1> QED
  BY <1>2, <1>3, <1>4, <1>5, <1>6, BoundStep

\* The logical pairing is dropped.
LEMMA RetireLogicalStep ==
    ASSUME HandoffInv, NEW n \in Nodes, RetireLogical(n)
    PROVE  HandoffInv'
<1> USE PeerFacts DEF HandoffInv
<1>1. /\ Holds(n, "accept", "retire") /\ logical' = [logical EXCEPT ![n] = "removed"]
      /\ lfence' = [lfence EXCEPT ![n] = [phase |-> None, mode |-> None, vm |-> None]] /\ Step(n, "open")
      /\ UNCHANGED <<journals, bound, guests, seeds, msgs, tenants>>
  BY DEF RetireLogical
<1>2. /\ op'[n].kind = "accept" /\ op'[n].step = "open"
      /\ op'[Peer(n)] = op[Peer(n)] /\ op' \in [Nodes -> Operations]
  BY <1>1, StepFacts DEF OpStages, Holds
<1>3. UNCHANGED <<source, physical, bound, vm, creates, lost, seeds, msgs, sess, acked>>
  BY <1>1 DEF journals, guests, tenants
<1>4. NodeOp(n)'
  <2>1. Cand(n) # None /\ Cand(n).phase = "binding" /\ bound[n] = Cand(n).cand
    BY <1>1 DEF OpInv, NodeOp, AcceptOp, Holds
  <2> QED
    BY <1>2, <1>3, <2>1 DEF NodeOp, SeedOp, BindOp, HandoffOp, AcceptOp, UnfenceOp, FenceOp, Holds, Cand
<1>5. /\ logical' \in [Nodes -> {"primary", "replica", "failed_primary", "failed_replica", "removed"}]
      /\ \A m \in Nodes : logical'[m] = logical[m] \/ logical'[m] = "removed"
      /\ lfence'[Peer(n)] = lfence[Peer(n)]
  BY <1>1 DEF StateType, ServingType
<1>6. ServingType'
  BY <1>1, <1>3, <1>5, FenceCleared
<1>7. StateType'
  BY <1>2, <1>3, <1>6 DEF StateType, JournalType, GuestType, ControlType, TenantType
<1>8. Core'
  BY <1>3, <1>5, LogicalCore
<1>9. NodeOp(Peer(n))'
  BY <1>2, <1>3, <1>5, OpKept DEF Granted, Allows
<1> QED
  BY <1>4, <1>7, <1>8, <1>9, Assembled

\* The source's slots are lost, and the pairing with them.
LEMMA SlotsLostStep ==
    ASSUME HandoffInv, NEW n \in Nodes, SlotsLost(n)
    PROVE  HandoffInv'
<1> USE PeerFacts DEF HandoffInv
<1>1. /\ Src(n) # None /\ logical[n] = "primary" /\ lost' = lost \cup {Src(n).gen}
      /\ UNCHANGED <<journals, bound, lfence, vm, creates, control, tenants>>
  BY DEF SlotsLost
<1>2. logical' = [logical EXCEPT ![n] = "failed_primary",
                                 ![Peer(n)] = IF logical[Peer(n)] = "replica" THEN "failed_replica"
                                              ELSE logical[Peer(n)]]
  BY DEF SlotsLost, StateType, ServingType
<1>3. UNCHANGED <<source, physical, bound, lfence, vm, creates, op, seeds, msgs, sess, acked>>
  BY <1>1 DEF journals, control, tenants
<1>4. /\ logical'[n] = "failed_primary"
      /\ logical'[Peer(n)] = IF logical[Peer(n)] = "replica" THEN "failed_replica" ELSE logical[Peer(n)]
  BY <1>2 DEF StateType, ServingType
<1>5. DOMAIN logical' = Nodes /\ logical' = [m \in Nodes |-> logical'[m]]
  BY <1>2 DEF StateType, ServingType
<1>6. logical' \in [Nodes -> {"primary", "replica", "failed_primary", "failed_replica", "removed"}]
  <2>1. \A m \in Nodes : logical[m] \in {"primary", "replica", "failed_primary", "failed_replica", "removed"}
    BY DEF StateType, ServingType
  <2>2. \A m \in Nodes : logical'[m] \in {"primary", "replica", "failed_primary", "failed_replica", "removed"}
    BY <1>4, <2>1
  <2> QED
    BY <1>5, <2>2
<1>7. lost' \subseteq Gens
  BY <1>1, RecordTypes DEF StateType, GuestType, SourceRecords
<1>8. StateType'
  BY <1>3, <1>6, <1>7 DEF StateType, JournalType, ServingType, GuestType, ControlType, TenantType
<1>9. Core'
  BY <1>1, <1>3, <1>4, LogicalCore
<1>10. OpInv'
  BY <1>3, OpsKept DEF Allows
<1> QED
  BY <1>8, <1>9, <1>10

-----------------------------------------------------------------------------
(* The source's journal *)

\* Every grant is found again after the step, in a record of the same generation.
GrantsKept ==
    \A n \in Nodes : \A r \in Records(source[n]) : r.grant # None =>
        \E q \in Records(source'[n]) : q.gen = r.gen /\ q.grant = r.grant

\* The current source record is rewritten.
LEMMA SourceStep ==
    ASSUME HandoffInv, NEW n \in Nodes, Src(n) # None, NEW r \in SourceRecords,
           source' = [source EXCEPT ![n] = Update(source[n], r)],
           r.gen = Src(n).gen, r.pred = Src(n).pred, r.vm = Src(n).vm,
           Src(n).grant # None => r.grant = Src(n).grant,
           r.fence = "ready" => r.barrier \in Nat /\ Shut(r.vm),
           r.grant # None => r.fence = "ready",
           ControlType', Traceable, op'[Peer(n)] = op[Peer(n)],
           (/\ Src(n)' = r /\ source'[Peer(n)] = source[Peer(n)]
            /\ Records(source[n])' = ToSet(source[n].hist) \cup {r}) => NodeOp(n)',
           UNCHANGED <<physical, bound, logical, lfence, vm, creates, lost, sess, acked>>
    PROVE  HandoffInv' /\ GrantsKept
<1> USE PeerFacts DEF HandoffInv
<1>1. Core'
  BY SourceUpdateCore
<1>2. /\ source[n] \in SourceJournals /\ None \notin SourceRecords
      /\ Records(source[n]) = ToSet(source[n].hist) \cup {Src(n)}
  BY RecordTypes, NoneAssumption
<1>3. /\ Update(source[n], r) \in SourceJournals /\ Update(source[n], r).cur = r
      /\ Records(Update(source[n], r)) = ToSet(source[n].hist) \cup {r}
  BY <1>2, UpdateRecords DEF SourceJournals
<1>4. /\ source' \in [Nodes -> SourceJournals] /\ source'[n] = Update(source[n], r)
      /\ source'[Peer(n)] = source[Peer(n)]
  BY <1>3 DEF StateType, JournalType
<1>5. StateType'
  BY <1>4 DEF StateType, JournalType, ServingType, GuestType, TenantType
<1>6. NodeOp(n)'
  BY <1>3, <1>4 DEF Src
<1>7. \A q \in Records(source[n]) : \E p \in Records(source[n])' :
          p.gen = q.gen /\ p.pred = q.pred /\ p.vm = q.vm /\ (q.grant # None => p.grant = q.grant)
  BY <1>2, <1>3, <1>4
<1>8. \A g, v, b : Granted(n, g, v, b) => Granted(n, g, v, b)'
  BY <1>7, RecordsKept
<1>9. NodeOp(Peer(n))'
  BY <1>4, <1>8, OpKept DEF Allows
<1>10. GrantsKept
  <2>1. \A m \in Nodes : m # n => source'[m] = source[m]
    BY <1>4
  <2> QED
    BY <1>7, <2>1 DEF GrantsKept
<1> QED
  BY <1>1, <1>5, <1>6, <1>9, <1>10, Assembled

\* The handoff is authorized, before anything is fenced.
LEMMA AuthorizeHandoffStep ==
    ASSUME HandoffInv, NEW n \in Nodes, AuthorizeHandoff(n)
    PROVE  HandoffInv' /\ GrantsKept
<1> USE PeerFacts DEF HandoffInv
<1>1. /\ Holds(n, "handoff", "authorize") /\ Step(n, "fence")
      /\ source' = [source EXCEPT ![n] = authorize_handoff(source[n], op[n].req)]
      /\ UNCHANGED <<physical, serving, guests, seeds, msgs, tenants>>
  BY DEF AuthorizeHandoff
<1>2. /\ op[n].req \in Gens /\ Src(n) # None /\ Src(n).vm = bound[n] /\ Src(n).gen = op[n].req
      /\ Src(n) \in SourceRecords /\ Src(n) \in Records(source[n])
  BY <1>1, RecordTypes DEF OpInv, NodeOp, HandoffOp, Holds
<1>3. PICK x \in Gens : x = op[n].req
  BY <1>2
<1> DEFINE r == [Src(n) EXCEPT !.cand = x]
<1>4. /\ r \in SourceRecords /\ r.gen = Src(n).gen /\ r.pred = Src(n).pred /\ r.vm = Src(n).vm
      /\ r.fence = Src(n).fence /\ r.barrier = Src(n).barrier /\ r.grant = Src(n).grant
  BY <1>2 DEF SourceRecords
<1>5. source' = [source EXCEPT ![n] = Update(source[n], r)]
  BY <1>1, <1>3 DEF authorize_handoff, Src
<1> HIDE DEF r
<1>6. /\ op'[n].kind = "handoff" /\ op'[n].step = "fence" /\ op'[n].req = op[n].req
      /\ op'[Peer(n)] = op[Peer(n)] /\ op' \in [Nodes -> Operations]
  BY <1>1, StepFacts DEF OpStages, Holds
<1>7. UNCHANGED <<physical, bound, logical, lfence, vm, creates, lost, seeds, msgs, sess, acked>>
  BY <1>1 DEF serving, guests, tenants
<1>8. ControlType' /\ Traceable
  BY <1>6, <1>7, KeptTraceable DEF StateType, ControlType
<1>9. Src(n)' = r => NodeOp(n)'
  BY <1>2, <1>4, <1>6, <1>7, NoneAssumption
     DEF NodeOp, SeedOp, BindOp, HandoffOp, AcceptOp, UnfenceOp, FenceOp, Holds
<1>10. /\ r.fence = "ready" => r.barrier \in Nat /\ Shut(r.vm)
       /\ r.grant # None => r.fence = "ready"
  BY <1>2, <1>4 DEF Core, ShutInv
<1> QED
  BY <1>2, <1>4, <1>5, <1>6, <1>7, <1>8, <1>9, <1>10, SourceStep

\* The source is fenced for the handoff, or its ready fence is taken as it is.
LEMMA FenceSourceStep ==
    ASSUME HandoffInv, NEW n \in Nodes, FenceSource(n)
    PROVE  HandoffInv' /\ GrantsKept
<1> USE PeerFacts DEF HandoffInv
<1>1. Holds(n, "handoff", "fence") /\ UNCHANGED <<physical, serving, guests, seeds, msgs, tenants>>
  BY DEF FenceSource
<1>2. /\ op[n].req \in Gens /\ Src(n) # None /\ Src(n).vm = bound[n] /\ Src(n).gen = op[n].req
      /\ Src(n) \in SourceRecords /\ Src(n) \in Records(source[n])
  BY <1>1, RecordTypes DEF OpInv, NodeOp, HandoffOp, Holds
<1>3. UNCHANGED <<physical, bound, logical, lfence, vm, creates, lost, seeds, msgs, sess, acked>>
  BY <1>1 DEF serving, guests, tenants
<1>4. CASE Src(n).fence = "ready" /\ Step(n, "grant") /\ UNCHANGED source
  <2>1. /\ op'[n].kind = "handoff" /\ op'[n].step = "grant" /\ op'[n].req = op[n].req
        /\ op'[Peer(n)] = op[Peer(n)] /\ op' \in [Nodes -> Operations]
    BY <1>1, <1>4, StepFacts DEF OpStages, Holds
  <2>2. NodeOp(n)'
    BY <1>2, <1>3, <1>4, <2>1 DEF NodeOp, SeedOp, BindOp, HandoffOp, AcceptOp, UnfenceOp, FenceOp, Holds, Src
  <2>3. ServingType' /\ ControlType' /\ Traceable
    BY <1>3, <2>1, KeptTraceable DEF StateType, ServingType, ControlType
  <2>4. lfence'[Peer(n)] = lfence[Peer(n)] /\ source' = source
    BY <1>3, <1>4
  <2> QED
    BY <1>3, <2>1, <2>2, <2>3, <2>4, ControlStep DEF GrantsKept
<1>5. CASE /\ Src(n).fence # "ready" /\ source_set_fence_ok(source[n], Src(n).gen, "intent", None)
           /\ source' = [source EXCEPT ![n] = source_set_fence(source[n], "intent", None)]
           /\ Step(n, "close")
  <2>1. /\ op'[n].kind = "handoff" /\ op'[n].step = "close" /\ op'[n].req = op[n].req
        /\ op'[Peer(n)] = op[Peer(n)] /\ op' \in [Nodes -> Operations]
    BY <1>1, <1>5, StepFacts DEF OpStages, Holds
  <2>0. PICK b \in Nat \cup {None} : b = None
    OBVIOUS
  <2> DEFINE r == [Src(n) EXCEPT !.fence = "intent", !.barrier = b]
  <2>2. /\ r \in SourceRecords /\ r.gen = Src(n).gen /\ r.pred = Src(n).pred /\ r.vm = Src(n).vm
        /\ r.fence = "intent" /\ r.grant = Src(n).grant
    <3> DEFINE q == [Src(n) EXCEPT !.fence = "intent"]
    <3>1. /\ q \in SourceRecords /\ q.gen = Src(n).gen /\ q.pred = Src(n).pred /\ q.vm = Src(n).vm
          /\ q.fence = "intent" /\ q.grant = Src(n).grant
      BY <1>2 DEF SourceRecords
    <3>2. r = [q EXCEPT !.barrier = b]
      BY <1>2 DEF SourceRecords
    <3> HIDE DEF q, r
    <3> QED
      BY <3>1, <3>2 DEF SourceRecords
  <2>3. source' = [source EXCEPT ![n] = Update(source[n], r)]
    BY <1>5, <2>0 DEF source_set_fence, Src
  <2> HIDE DEF r
  <2>4. Src(n).grant = None
    BY <1>5 DEF source_set_fence_ok, Src
  <2>5. Src(n)' = r => NodeOp(n)'
    BY <1>2, <1>3, <2>1, <2>2, NoneAssumption
       DEF NodeOp, SeedOp, BindOp, HandoffOp, AcceptOp, UnfenceOp, FenceOp, Holds
  <2>6. ControlType' /\ Traceable
    BY <1>3, <2>1, KeptTraceable DEF StateType, ControlType
  <2> QED
    BY <1>2, <1>3, <2>1, <2>2, <2>3, <2>4, <2>5, <2>6, SourceStep
<1> QED
  BY <1>4, <1>5 DEF FenceSource

\* The fence is ready: the source is drained and its barrier recorded.
LEMMA SourceDrainedStep ==
    ASSUME HandoffInv, NEW n \in Nodes, SourceDrained(n)
    PROVE  HandoffInv' /\ GrantsKept
<1> USE PeerFacts DEF HandoffInv
<1>1. /\ Holds(n, "handoff", "drain") /\ Attached(bound[n]) = {} /\ Step(n, "grant")
      /\ source' = [source EXCEPT ![n] = source_set_fence(source[n], "ready", Lsn(bound[n]))]
      /\ UNCHANGED <<physical, serving, guests, seeds, msgs, tenants>>
  BY DEF SourceDrained
<1>2. /\ op[n].req \in Gens /\ Src(n) # None /\ Src(n).vm = bound[n] /\ Src(n).gen = op[n].req
      /\ Src(n) \in SourceRecords /\ Src(n) \in Records(source[n]) /\ ~Allows(bound[n])
  BY <1>1, RecordTypes DEF OpInv, NodeOp, HandoffOp, Holds
<1>3. UNCHANGED <<physical, bound, logical, lfence, vm, creates, lost, seeds, msgs, sess, acked>>
  BY <1>1 DEF serving, guests, tenants
<1>4. PICK b \in Nat : b = Lsn(bound[n])
  BY DEF StateType, ServingType, GuestType, GuestState, Lsn
<1>5. /\ op'[n].kind = "handoff" /\ op'[n].step = "grant" /\ op'[n].req = op[n].req
      /\ op'[Peer(n)] = op[Peer(n)] /\ op' \in [Nodes -> Operations]
  BY <1>1, StepFacts DEF OpStages, Holds
<1> DEFINE r == [Src(n) EXCEPT !.fence = "ready", !.barrier = b]
<1>6. /\ r \in SourceRecords /\ r.gen = Src(n).gen /\ r.pred = Src(n).pred /\ r.vm = Src(n).vm
      /\ r.fence = "ready" /\ r.barrier = b /\ r.grant = Src(n).grant
  <2> DEFINE q == [Src(n) EXCEPT !.fence = "ready"]
  <2>1. /\ q \in SourceRecords /\ q.gen = Src(n).gen /\ q.pred = Src(n).pred /\ q.vm = Src(n).vm
        /\ q.fence = "ready" /\ q.grant = Src(n).grant
    BY <1>2 DEF SourceRecords
  <2>2. r = [q EXCEPT !.barrier = b]
    BY <1>2 DEF SourceRecords
  <2> HIDE DEF q, r
  <2> QED
    BY <2>1, <2>2 DEF SourceRecords
<1>7. source' = [source EXCEPT ![n] = Update(source[n], r)]
  BY <1>1, <1>4 DEF source_set_fence, Src
<1> HIDE DEF r
<1>8. Shut(r.vm)
  BY <1>1, <1>2, <1>6 DEF Shut, Core, ShutInv
<1>9. Src(n)' = r => NodeOp(n)'
  BY <1>2, <1>3, <1>5, <1>6, NoneAssumption
     DEF NodeOp, SeedOp, BindOp, HandoffOp, AcceptOp, UnfenceOp, FenceOp, Holds
<1>10. ControlType' /\ Traceable
  BY <1>3, <1>5, KeptTraceable DEF StateType, ControlType
<1> QED
  BY <1>2, <1>3, <1>5, <1>6, <1>7, <1>8, <1>9, <1>10, SourceStep

\* The grant becomes durable and the peer is told of it.
LEMMA GrantHandoffStep ==
    ASSUME HandoffInv, NEW n \in Nodes, GrantHandoff(n)
    PROVE  HandoffInv' /\ GrantsKept
<1> USE PeerFacts DEF HandoffInv
<1> DEFINE x == [cand |-> op[n].req, barrier |-> Src(n).barrier]
           m == [kind |-> "handoff", to |-> Peer(n), gen |-> Src(n).gen,
                 cand |-> op[n].req, vm |-> Src(n).vm, barrier |-> Src(n).barrier]
<1>1. /\ Holds(n, "handoff", "grant") /\ grant_handoff_ok(source[n], Src(n).gen, x) /\ Unlock(n)
      /\ source' = [source EXCEPT ![n] = grant_handoff(source[n], x)]
      /\ msgs' = msgs \cup {m}
      /\ UNCHANGED <<physical, serving, guests, seeds, tenants>>
  BY DEF GrantHandoff
<1>2. /\ op[n].req \in Gens /\ Src(n) # None /\ Src(n).vm = bound[n] /\ Src(n).gen = op[n].req
      /\ Src(n) \in SourceRecords /\ Src(n) \in Records(source[n]) /\ Src(n).fence = "ready"
  BY <1>1, RecordTypes DEF OpInv, NodeOp, HandoffOp, Holds
<1>3. Src(n).barrier \in Nat /\ Shut(Src(n).vm)
  BY <1>2 DEF Core, ShutInv
<1>4. /\ x \in Grants /\ m \in Handoffs /\ m.kind # "provision"
  BY <1>2, <1>3 DEF Grants, Handoffs, SourceRecords
<1> HIDE DEF x, m
<1>5. UNCHANGED <<physical, bound, logical, lfence, vm, creates, lost, seeds, sess, acked>>
  BY <1>1 DEF serving, guests, tenants
<1>6. op'[n] = Idle /\ op'[Peer(n)] = op[Peer(n)] /\ op' \in [Nodes -> Operations]
  BY <1>1, UnlockFacts
<1> DEFINE r == [Src(n) EXCEPT !.grant = x]
<1>7. /\ r \in SourceRecords /\ r.gen = Src(n).gen /\ r.pred = Src(n).pred /\ r.vm = Src(n).vm
      /\ r.fence = Src(n).fence /\ r.barrier = Src(n).barrier /\ r.grant = x
  BY <1>2, <1>4 DEF SourceRecords
<1>8. source' = [source EXCEPT ![n] = Update(source[n], r)]
  BY <1>1 DEF grant_handoff, Src
<1> HIDE DEF r
<1>9. Src(n).grant # None => r.grant = Src(n).grant
  BY <1>1, <1>7 DEF grant_handoff_ok, Src
<1>10. NodeOp(n)'
  BY <1>6, IdleOp
<1>11. ControlType' /\ Traceable
  <2>1. msgs' \subseteq Provisions \cup Binds \cup Handoffs \cup Answers
    BY <1>1, <1>4 DEF StateType, ControlType
  <2>2. ControlType'
    BY <1>5, <1>6, <2>1 DEF StateType, ControlType
  <2>3. Traceable
    BY <1>1, <1>4, <1>5, KeptTraceable
  <2> QED
    BY <2>2, <2>3
<1> QED
  BY <1>2, <1>3, <1>5, <1>6, <1>7, <1>8, <1>9, <1>10, <1>11, SourceStep

\* The answer of the activated peer is recorded, whoever holds the mutex.
LEMMA HandoffAnsweredStep ==
    ASSUME HandoffInv, NEW n \in Nodes, NEW m \in msgs, HandoffAnswered(n, m)
    PROVE  HandoffInv' /\ GrantsKept
<1> USE PeerFacts DEF HandoffInv
<1>1. msgs' = msgs \ {m} /\ UNCHANGED <<physical, serving, guests, op, seeds, tenants>>
  BY DEF HandoffAnswered
<1>2. UNCHANGED <<physical, bound, logical, lfence, vm, creates, lost, op, seeds, sess, acked>>
  BY <1>1 DEF serving, guests, tenants
<1>3. msgs' \subseteq Provisions \cup Binds \cup Handoffs \cup Answers /\ Traceable
  BY <1>1, <1>2, KeptTraceable DEF StateType, ControlType
<1>4. CASE source' = source
  BY <1>2, <1>3, <1>4, MessageStep DEF GrantsKept
<1>5. CASE /\ complete_handoff_ok(source[n], m.gen, m.cand)
           /\ source' = [source EXCEPT ![n] = complete_handoff(source[n])]
  <2>1. Src(n) # None /\ Src(n) \in SourceRecords /\ Src(n) \in Records(source[n])
    BY <1>5, RecordTypes DEF complete_handoff_ok, Src
  <2> DEFINE r == [Src(n) EXCEPT !.complete = TRUE]
  <2>2. /\ r \in SourceRecords /\ r.gen = Src(n).gen /\ r.pred = Src(n).pred /\ r.vm = Src(n).vm
        /\ r.fence = Src(n).fence /\ r.barrier = Src(n).barrier /\ r.grant = Src(n).grant
    BY <2>1 DEF SourceRecords
  <2>3. source' = [source EXCEPT ![n] = Update(source[n], r)]
    BY <1>5 DEF complete_handoff, Src
  <2> HIDE DEF r
  <2>4. /\ r.fence = "ready" => r.barrier \in Nat /\ Shut(r.vm)
        /\ r.grant # None => r.fence = "ready"
    BY <2>1, <2>2 DEF Core, ShutInv
  <2>5. ControlType'
    BY <1>2, <1>3 DEF StateType, ControlType
  <2>6. ASSUME Src(n)' = r, source'[Peer(n)] = source[Peer(n)],
               Records(source[n])' = ToSet(source[n].hist) \cup {r}
        PROVE  NodeOp(n)'
    <3>1. NodeOp(n) /\ op'[n] = op[n] /\ Cand(n)' = Cand(n)
      BY <1>2 DEF OpInv, Cand
    <3>2. SeedOp(n)' /\ BindOp(n)' /\ FenceOp(n)'
      BY <1>2, <3>1 DEF NodeOp, SeedOp, BindOp, FenceOp, is_fenced
    <3>3. HandoffOp(n)'
      BY <1>2, <2>1, <2>2, <2>6, <3>1, NoneAssumption DEF NodeOp, HandoffOp, Allows
    <3>4. AcceptOp(n)'
      BY <1>2, <2>6, <3>1 DEF NodeOp, AcceptOp, Granted
    <3>5. UnfenceOp(n)'
      <4>1. Records(source[n]) = ToSet(source[n].hist) \cup {Src(n)}
        BY <2>1, RecordTypes
      <4> QED
        BY <1>2, <2>1, <2>2, <2>6, <3>1, <4>1 DEF NodeOp, UnfenceOp, Holds
    <3> QED
      BY <3>2, <3>3, <3>4, <3>5 DEF NodeOp
  <2>7. op'[Peer(n)] = op[Peer(n)] /\ Traceable
    BY <1>2, <1>3
  <2> QED
    BY <1>2, <2>1, <2>2, <2>3, <2>4, <2>5, <2>6, <2>7, SourceStep
<1> QED
  BY <1>4, <1>5 DEF HandoffAnswered

-----------------------------------------------------------------------------
(* Preparations *)

\* A new source record, with nothing fenced or granted.
LEMMA NewSourceRecord ==
    ASSUME NEW g \in Gens, NEW p \in Gens \cup {None}, NEW v \in VMs, NEW l \in Nat
    PROVE  /\ SourceRecord(g, p, v, l) \in SourceRecords
           /\ SourceRecord(g, p, v, l).gen = g /\ SourceRecord(g, p, v, l).pred = p
           /\ SourceRecord(g, p, v, l).vm = v /\ SourceRecord(g, p, v, l).lsn = l
           /\ SourceRecord(g, p, v, l).fence = None /\ SourceRecord(g, p, v, l).grant = None
BY DEF SourceRecord, SourceRecords

\* A preparation of the bound VM: one that is retried, or a new one.
LEMMA ProvisionStep ==
    ASSUME HandoffInv, NEW n \in Nodes, NEW rec \in SourceRecords, NEW reseed \in BOOLEAN,
           Provision(n, rec, reseed), rec.vm = bound[n], rec.fence = None, rec.grant = None,
           vm[bound[n]].mode = "primary",
           Src(n) # None /\ Src(n).gen = rec.gen => Src(n).pred = rec.pred /\ Src(n).vm = rec.vm,
           ~(Src(n) # None /\ Src(n).gen = rec.gen) =>
              /\ rec.gen \notin UsedGens
              /\ rec.vm = n \/ \E k \in Records(physical[n]) : k.phase = "activated" /\ k.cand = rec.vm
              /\ \A q \in Records(source[n]) : q.vm = rec.vm => q.fence = None /\ q.grant = None
    PROVE  HandoffInv' /\ GrantsKept
<1> USE PeerFacts DEF HandoffInv
<1> DEFINE made == source_created(source[n], rec)
           m == [kind |-> "provision", to |-> Peer(n), gen |-> rec.gen, pred |-> rec.pred,
                 vm |-> rec.vm, lsn |-> made.cur.lsn, reseed |-> reseed]
<1>1. /\ op[n] = Idle /\ source' = [source EXCEPT ![n] = made] /\ msgs' = msgs \cup {m}
      /\ UNCHANGED <<physical, serving, guests, op, seeds, tenants>>
  BY DEF Provision
<1>2. UNCHANGED <<physical, bound, logical, lfence, vm, creates, lost, op, seeds, sess, acked>>
  BY <1>1 DEF serving, guests, tenants
<1>3. made.cur.lsn \in Nat => /\ m \in Provisions /\ m.kind = "provision" /\ m.to = Peer(n)
                              /\ m.gen = rec.gen /\ m.pred = rec.pred /\ m.vm = rec.vm
  BY DEF Provisions, SourceRecords
<1>4. source[n] \in SourceJournals /\ None \notin SourceRecords
  BY RecordTypes, NoneAssumption
<1> HIDE DEF m
<1>5. CASE Src(n) # None /\ Src(n).gen = rec.gen
  <2>1. made = source[n] /\ source' = source
    BY <1>1, <1>5 DEF source_created, Src, StateType, JournalType
  <2>2. Src(n) \in SourceRecords /\ Src(n) \in Records(source[n]) /\ made.cur = Src(n)
    BY <1>5, <2>1, RecordTypes DEF Src
  <2>3. made.cur.lsn \in Nat
    BY <2>2 DEF SourceRecords
  <2>4. Prepared(n, rec.gen, rec.pred, rec.vm)
    BY <1>5, <2>2 DEF Prepared
  <2>5. msgs' \subseteq Provisions \cup Binds \cup Handoffs \cup Answers
    BY <1>1, <1>3, <2>3 DEF StateType, ControlType
  <2>6. Traceable
    <3>1. \A x \in msgs : x.kind = "provision" => x.to \in Nodes
      BY DEF StateType, ControlType, Provisions, Binds, Handoffs, Answers
    <3> QED
      BY <1>1, <1>2, <1>3, <2>3, <2>4, <3>1 DEF Traceable
  <2> QED
    BY <1>2, <2>1, <2>5, <2>6, MessageStep DEF GrantsKept
<1>6. CASE ~(Src(n) # None /\ Src(n).gen = rec.gen)
  <2>1. made = Supersede(source[n], rec)
    BY <1>6 DEF source_created, Src
  <2>2. /\ made \in SourceJournals /\ made.cur = rec /\ Records(made) = Records(source[n]) \cup {rec}
    BY <1>4, <2>1, SupersedeRecords DEF SourceJournals
  <2>3. made.cur.lsn \in Nat
    BY <2>2 DEF SourceRecords
  <2>4. source' = [source EXCEPT ![n] = Supersede(source[n], rec)]
    BY <1>1, <2>1
  <2>5. Core'
    <3>1. \A x \in msgs' : x.kind = "provision" =>
             x \in msgs \/ (x.to = Peer(n) /\ x.gen = rec.gen /\ x.pred = rec.pred /\ x.vm = rec.vm)
      BY <1>1, <1>3, <2>3
    <3> HIDE DEF made
    <3>2. UNCHANGED <<physical, bound, logical, vm, creates, sess, seeds>>
      BY <1>2
    <3>3. /\ rec.gen \notin UsedGens /\ vm[rec.vm].mode = "primary"
          /\ rec.vm = n \/ \E k \in Records(physical[n]) : k.phase = "activated" /\ k.cand = rec.vm
          /\ \A q \in Records(source[n]) : q.vm = rec.vm => q.fence = None /\ q.grant = None
      BY <1>6
    <3> QED
      BY <2>4, <3>1, <3>2, <3>3, ProvisionCore
  <2>6. /\ source' \in [Nodes -> SourceJournals] /\ source'[n] = made
        /\ source'[Peer(n)] = source[Peer(n)]
    BY <1>1, <2>2 DEF StateType, JournalType
  <2>7. msgs' \subseteq Provisions \cup Binds \cup Handoffs \cup Answers
    BY <1>1, <1>3, <2>3 DEF StateType, ControlType
  <2>8. StateType'
    BY <1>2, <2>6, <2>7 DEF StateType, JournalType, ServingType, GuestType, ControlType, TenantType
  <2>9. NodeOp(n)'
    BY <1>1, <1>2, IdleOp
  <2>10. \A g, v, b : Granted(n, g, v, b) => Granted(n, g, v, b)'
    BY <2>2, <2>6, RecordsKept
  <2>11. NodeOp(Peer(n))'
    BY <1>2, <2>6, <2>10, OpKept DEF Allows
  <2>12. GrantsKept
    <3>1. \A x \in Nodes : x # n => source'[x] = source[x]
      BY <2>6
    <3> QED
      BY <2>2, <2>6, <3>1 DEF GrantsKept
  <2> QED
    BY <2>5, <2>8, <2>9, <2>11, <2>12, Assembled
<1> QED
  BY <1>5, <1>6

\* A retried preparation has the record's predecessor and VM.
LEMMA RetriedRecord ==
    ASSUME NEW j \in SourceJournals, NEW r \in SourceRecords, j.cur # None,
           SourceCreateRetry(j, r) \/ SourceSuccessorRetry(j, r)
    PROVE  j.cur.gen = r.gen /\ j.cur.pred = r.pred /\ j.cur.vm = r.vm
<1>1. j.cur \in SourceRecords
  BY DEF SourceJournals
<1>2. CASE SourceCreateRetry(j, r)
  BY <1>1, <1>2 DEF SourceCreateRetry, SourceRecords
<1>3. CASE SourceSuccessorRetry(j, r)
  <2>1. r = [j.cur EXCEPT !.lsn = r.lsn, !.grant = None, !.cand = None, !.complete = FALSE]
    BY <1>3 DEF SourceSuccessorRetry
  <2>2. DOMAIN j.cur = {"gen", "pred", "vm", "lsn", "fence", "barrier", "cand", "grant", "complete"}
    BY <1>1 DEF SourceRecords
  <2> QED
    BY <2>1, <2>2
<1> QED
  BY <1>2, <1>3

\* prepare_source: the first preparation of the home node's VM, or one of the VM
\* whose activation moved the writer here.
LEMMA PrepareSourceStep ==
    ASSUME HandoffInv, NEW n \in Nodes, NEW g \in Gens, prepare_source(n, g)
    PROVE  HandoffInv' /\ GrantsKept
<1> USE PeerFacts DEF HandoffInv
<1> DEFINE active == incoming(n)
           p == IF active = None THEN None ELSE active.gen
           rec == SourceRecord(g, p, bound[n], Lsn(bound[n]))
<1>1. /\ IF active # None THEN active.cand = bound[n] ELSE logical[n] = "primary" /\ ~is_fenced(n)
      /\ IF Src(n) # None /\ Src(n).gen = g
         THEN Src(n).vm = bound[n]
         ELSE g \notin UsedGens /\ (Src(n) # None => active # None)
      /\ SourceAnswers(n)
      /\ IF active = None THEN source_create_ok(source[n], rec)
         ELSE source_create_successor_ok(source[n], rec, active, bound[n])
      /\ Provision(n, rec, FALSE)
  BY DEF prepare_source
<1>2. active # None => active = Cand(n) /\ Cand(n) \in CandidateRecords /\ Cand(n).phase = "activated"
                       /\ Cand(n) \in Records(physical[n])
  BY RecordTypes DEF incoming
<1>3. p \in Gens \cup {None} /\ bound[n] \in VMs /\ Lsn(bound[n]) \in Nat
  BY <1>2 DEF CandidateRecords, StateType, ServingType, GuestType, GuestState, Lsn
<1> HIDE DEF p
<1>4. /\ rec \in SourceRecords /\ rec.gen = g /\ rec.pred = p /\ rec.vm = bound[n]
      /\ rec.fence = None /\ rec.grant = None
  BY <1>3, NewSourceRecord
<1>5. vm[bound[n]].mode = "primary" /\ Provision(n, rec, FALSE) /\ FALSE \in BOOLEAN
  BY <1>1 DEF SourceAnswers
<1> HIDE DEF rec, active
<1>6. Src(n) # None /\ Src(n).gen = rec.gen => Src(n).pred = rec.pred /\ Src(n).vm = rec.vm
  <2> SUFFICES ASSUME Src(n) # None, Src(n).gen = rec.gen
               PROVE  Src(n).pred = rec.pred /\ Src(n).vm = rec.vm
    OBVIOUS
  <2>1. source[n] \in SourceJournals /\ Src(n) \in SourceRecords /\ Src(n) \in Records(source[n])
    BY RecordTypes
  <2>2. SourceCreateRetry(source[n], rec) \/ SourceSuccessorRetry(source[n], rec)
    BY <1>1, <2>1 DEF source_create_ok, source_create_successor_ok, ensure_source_unique, Src
  <2> QED
    BY <1>4, <2>1, <2>2, RetriedRecord DEF Src
<1>7. ASSUME ~(Src(n) # None /\ Src(n).gen = rec.gen)
      PROVE  /\ rec.gen \notin UsedGens
             /\ rec.vm = n \/ \E k \in Records(physical[n]) : k.phase = "activated" /\ k.cand = rec.vm
             /\ \A q \in Records(source[n]) : q.vm = rec.vm => q.fence = None /\ q.grant = None
  <2>1. rec.gen \notin UsedGens /\ (Src(n) # None => active # None)
    BY <1>1, <1>4, <1>7
  <2>2. CASE active = None
    <3>1. Src(n) = None /\ logical[n] = "primary"
      BY <1>1, <2>1, <2>2
    <3>2. n = Home /\ Cand(n) = None
      BY <3>1 DEF Core, BoundInv
    <3>3. bound[n] = n
      BY <3>2 DEF Core, BoundInv
    <3>4. Records(source[n]) = {}
      BY <3>1 DEF Core, BoundInv, Records, Src
    <3> QED
      BY <1>4, <2>1, <3>3, <3>4
  <2>3. CASE active # None
    <3>1. Cand(n) \in Records(physical[n]) /\ Cand(n).phase = "activated" /\ Cand(n).cand = rec.vm
      BY <1>1, <1>2, <1>4, <2>3
    <3>2. ~SourceSuccessorRetry(source[n], rec)
      BY <1>4, <1>7, RetriedRecord, RecordTypes DEF SourceSuccessorRetry, Src
    <3>3. ensure_source_unique(source[n], rec)
      BY <1>1, <2>3, <3>2 DEF source_create_successor_ok
    <3> QED
      BY <2>1, <3>1, <3>3 DEF ensure_source_unique
  <2> QED
    BY <2>2, <2>3
<1> QED
  BY <1>4, <1>5, <1>6, <1>7, ProvisionStep

\* reseed_source: a new generation for the VM of a preparation that was lost.
LEMMA ReseedSourceStep ==
    ASSUME HandoffInv, NEW n \in Nodes, NEW g \in Gens, reseed_source(n, g)
    PROVE  HandoffInv' /\ GrantsKept
<1> USE PeerFacts DEF HandoffInv
<1> DEFINE p == IF Src(n).gen = g THEN Src(n).pred ELSE Src(n).gen
           rec == SourceRecord(g, p, bound[n], Lsn(bound[n]))
<1>1. /\ Src(n) # None /\ (Src(n).gen = g \/ g \notin UsedGens) /\ Src(n).vm = bound[n]
      /\ Src(n).fence = None /\ Src(n).grant = None
      /\ SourceAnswers(n)
      /\ source_create_reseed_ok(source[n], rec)
      /\ Provision(n, rec, TRUE)
  BY DEF reseed_source
<1>2. Src(n) \in SourceRecords /\ Src(n) \in Records(source[n]) /\ source[n] \in SourceJournals
  BY <1>1, RecordTypes
<1>3. p \in Gens \cup {None} /\ bound[n] \in VMs /\ Lsn(bound[n]) \in Nat
  BY <1>2 DEF SourceRecords, StateType, ServingType, GuestType, GuestState, Lsn
<1> HIDE DEF p
<1>4. /\ rec \in SourceRecords /\ rec.gen = g /\ rec.pred = p /\ rec.vm = bound[n]
      /\ rec.fence = None /\ rec.grant = None
  BY <1>3, NewSourceRecord
<1>5. vm[bound[n]].mode = "primary" /\ Provision(n, rec, TRUE) /\ TRUE \in BOOLEAN
  BY <1>1 DEF SourceAnswers
<1> HIDE DEF rec
<1>6. Src(n).gen = rec.gen => Src(n).pred = rec.pred /\ Src(n).vm = rec.vm
  BY <1>1, <1>4 DEF p
<1>7. ASSUME ~(Src(n) # None /\ Src(n).gen = rec.gen)
      PROVE  /\ rec.gen \notin UsedGens
             /\ rec.vm = n \/ \E k \in Records(physical[n]) : k.phase = "activated" /\ k.cand = rec.vm
             /\ \A q \in Records(source[n]) : q.vm = rec.vm => q.fence = None /\ q.grant = None
  <2>1. rec.gen \notin UsedGens
    BY <1>1, <1>4, <1>7
  <2>2. rec.vm = n \/ \E k \in Records(physical[n]) : k.phase = "activated" /\ k.cand = rec.vm
    BY <1>1, <1>2, <1>4 DEF Core, BoundInv
  <2>3. Records(source[n]) = ToSet(source[n].hist) \cup {Src(n)}
    BY <1>1, RecordTypes
  <2> QED
    BY <1>1, <1>4, <2>1, <2>2, <2>3 DEF Core, BoundInv
<1> QED
  BY <1>4, <1>5, <1>6, <1>7, ProvisionStep

\* A new candidate record.
LEMMA NewCandidateRecord ==
    ASSUME NEW g \in Gens, NEW p \in Gens \cup {None}, NEW v \in VMs, NEW s \in VMs
    PROVE  /\ CandidateRecord(g, p, v, s) \in CandidateRecords
           /\ CandidateRecord(g, p, v, s).gen = g /\ CandidateRecord(g, p, v, s).pred = p
           /\ CandidateRecord(g, p, v, s).srcVm = s /\ CandidateRecord(g, p, v, s).phase = "intent"
           /\ CandidateRecord(g, p, v, s).cand = None
BY PhaseNames DEF CandidateRecord, CandidateRecords

\* A request that is accepted is a retry for the current record, or is for a
\* generation the journal does not hold.
LEMMA AcceptedIsNew ==
    ASSUME HandoffInv, NEW n \in Nodes, NEW m \in Provisions, NEW r \in CandidateRecords,
           r.gen = m.gen, AcceptsCandidate(n, m, r), ~(Cand(n) # None /\ Cand(n).gen = m.gen)
    PROVE  /\ \A q \in Records(physical[n]) : q.gen # m.gen
           /\ n = Home => Src(n) # None
<1> USE DEF HandoffInv
<1>1. Cand(n) # None => Cand(n) \in CandidateRecords
  BY RecordTypes
<1>2. /\ ~CandidateCreateRetry(physical[n], r) /\ ~CandidateSuccessorRetry(physical[n], r)
      /\ ~CandidateReseedRetry(physical[n], r)
  BY <1>1 DEF CandidateCreateRetry, CandidateSuccessorRetry, CandidateReseedRetry, CandidateRecords, Cand
<1>3. CASE m.reseed
  <2>1. logical[n] = "failed_replica" /\ candidate_create_reseed_ok(physical[n], r, bound[n])
    BY <1>3 DEF AcceptsCandidate
  <2>2. ensure_candidate_unique(physical[n], r)
    BY <1>2, <2>1 DEF candidate_create_reseed_ok
  <2> QED
    BY <2>1, <2>2 DEF ensure_candidate_unique, Core, BoundInv
<1>4. CASE ~m.reseed /\ m.pred # None
  <2>1. Src(n) # None /\ candidate_create_successor_ok(physical[n], r, Src(n), bound[n])
    BY <1>4 DEF AcceptsCandidate
  <2>2. ensure_candidate_unique(physical[n], r)
    BY <1>2, <2>1 DEF candidate_create_successor_ok
  <2> QED
    BY <2>1, <2>2 DEF ensure_candidate_unique
<1>5. CASE ~m.reseed /\ m.pred = None
  <2>1. logical[n] \in {"replica", "failed_replica"} /\ candidate_create_ok(physical[n], r)
    BY <1>5 DEF AcceptsCandidate
  <2>2. ensure_candidate_unique(physical[n], r)
    BY <1>2, <2>1 DEF candidate_create_ok
  <2> QED
    BY <2>1, <2>2 DEF ensure_candidate_unique, Core, BoundInv
<1> QED
  BY <1>3, <1>4, <1>5

\* accept_candidate: a request that fits makes its record durable and queues a seed
\* worker.
LEMMA AcceptCandidateStep ==
    ASSUME HandoffInv, NEW n \in Nodes, NEW m \in msgs, accept_candidate(n, m)
    PROVE  HandoffInv'
<1> USE PeerFacts DEF HandoffInv
<1> DEFINE rec == CandidateRecord(m.gen, m.pred, bound[n], m.vm)
           ok  == AcceptsCandidate(n, m, rec)
<1>1. /\ m.to = n /\ m.kind = "provision" /\ op[n] = Idle /\ msgs' = msgs \ {m}
      /\ physical' = (IF ok THEN [physical EXCEPT ![n] = candidate_created(physical[n], rec)] ELSE physical)
      /\ seeds' = (IF ok THEN [seeds EXCEPT ![n] = seeds[n] \cup {m}] ELSE seeds)
      /\ UNCHANGED <<source, serving, guests, op, tenants>>
  BY DEF accept_candidate, Request
<1>2. UNCHANGED <<source, bound, logical, lfence, vm, creates, lost, op, sess, acked>>
  BY <1>1 DEF serving, guests, tenants
<1>3. m \in Provisions /\ Prepared(Peer(n), m.gen, m.pred, m.vm)
  BY <1>1 DEF StateType, ControlType, Provisions, Binds, Handoffs, Answers, Core, GenInv
<1>4. /\ rec \in CandidateRecords /\ rec.gen = m.gen /\ rec.pred = m.pred /\ rec.srcVm = m.vm
      /\ rec.phase = "intent" /\ rec.cand = None
  <2>1. m.gen \in Gens /\ m.pred \in Gens \cup {None} /\ m.vm \in VMs /\ bound[n] \in VMs
    BY <1>3 DEF Provisions, StateType, ServingType
  <2> QED
    BY <2>1, NewCandidateRecord
<1> HIDE DEF rec
<1>5. msgs' \subseteq Provisions \cup Binds \cup Handoffs \cup Answers
  BY <1>1 DEF StateType, ControlType
<1>6. seeds' \in [Nodes -> SUBSET Provisions]
  BY <1>1, <1>3 DEF StateType, ControlType
<1>7. ControlType'
  BY <1>2, <1>5, <1>6 DEF StateType, ControlType
<1>8. Traceable
  <2>1. \A x \in msgs : x.kind = "provision" => x.to \in Nodes
    BY DEF StateType, ControlType, Provisions, Binds, Handoffs, Answers
  <2>2. \A o \in Nodes : \A x \in seeds'[o] : x \in seeds[o] \/ (o = n /\ x = m)
    BY <1>1 DEF StateType, ControlType
  <2> QED
    BY <1>1, <1>3, <2>1, <2>2 DEF Traceable
<1>9. NodeOp(n)'
  BY <1>1, <1>2, IdleOp
<1>10. CASE physical' = physical
  <2>1. ServingType' /\ op'[Peer(n)] = op[Peer(n)] /\ lfence'[Peer(n)] = lfence[Peer(n)]
    BY <1>2 DEF StateType, ServingType
  <2> QED
    BY <1>2, <1>7, <1>8, <1>9, <1>10, <2>1, ControlStep
<1>11. CASE /\ ok /\ ~(Cand(n) # None /\ Cand(n).gen = m.gen)
            /\ physical' = [physical EXCEPT ![n] = Supersede(physical[n], rec)]
  <2>1. /\ \A q \in Records(physical[n]) : q.gen # m.gen
        /\ n = Home => Src(n) # None
    BY <1>3, <1>4, <1>11, AcceptedIsNew
  <2>2. Core'
    <3>1. /\ Prepared(Peer(n), rec.gen, rec.pred, rec.srcVm)
          /\ \A q \in Records(physical[n]) : q.gen # rec.gen
          /\ n = Home => Src(n) # None
      BY <1>3, <1>4, <2>1
    <3>2. /\ physical' = [physical EXCEPT ![n] = Supersede(physical[n], rec)]
          /\ UNCHANGED <<source, bound, logical, vm, creates, sess>>
      BY <1>2, <1>11
    <3>3. rec \in CandidateRecords /\ rec.phase = "intent" /\ rec.cand = None
      BY <1>4
    <3> QED
      BY <1>8, <3>1, <3>2, <3>3, AcceptCore
  <2>3. physical[n] \in CandidateJournals /\ None \notin CandidateRecords
    BY RecordTypes, NoneAssumption
  <2>4. Supersede(physical[n], rec) \in CandidateJournals
    BY <1>4, <2>3, SupersedeRecords DEF CandidateJournals
  <2>5. physical' \in [Nodes -> CandidateJournals] /\ physical'[Peer(n)] = physical[Peer(n)]
    BY <1>11, <2>4 DEF StateType, JournalType
  <2>6. StateType'
    BY <1>2, <1>7, <2>5 DEF StateType, JournalType, ServingType, GuestType, TenantType
  <2>7. NodeOp(Peer(n))'
    BY <1>2, <2>5, OpKept DEF Granted, Allows
  <2> QED
    BY <1>9, <2>2, <2>6, <2>7, Assembled
<1> QED
  <2>1. CASE ~ok
    BY <1>1, <1>10, <2>1
  <2>2. CASE ok /\ Cand(n) # None /\ Cand(n).gen = m.gen
    <3>1. physical' = physical
      BY <1>1, <1>4, <2>2 DEF candidate_created, Cand, StateType, JournalType
    <3> QED
      BY <1>10, <3>1
  <2>3. CASE ok /\ ~(Cand(n) # None /\ Cand(n).gen = m.gen)
    <3>1. candidate_created(physical[n], rec) = Supersede(physical[n], rec)
      BY <1>4, <2>3 DEF candidate_created, Cand
    <3> QED
      BY <1>1, <1>11, <2>3, <3>1
  <2> QED
    BY <2>1, <2>2, <2>3

-----------------------------------------------------------------------------
(* The invariant *)

\* The invariant holds at first: the home node's VM is the only primary, and
\* nothing is recorded.
LEMMA InitInvariant == Init => HandoffInv
<1> SUFFICES ASSUME Init PROVE HandoffInv
  OBVIOUS
<1> USE PeerFacts
<1>1. \A n \in Nodes : /\ source[n] = EmptyJournal /\ physical[n] = EmptyJournal /\ bound[n] = n
                       /\ op[n] = Idle /\ seeds[n] = {}
                       /\ lfence[n] = [phase |-> None, mode |-> None, vm |-> None]
                       /\ logical[n] = IF n = Home THEN "primary" ELSE "replica"
  BY DEF Init
<1>2. EmptyJournal \in SourceJournals /\ EmptyJournal \in CandidateJournals
  BY DEF EmptyJournal, SourceJournals, CandidateJournals
<1>3. Records(EmptyJournal) = {} /\ EmptyJournal.cur = None /\ ToSet(EmptyJournal.hist) = {}
  BY DEF Records, EmptyJournal, ToSet
<1>4. \A n \in Nodes : /\ Records(source[n]) = {} /\ Records(physical[n]) = {}
                       /\ ToSet(source[n].hist) = {} /\ ToSet(physical[n].hist) = {}
                       /\ Src(n) = None /\ Cand(n) = None
  BY <1>1, <1>3 DEF Src, Cand
<1>5. Nodes \subseteq VMs /\ Gens \subseteq VMs /\ Home \in Nodes /\ Home \in VMs
  BY HandoffAssumption DEF VMs
<1>6. \A v \in VMs : /\ vm[v].mode = IF v = Home THEN "primary" ELSE IF v \in Nodes THEN "logical" ELSE "absent"
                     /\ vm[v].promo = "none" /\ vm[v].src = None /\ vm[v].wal = << >>
  BY DEF Init
<1>7. StateType
  <2>1. JournalType
    BY <1>2 DEF Init, JournalType
  <2>2. ServingType
    <3>1. [phase |-> None, mode |-> None, vm |-> None] \in Fences
      BY DEF Fences
    <3>2. bound \in [Nodes -> VMs] /\ lfence \in [Nodes -> Fences]
      BY <1>5, <3>1 DEF Init
    <3>3. logical \in [Nodes -> {"primary", "replica", "failed_primary", "failed_replica", "removed"}]
      BY DEF Init
    <3> QED
      BY <1>1, <3>2, <3>3 DEF ServingType
  <2>3. GuestType
    <3>1. << >> \in Seq(Int)
      OBVIOUS
    <3>2. \A x \in VmModes : [mode |-> x, wal |-> << >>, promo |-> "none", src |-> None] \in GuestState
      BY <3>1 DEF GuestState, Promotions
    <3>3. \A v \in VMs : (IF v = Home THEN "primary" ELSE IF v \in Nodes THEN "logical" ELSE "absent") \in VmModes
      BY DEF VmModes
    <3>4. vm \in [VMs -> GuestState]
      BY <3>2, <3>3 DEF Init
    <3>5. creates \in [Gens -> Nat] /\ lost \subseteq Gens
      BY DEF Init
    <3> QED
      BY <1>6, <3>4, <3>5 DEF GuestType
  <2>4. ControlType
    <3>1. Idle \in Operations
      BY DEF Idle, Operations, OpKinds
    <3> QED
      BY <3>1 DEF Init, ControlType
  <2>5. TenantType
    <3>1. Off \in Sessions /\ Off.at = "off"
      BY DEF Off, Sessions
    <3> QED
      BY <3>1 DEF Init, TenantType
  <2> QED
    BY <2>1, <2>2, <2>3, <2>4, <2>5 DEF StateType
<1>8. GenInv /\ CandInv
  BY <1>1, <1>4 DEF Init, GenInv, CandInv
<1>9. BoundInv
  BY <1>1, <1>4, <1>5 DEF BoundInv, Own
<1>10. ShutInv /\ WriterInv
  BY <1>4, <1>6 DEF ShutInv, WriterInv, Ungranted
<1>11. CreateInv
  BY DEF Init, CreateInv
<1>12. PromoteInv
  <2>1. \A g \in Gens : g \notin Nodes
    BY HandoffAssumption
  <2>2. \A g \in Gens : vm[g].promo = "none" /\ vm[g].mode = "absent"
    BY <1>5, <1>6, <2>1
  <2>3. \A n \in Nodes : vm[n].promo = "none" /\ vm[n].mode = IF n = Home THEN "primary" ELSE "logical"
    BY <1>5, <1>6
  <2> QED
    BY <1>4, <2>2, <2>3 DEF PromoteInv
<1>13. OpInv
  BY <1>1 DEF OpInv, NodeOp, SeedOp, BindOp, HandoffOp, AcceptOp, UnfenceOp, FenceOp, Holds, Idle
<1> QED
  BY <1>7, <1>8, <1>9, <1>10, <1>11, <1>12, <1>13 DEF HandoffInv, Core

\* A step of the operation that holds a node's mutex.
LEMMA OpStepsStep ==
    ASSUME HandoffInv, NEW n \in Nodes, OpSteps(n)
    PROVE  HandoffInv'
<1>1. CASE SeedCreates(n) \/ SeedOwns(n) \/ SeedRuns(n) \/ SeedVerified(n)
  BY <1>1, SeedCreatesStep, SeedOwnsStep, SeedRunsStep, SeedVerifiedStep
<1>2. CASE StandbyVerified(n) \/ StandbyBound(n)
  BY <1>2, StandbyVerifiedStep, StandbyBoundStep
<1>3. CASE AuthorizeHandoff(n) \/ FenceSource(n) \/ CloseSource(n) \/ SourceDrained(n) \/ GrantHandoff(n)
  BY <1>3, AuthorizeHandoffStep, FenceSourceStep, CloseSourceStep, SourceDrainedStep, GrantHandoffStep
<1>4. CASE GrantConfirmed(n) \/ HandoffAccepted(n)
  BY <1>4, GrantConfirmedStep, HandoffAcceptedStep
<1>5. CASE PreparePromotion(n) \/ LaunchPromote(n) \/ PromotionAcknowledged(n)
  BY <1>5, PreparePromotionStep, LaunchPromoteStep, PromotionAcknowledgedStep
<1>6. CASE BindPromoted(n) \/ RetireLogical(n) \/ OpenAdmission(n) \/ Activate(n)
  BY <1>6, BindPromotedStep, RetireLogicalStep, OpenAdmissionStep, ActivateStep
<1>7. CASE FenceCloses(n) \/ FenceReady(n) \/ UnfenceOpens(n) \/ UnfenceClears(n)
  BY <1>7, FenceClosesStep, FenceReadyStep, UnfenceOpensStep, UnfenceClearsStep
<1> QED
  BY <1>1, <1>2, <1>3, <1>4, <1>5, <1>6, <1>7 DEF OpSteps

\* A step of one node.
LEMMA NodeStep ==
    ASSUME HandoffInv, NEW n \in Nodes,
           \/ Prepare(n) \/ bind_standby_source(n) \/ HandoffBegins(n) \/ OperatorFence(n)
           \/ Recovery(n) \/ Deliver(n) \/ SeedWorker(n) \/ OpSteps(n) \/ Fails(n)
           \/ SlotsLost(n) \/ Crash(n) \/ Abort(n)
    PROVE  HandoffInv'
<1>1. CASE Prepare(n)
  BY <1>1, PrepareSourceStep, ReseedSourceStep DEF Prepare
<1>2. CASE bind_standby_source(n) \/ HandoffBegins(n)
  BY <1>2, BindStandbySourceStep, HandoffBeginsStep
<1>3. CASE OperatorFence(n)
  BY <1>3, FenceBeginsStep, UnfenceStep DEF OperatorFence, fence, fence_selective
<1>4. CASE Recovery(n)
  BY <1>4, ResumeStandbyBindStep, ResumeHandoffStep, HandoffBeginsStep DEF Recovery
<1>5. CASE Deliver(n)
  BY <1>5, AcceptCandidateStep, AcceptStandbyBindStep, AcceptHandoffStep, HandoffAnsweredStep DEF Deliver
<1>6. CASE SeedWorker(n)
  BY <1>6, SeedBeginsStep DEF SeedWorker
<1>7. CASE OpSteps(n)
  BY <1>7, OpStepsStep
<1>8. CASE Fails(n)
  BY <1>8, UnlockStep DEF Fails
<1>9. CASE SlotsLost(n)
  BY <1>9, SlotsLostStep
<1>10. CASE Crash(n) \/ Abort(n)
  BY <1>10, CrashStep, UnlockStep DEF Abort
<1> QED
  BY <1>1, <1>2, <1>3, <1>4, <1>5, <1>6, <1>7, <1>8, <1>9, <1>10

\* Every step keeps the invariant.
LEMMA NextInvariant ==
    ASSUME HandoffInv, [Next]_vars
    PROVE  HandoffInv'
<1>1. ASSUME NEW n \in Nodes,
             \/ Prepare(n) \/ bind_standby_source(n) \/ HandoffBegins(n) \/ OperatorFence(n)
             \/ Recovery(n) \/ Deliver(n) \/ SeedWorker(n) \/ OpSteps(n) \/ Fails(n)
             \/ SlotsLost(n) \/ Crash(n) \/ Abort(n)
      PROVE  HandoffInv'
  BY <1>1, NodeStep
<1>2. ASSUME NEW g \in Gens, Guest(g) PROVE HandoffInv'
  BY <1>2, VmVisibleStep, SeedCopiedStep, ReplicateStep, PgPromoteStep DEF Guest
<1>3. ASSUME NEW c \in Clients, Tenant(c) PROVE HandoffInv'
  BY <1>3, SessionStep, CommitStep, HandoffAssumption DEF Tenant
<1>4. ASSUME NEW m \in msgs, LoseMessage(m) PROVE HandoffInv'
  BY <1>4, LoseMessageStep
<1>5. CASE UNCHANGED vars
  <2>1. /\ UNCHANGED <<source, physical, bound, logical, lfence, vm, creates, lost, op, seeds, sess, acked>>
        /\ msgs' = msgs
    BY <1>5 DEF vars, journals, serving, guests, control, tenants
  <2>2. msgs' \subseteq Provisions \cup Binds \cup Handoffs \cup Answers /\ Traceable
    BY <2>1, KeptTraceable DEF HandoffInv, StateType, ControlType
  <2> QED
    BY <2>1, <2>2, MessageStep
<1> QED
  BY <1>1, <1>2, <1>3, <1>4, <1>5 DEF Next, Fault

\* The inductive invariant holds in every state of every behaviour.
THEOREM HandoffInvariant == Spec => []HandoffInv
<1>1. HandoffInv /\ [Next]_vars => HandoffInv'
  BY NextInvariant
<1> QED
  BY <1>1, InitInvariant, PTL DEF Spec

-----------------------------------------------------------------------------
(* What it means *)

\* Bindings, pairings, fences, VMs and acknowledged commits keep their types.
THEOREM TypeCorrect == Spec => []TypeOK
<1>1. HandoffInv => TypeOK
  <2> SUFFICES ASSUME HandoffInv PROVE TypeOK
    OBVIOUS
  <2>1. ServingType /\ GuestType /\ TenantType
    BY DEF HandoffInv, StateType
  <2>2. \A n \in Nodes : /\ lfence[n].phase \in {None, "intent", "ready", "unfencing"}
                         /\ lfence[n].mode \in {None, "hard", "selective"}
                         /\ lfence[n].phase = None <=> lfence[n].mode = None
                         /\ lfence[n].phase = None <=> lfence[n].vm = None
    BY <2>1 DEF ServingType, Fences
  <2>3. \A v \in VMs : /\ vm[v].mode \in VmModes
                       /\ vm[v].promo \in {"none", "prepared", "promoting", "promoted"}
                       /\ vm[v].mode \in {"seeding", "standby"} => vm[v].src \in VMs
    BY <2>1 DEF GuestType, GuestState, Promotions
  <2>4. /\ bound \in [Nodes -> VMs] /\ acked \in SUBSET (1..MaxCommits)
        /\ logical \in [Nodes -> {"primary", "replica", "failed_primary", "failed_replica", "removed"}]
    BY <2>1 DEF ServingType, TenantType
  <2> QED
    BY <2>2, <2>3, <2>4 DEF TypeOK
<1> QED
  BY <1>1, HandoffInvariant, PTL

\* A VM that lets a tenant write is a primary that was not granted away, and there
\* is one of these at most: whatever the two nodes, their requests, the operator
\* and the crashes interleave to, there is no split brain.
THEOREM OneWriter == Spec => []NoSplitBrain
<1>1. HandoffInv => NoSplitBrain
  <2> SUFFICES ASSUME HandoffInv PROVE NoSplitBrain
    OBVIOUS
  <2> USE DEF HandoffInv, Core
  <2>1. ASSUME NEW v \in Writable PROVE v \in VMs /\ Ungranted(v)
    <3>1. v \in VMs /\ vm[v].mode = "primary" /\ (Allows(v) \/ Attached(v) # {})
      BY <2>1 DEF Writable, Admits
    <3>2. ASSUME NEW n \in Nodes, NEW r \in Records(source[n]), r.vm = v PROVE r.grant = None
      BY <3>1, <3>2 DEF ShutInv, Shut
    <3> QED
      BY <3>1, <3>2 DEF Ungranted
  <2>2. \A v, w \in Writable : v = w
    BY <2>1 DEF WriterInv
  <2>3. CASE Writable = {}
    <3>1. Cardinality(Writable) = 0
      BY <2>3, FS_EmptySet
    <3> QED
      BY <3>1 DEF NoSplitBrain
  <2>4. CASE Writable # {}
    <3>1. PICK v : Writable = {v}
      BY <2>2, <2>4
    <3>2. Cardinality(Writable) = 1
      BY <3>1, FS_Singleton
    <3> QED
      BY <3>2 DEF NoSplitBrain
  <2> QED
    BY <2>3, <2>4
<1> QED
  BY <1>1, HandoffInvariant, PTL

\* A VM that a source record granted away is closed and has no session, for ever.
THEOREM GrantedStaysShut == Spec => []GrantedNeverOpens
<1>1. HandoffInv => GrantedNeverOpens
  BY DEF HandoffInv, Core, ShutInv, Shut, GrantedNeverOpens
<1> QED
  BY <1>1, HandoffInvariant, PTL

\* The VM of an activated candidate is bound, promoted and a primary.
THEOREM ActivatedServes == Spec => []ActivatedIsBound
<1>1. HandoffInv => ActivatedIsBound
  <2> SUFFICES ASSUME HandoffInv, NEW n \in Nodes, Cand(n) # None, Cand(n).phase = "activated"
               PROVE  /\ bound[n] = Cand(n).cand
                      /\ vm[bound[n]].mode = "primary" /\ vm[bound[n]].promo = "promoted"
    BY DEF ActivatedIsBound
  <2> USE DEF HandoffInv, Core
  <2>1. Cand(n).cand = Cand(n).gen /\ Cand(n).gen \in Gens
    BY RecordTypes DEF CandInv, CandidateRecords
  <2> QED
    BY <2>1 DEF PromoteInv
<1> QED
  BY <1>1, HandoffInvariant, PTL

\* At most one create request is ever sent for a candidate.
THEOREM CreatedOnce == Spec => []OneCreatePerCandidate
<1>1. HandoffInv => OneCreatePerCandidate
  BY DEF HandoffInv, Core, CreateInv, OneCreatePerCandidate
<1> QED
  BY <1>1, HandoffInvariant, PTL

-----------------------------------------------------------------------------
(* What a step may never do *)

\* The steps that write a node's source journal.
WritesSource(n) ==
    \/ Prepare(n) \/ AuthorizeHandoff(n) \/ FenceSource(n) \/ SourceDrained(n) \/ GrantHandoff(n)
    \/ \E m \in msgs : HandoffAnswered(n, m)

\* The steps that write a node's candidate journal.
WritesCandidate(n) ==
    \/ \E from, to : \E v \in Gens \cup {None} : Advance(n, from, to, v)
    \/ \E m \in msgs : accept_candidate(n, m) \/ accept_standby_bind(n, m)
    \/ HandoffAccepted(n)

\* All others leave the journals alone.
LEMMA JournalWrites ==
    ASSUME HandoffInv, [Next]_vars
    PROVE  /\ source' = source \/ \E n \in Nodes : WritesSource(n)
           /\ physical' = physical \/ \E n \in Nodes : WritesCandidate(n)
<1> USE DEF journals
<1> DEFINE P(n) == /\ source' = source \/ WritesSource(n)
                   /\ physical' = physical \/ WritesCandidate(n)
<1>1. ASSUME NEW n \in Nodes, Prepare(n) PROVE P(n)
  BY <1>1 DEF WritesSource, Prepare, prepare_source, reseed_source, Provision
<1>2. ASSUME NEW n \in Nodes, bind_standby_source(n) \/ HandoffBegins(n) \/ OperatorFence(n) PROVE P(n)
  BY <1>2 DEF bind_standby_source, HandoffBegins, OperatorFence, fence, fence_selective, FenceBegins, unfence
<1>3. ASSUME NEW n \in Nodes, Recovery(n) \/ Fails(n) \/ SlotsLost(n) \/ Crash(n) \/ Abort(n) PROVE P(n)
  BY <1>3 DEF Recovery, ResumeStandbyBind, ResumeHandoff, HandoffBegins, Fails, SlotsLost, Crash, Abort
<1>4. ASSUME NEW n \in Nodes, Deliver(n) PROVE P(n)
  <2>1. ASSUME NEW m \in msgs, accept_candidate(n, m) \/ accept_standby_bind(n, m) PROVE P(n)
    <3>1. source' = source
      BY <2>1 DEF accept_candidate, accept_standby_bind
    <3> QED
      BY <2>1, <3>1 DEF WritesCandidate
  <2>2. ASSUME NEW m \in msgs, accept_handoff(n, m) PROVE P(n)
    BY <2>2 DEF accept_handoff
  <2>3. ASSUME NEW m \in msgs, HandoffAnswered(n, m) PROVE P(n)
    <3>1. physical' = physical
      BY <2>3 DEF HandoffAnswered
    <3> QED
      BY <2>3, <3>1 DEF WritesSource
  <2> QED
    BY <1>4, <2>1, <2>2, <2>3 DEF Deliver
<1>5. ASSUME NEW n \in Nodes, SeedWorker(n) PROVE P(n)
  BY <1>5 DEF SeedWorker, SeedBegins, WritesCandidate
<1>6. ASSUME NEW n \in Nodes, OpSteps(n) PROVE P(n)
  <2>1. CASE SeedCreates(n) \/ SeedOwns(n) \/ SeedRuns(n) \/ SeedVerified(n)
    <3>1. SeedOwns(n) => op[n].req.gen \in Gens
      BY DEF SeedOwns, Holds, HandoffInv, OpInv, NodeOp, SeedOp, Provisions
    <3> QED
      BY <2>1, <3>1 DEF SeedCreates, SeedOwns, SeedRuns, SeedVerified, WritesCandidate
  <2>2. CASE StandbyVerified(n) \/ StandbyBound(n)
    BY <2>2 DEF StandbyVerified, StandbyBound, WritesCandidate
  <2>3. CASE AuthorizeHandoff(n) \/ FenceSource(n) \/ CloseSource(n) \/ SourceDrained(n) \/ GrantHandoff(n)
    <3>1. physical' = physical
      BY <2>3 DEF AuthorizeHandoff, FenceSource, CloseSource, SourceDrained, GrantHandoff
    <3>2. CloseSource(n) => source' = source
      BY DEF CloseSource
    <3> QED
      BY <2>3, <3>1, <3>2 DEF WritesSource
  <2>4. CASE GrantConfirmed(n) \/ HandoffAccepted(n)
    BY <2>4 DEF GrantConfirmed, HandoffAccepted, WritesCandidate
  <2>5. CASE PreparePromotion(n) \/ LaunchPromote(n) \/ PromotionAcknowledged(n)
    BY <2>5 DEF PreparePromotion, LaunchPromote, PromotionAcknowledged, WritesCandidate
  <2>6. CASE BindPromoted(n) \/ RetireLogical(n) \/ OpenAdmission(n) \/ Activate(n)
    BY <2>6 DEF BindPromoted, RetireLogical, OpenAdmission, Activate, WritesCandidate
  <2>7. CASE FenceCloses(n) \/ FenceReady(n) \/ UnfenceOpens(n) \/ UnfenceClears(n)
    BY <2>7 DEF FenceCloses, FenceReady, UnfenceOpens, UnfenceClears
  <2> HIDE DEF P
  <2> QED
    BY <1>6, <2>1, <2>2, <2>3, <2>4, <2>5, <2>6, <2>7 DEF OpSteps
<1>7. ASSUME NEW g \in Gens, Guest(g) PROVE source' = source /\ physical' = physical
  BY <1>7 DEF Guest, VmVisible, SeedCopied, Replicate, PgPromote
<1>8. ASSUME NEW c \in Clients, Tenant(c) PROVE source' = source /\ physical' = physical
  BY <1>8 DEF Tenant, Connect, ConnectToPeer, ClaimVetted, checkout, SessionStarts, Commit, Disconnect
<1>9. ASSUME NEW m \in msgs, LoseMessage(m) PROVE source' = source /\ physical' = physical
  BY <1>9 DEF LoseMessage
<1>10. CASE UNCHANGED vars
  BY <1>10 DEF vars
<1>11. ASSUME NEW n \in Nodes, P(n)
       PROVE  /\ source' = source \/ \E m \in Nodes : WritesSource(m)
              /\ physical' = physical \/ \E m \in Nodes : WritesCandidate(m)
  BY <1>11
<1> HIDE DEF P
<1> QED
  BY <1>1, <1>2, <1>3, <1>4, <1>5, <1>6, <1>7, <1>8, <1>9, <1>10, <1>11 DEF Next, Fault

\* A grant, once durable, is never withdrawn or changed by any step of any node.
THEOREM GrantsIrrevocable == Spec => GrantIrrevocable
<1>1. HandoffInv /\ [Next]_vars => GrantsKept
  <2> SUFFICES ASSUME HandoffInv, [Next]_vars PROVE GrantsKept
    OBVIOUS
  <2>1. CASE source' = source
    BY <2>1 DEF GrantsKept
  <2>2. ASSUME NEW n \in Nodes, WritesSource(n) PROVE GrantsKept
    <3>1. CASE Prepare(n)
      BY <3>1, PrepareSourceStep, ReseedSourceStep DEF Prepare
    <3>2. CASE AuthorizeHandoff(n) \/ FenceSource(n) \/ SourceDrained(n) \/ GrantHandoff(n)
      BY <3>2, AuthorizeHandoffStep, FenceSourceStep, SourceDrainedStep, GrantHandoffStep
    <3>3. CASE \E m \in msgs : HandoffAnswered(n, m)
      BY <3>3, HandoffAnsweredStep
    <3> QED
      BY <2>2, <3>1, <3>2, <3>3 DEF WritesSource
  <2> QED
    BY <2>1, <2>2, JournalWrites
<1> QED
  BY <1>1, HandoffInvariant, PTL DEF Spec, GrantIrrevocable, GrantsKept

\* The number of each phase is its place in Phases.
LEMMA PhaseNumbers ==
    /\ \A p \in ToSet(Phases) : phase_number(p) \in 1 .. 12
    /\ phase_number("intent") = 1 /\ phase_number("creating") = 2 /\ phase_number("candidate") = 3
    /\ phase_number("seeding") = 4 /\ phase_number("verified") = 5
    /\ phase_number("standby_binding") = 6 /\ phase_number("standby") = 7
    /\ phase_number("prepared") = 8 /\ phase_number("promoting") = 9
    /\ phase_number("promoted") = 10 /\ phase_number("binding") = 11
    /\ phase_number("activated") = 12
<1>1. /\ DOMAIN Phases = 1 .. 12
      /\ Phases[1] = "intent" /\ Phases[2] = "creating" /\ Phases[3] = "candidate"
      /\ Phases[4] = "seeding" /\ Phases[5] = "verified" /\ Phases[6] = "standby_binding"
      /\ Phases[7] = "standby" /\ Phases[8] = "prepared" /\ Phases[9] = "promoting"
      /\ Phases[10] = "promoted" /\ Phases[11] = "binding" /\ Phases[12] = "activated"
  BY DEF Phases
<1>2. \A p \in ToSet(Phases) : \E i \in DOMAIN Phases : Phases[i] = p
  BY DEF ToSet
<1>3. \A p \in ToSet(Phases) : phase_number(p) \in DOMAIN Phases /\ Phases[phase_number(p)] = p
  BY <1>2 DEF phase_number
<1>4. \A i, k \in 1 .. 12 : Phases[i] = Phases[k] => i = k
  BY <1>1
<1>5. \A i \in 1 .. 12 : phase_number(Phases[i]) = i
  <2>1. \A i \in 1 .. 12 : Phases[i] \in ToSet(Phases)
    BY <1>1 DEF ToSet
  <2> QED
    BY <1>1, <1>3, <1>4, <2>1
<1>6. \A p \in ToSet(Phases) : phase_number(p) \in 1 .. 12
  BY <1>1, <1>3
<1> QED
  BY <1>1, <1>5, <1>6

\* A legal transition goes up.
LEMMA AdvanceUp ==
    ASSUME NEW from, NEW to, <<from, to>> \in LegalAdvance
    PROVE  phase_number(to) >= phase_number(from)
BY PhaseNumbers DEF LegalAdvance

\* The phase of a candidate does not go back while its generation is current.
PhaseKept ==
    \A n \in Nodes : Cand(n) # None /\ Cand(n)'.gen = Cand(n).gen =>
        phase_number(Cand(n)'.phase) >= phase_number(Cand(n).phase)

\* A step that leaves the records of the other node alone and moves the own one up.
LEMMA PhaseMoves ==
    ASSUME StateType, NEW n \in Nodes, physical'[Peer(n)] = physical[Peer(n)],
           \/ Cand(n)' = Cand(n)
           \/ Cand(n) # None /\ Cand(n)'.gen = Cand(n).gen =>
                 phase_number(Cand(n)'.phase) >= phase_number(Cand(n).phase)
    PROVE  PhaseKept
<1>1. \A m \in Nodes : Cand(m) # None => phase_number(Cand(m).phase) \in Int
  BY RecordTypes, PhaseNumbers DEF CandidateRecords
<1>2. Cand(Peer(n))' = Cand(Peer(n))
  BY DEF Cand
<1>3. \A m \in Nodes : Cand(m)' = Cand(m) /\ Cand(m) # None =>
          phase_number(Cand(m)'.phase) >= phase_number(Cand(m).phase)
  BY <1>1
<1>4. \A m \in Nodes : m = n \/ m = Peer(n)
  BY PeerFacts
<1> QED
  BY <1>2, <1>3, <1>4 DEF PhaseKept

\* A candidate's phase only moves forward while its generation is current.
THEOREM PhasesForward == Spec => PhaseForward
<1>1. HandoffInv /\ [Next]_vars => PhaseKept
  <2> SUFFICES ASSUME HandoffInv, [Next]_vars PROVE PhaseKept
    OBVIOUS
  <2> USE PeerFacts DEF HandoffInv
  <2>1. CASE physical' = physical
    BY <2>1, HandoffAssumption, PhaseMoves DEF Cand
  <2>2. ASSUME NEW n \in Nodes, NEW from, NEW to, NEW v, Advance(n, from, to, v) PROVE PhaseKept
    <3>1. /\ Cand(n) # None /\ Cand(n).phase = from /\ <<from, to>> \in LegalAdvance
          /\ physical' = [physical EXCEPT ![n] = advance(physical[n], to, v)]
      BY <2>2 DEF Advance, advance_ok, Cand
    <3>2. Cand(n) \in CandidateRecords /\ physical[n] \in CandidateJournals
      BY <3>1, RecordTypes
    <3>3. /\ Cand(n)' = [Cand(n) EXCEPT !.phase = to, !.cand = IF v = None THEN Cand(n).cand ELSE v]
          /\ physical'[Peer(n)] = physical[Peer(n)]
      BY <3>1, <3>2 DEF advance, Update, Cand, StateType, JournalType, CandidateJournals, CandidateRecords
    <3>4. Cand(n)'.phase = to
      BY <3>2, <3>3 DEF CandidateRecords
    <3> QED
      BY <3>1, <3>3, <3>4, AdvanceUp, PhaseMoves
  <2>3. ASSUME NEW n \in Nodes, HandoffAccepted(n) PROVE PhaseKept
    <3>1. /\ Cand(n) # None /\ Cand(n).phase \in {"verified", "standby"}
          /\ physical' = [physical EXCEPT ![n] = begin_handoff(physical[n], op[n].req.barrier)]
      BY <2>3 DEF HandoffAccepted, begin_handoff_ok, Cand
    <3>2. Cand(n) \in CandidateRecords /\ physical[n] \in CandidateJournals
      BY <3>1, RecordTypes
    <3>3. Cand(n)'.phase = "prepared" /\ physical'[Peer(n)] = physical[Peer(n)]
      BY <3>1, <3>2 DEF begin_handoff, Update, Cand, StateType, JournalType, CandidateJournals, CandidateRecords
    <3> QED
      BY <3>1, <3>3, PhaseNumbers, PhaseMoves
  <2>4. ASSUME NEW n \in Nodes, NEW m \in msgs, accept_standby_bind(n, m) PROVE PhaseKept
    <3>1. CASE physical' = physical
      BY <2>1, <3>1
    <3>2. CASE /\ begin_standby_binding_ok(physical[n], m.gen, m.lsn)
               /\ physical' = [physical EXCEPT ![n] = begin_standby_binding(physical[n], m.lsn)]
      <4>1. Cand(n) # None /\ Cand(n).phase \in {"verified", "standby_binding"}
        BY <3>2 DEF begin_standby_binding_ok, Cand
      <4>2. Cand(n) \in CandidateRecords /\ physical[n] \in CandidateJournals
        BY <4>1, RecordTypes
      <4>3. Cand(n)'.phase = "standby_binding" /\ physical'[Peer(n)] = physical[Peer(n)]
        BY <3>2, <4>2 DEF begin_standby_binding, Update, Cand, StateType, JournalType, CandidateJournals,
                          CandidateRecords
      <4> QED
        BY <4>1, <4>3, PhaseNumbers, PhaseMoves
    <3> QED
      BY <2>4, <3>1, <3>2 DEF accept_standby_bind
  <2>5. ASSUME NEW n \in Nodes, NEW m \in msgs, accept_candidate(n, m) PROVE PhaseKept
    <3> DEFINE rec == CandidateRecord(m.gen, m.pred, bound[n], m.vm)
    <3>1. CASE physical' = physical
      BY <2>1, <3>1
    <3>2. CASE physical' = [physical EXCEPT ![n] = candidate_created(physical[n], rec)]
      <4>1. rec.gen = m.gen
        BY DEF CandidateRecord
      <4> HIDE DEF rec
      <4>2. /\ physical'[n] = candidate_created(physical[n], rec)
            /\ physical'[Peer(n)] = physical[Peer(n)]
        BY <3>2 DEF StateType, JournalType
      <4>3. CASE Cand(n) # None /\ Cand(n).gen = m.gen
        <5>1. Cand(n)' = Cand(n)
          BY <4>1, <4>2, <4>3 DEF candidate_created, Cand
        <5> QED
          BY <4>2, <5>1, PhaseMoves
      <4>4. CASE ~(Cand(n) # None /\ Cand(n).gen = m.gen)
        <5>1. Cand(n)' = rec
          BY <4>1, <4>2, <4>4 DEF candidate_created, Supersede, Cand
        <5> QED
          BY <4>1, <4>2, <4>4, <5>1, PhaseMoves
      <4> QED
        BY <4>3, <4>4
    <3> QED
      BY <2>5, <3>1, <3>2 DEF accept_candidate
  <2> QED
    BY <2>1, <2>2, <2>3, <2>4, <2>5, JournalWrites DEF WritesCandidate
<1> QED
  BY <1>1, HandoffInvariant, PTL DEF Spec, PhaseForward, PhaseKept

=============================================================================
