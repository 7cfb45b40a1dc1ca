------------------------ MODULE RegionalRolloutProofs ------------------------
(***************************************************************************)
(* Machine-checked proofs about the regional rollout, for any number of    *)
(* regions, replicas, ingresses and operations: the type invariant, that a *)
(* candidate VM is requested once, that a region is drained before it is   *)
(* rebuilt, that the serving budget is kept, what serves when an operation *)
(* has ended, and that a bake is observed.                                 *)
(*                                                                         *)
(* The inductive invariant says, for each phase, which endpoints of each   *)
(* region are active (DiscInv), what the writes still to do are (TodoInv), *)
(* and what the versions hold that an ingress may still come to route by   *)
(* (HistInv and the parts after it).                                       *)
(***************************************************************************)
EXTENDS RegionalRollout, FiniteSetTheorems, TLAPS

-----------------------------------------------------------------------------
(* The parts of the invariant *)

N      == Len(RegionOrder)
Ro(i)  == RegionOrder[i]
Reg(i) == {e \in Endpoints : e[2] = Ro(i)}
Act(e) == e \in disc.members /\ e \notin disc.draining
New(e) == e[1] = row.id

Building  == {"create_slot", "creating", "probe_candidates", "mark_old_draining"}
Withdrawn == {"exclude_region", "wait_drained", "restore_region"} \cup Building
Steady    == {"preflight", "bake", "verify", "passed"}
Forward   == Withdrawn \cup Steady \cup {"wait_restored"}
Back      == {"rollback_restore", "rollback_wait"}

RowType ==
    [id : 1 .. MaxOps, status : {"running", "blocked", "passed", "rolled_back"}, phase : Phases,
     region : 1 .. N + 1, slot : Nat, deadline : Nat \cup {None}, seen : Nat \cup {None},
     old : [Regions -> (SUBSET Endpoints) \cup {None}]]

StateType ==
    /\ row \in RowType
    /\ disc \in [members : SUBSET Endpoints, draining : SUBSET Endpoints, drains : SUBSET Regions]
    /\ history \in Seq(SUBSET Endpoints)
    /\ adopted \in [Ingress -> 1 .. Version]
    /\ request \in [Ingress -> Endpoints \cup {None}]
    /\ created \in [Endpoints -> Nat]
    /\ base \in SUBSET Endpoints
    /\ evidence \in [good : Nat, since : Nat]

\* The row is a cursor of the plan.
CursorInv ==
    /\ row.phase \in {"verify", "passed", "rolled_back"} => row.region = N + 1
    /\ row.phase \in Withdrawn \cup {"preflight", "wait_restored", "bake", "rollback_wait"} => Regional
    /\ row.phase = "create_slot" => row.slot <= Size[R]
    /\ row.phase = "creating" => row.slot < Size[R] /\ row.deadline = None /\ row.seen = None
    /\ row.phase = "bake" => row.deadline \in Nat
    /\ row.status = "passed" <=> row.phase = "passed"
    /\ row.status = "rolled_back" <=> row.phase = "rolled_back"

\* What is saved for a rollback is what served the region at admission.
OldInv ==
    \A i \in 1 .. N :
        LET saved == row.old[Ro(i)] IN
        /\ saved # None => saved = base \cap Reg(i)
        /\ row.phase \in Forward =>
              (saved # None <=> i < row.region \/ (i = row.region /\ row.phase # "preflight"))
        /\ row.phase = "rollback_wait" /\ i = row.region => saved # None

-----------------------------------------------------------------------------
(* Membership *)

Fresh(i)    == \A e \in Reg(i) : (Act(e) <=> e \in base) /\ (New(e) => e \notin disc.members)
Replaced(i) == \A e \in Reg(i) : Act(e) <=> New(e)
Restored(i) == \A e \in Reg(i) : Act(e) <=> e \in base

\* The first n candidates are there, and they are active.
Made(i, n) ==
    \A e \in Reg(i) :
        /\ New(e) /\ e[3] < n => Act(e)
        /\ New(e) /\ e[3] > n => e \notin disc.members
        /\ ~New(e) => (Act(e) <=> e \in base)
        /\ New(e) /\ e[3] = n /\ e \in disc.members => Act(e)

Current(i) ==
    /\ row.phase \in {"preflight", "exclude_region", "wait_drained"} => Fresh(i)
    /\ row.phase \in {"create_slot", "creating"} => Made(i, row.slot)
    /\ row.phase = "create_slot" =>
          \A e \in Reg(i) : New(e) /\ e[3] = row.slot => e \notin disc.members
    /\ row.phase \in {"probe_candidates", "mark_old_draining"} =>
          \A e \in Reg(i) : (New(e) => Act(e)) /\ (Act(e) => New(e) \/ e \in base)
    /\ row.phase = "probe_candidates" => \A e \in Reg(i) : e \in base => Act(e)
    /\ row.phase \in {"restore_region", "wait_restored", "bake"} => Replaced(i)

DrainsInv ==
    /\ row.phase \in Forward => \A i \in 1 .. N : Ro(i) \in disc.drains => i = row.region
    /\ row.phase \in {"wait_drained"} \cup Building => R \in disc.drains
    /\ row.phase \in Steady \cup {"wait_restored", "rolled_back"} => disc.drains = {}
    /\ row.phase \in Back => \A i \in 1 .. N :
          Ro(i) \in disc.drains =>
              row.old[Ro(i)] # None /\ (i > row.region \/ (i = row.region /\ row.phase # "rollback_wait"))

MemberInv ==
    /\ disc.draining \subseteq disc.members /\ base \subseteq disc.members
    /\ \A e \in disc.members : e[1] <= row.id
    /\ \A e \in base : e[1] < row.id
    /\ \A i \in 1 .. N : base \cap Reg(i) # {}

RegionInv ==
    \A i \in 1 .. N :
        /\ row.phase \in Forward =>
              /\ i < row.region => Replaced(i)
              /\ i > row.region => Fresh(i)
              /\ i = row.region => Current(i)
        /\ row.phase \in Back \cup {"rolled_back"} =>
              IF row.old[Ro(i)] = None \/ i < row.region \/ (i = row.region /\ row.phase = "rollback_wait")
              THEN Restored(i)
              ELSE \A e \in Reg(i) : Act(e) => New(e) \/ e \in base

DiscInv == DrainsInv /\ MemberInv /\ RegionInv

-----------------------------------------------------------------------------
(* The writes still to do *)

NextSlot  == Row(To("create_slot", row.slot + 1, None, None))
ToDrained == Row(To("wait_drained", 0, Drain, None))
ToCreating == Row(To("creating", row.slot, None, None))
ToBlocked  == Row([row EXCEPT !.status = "blocked"])
ToRestore == Row(To("restore_region", row.slot, None, None))
ToServe   == Row(To("wait_restored", row.slot, Drain, None))
ToBack    == Row(To("rollback_wait", 0, Drain, None))
Gone      == R \notin disc.drains

TodoExclude ==
    /\ row.phase = "exclude_region"
    /\ \/ todo = <<Each("exclude", {R}), ToDrained>>
       \/ todo = <<ToDrained>> /\ ~Gone

TodoCreate ==
    /\ row.phase = "create_slot" /\ row.slot < Size[R]
    /\ todo = <<ToCreating, Each("create", {Candidate}), Each("publish", {Candidate}), NextSlot>>

TodoCreating ==
    /\ row.phase = "creating"
    /\ \/ /\ todo = <<Each("create", {Candidate}), Each("publish", {Candidate}), NextSlot>>
          /\ Candidate \notin disc.members /\ created[Candidate] = 0
       \/ todo = <<Each("publish", {Candidate}), NextSlot>> /\ Candidate \notin disc.members
       \/ todo = <<NextSlot>> /\ Candidate \in disc.members
       \/ todo = <<ToBlocked>>

TodoMark ==
    /\ row.phase = "mark_old_draining"
    /\ \/ \E S \in SUBSET (base \cap Reg(row.region)) :
            /\ todo = <<Each("drain", S), ToRestore>>
            /\ \A e \in Reg(row.region) : Act(e) /\ ~New(e) => e \in S
       \/ todo = <<ToRestore>> /\ Replaced(row.region)

TodoRestore ==
    /\ row.phase = "restore_region"
    /\ \/ todo = <<Each("include", {R}), ToServe>>
       \/ todo = <<ToServe>> /\ Gone

\* P is what of the operation is still to be withdrawn.
Withdraw(P) == \A e \in Reg(row.region) : /\ e \in P => New(e) /\ e \in disc.members
                                          /\ Act(e) /\ New(e) => e \in P
TodoBack ==
    /\ row.phase = "rollback_restore" /\ Regional /\ row.old[R] # None
    /\ \/ \E S \in SUBSET (base \cap Reg(row.region)), P \in SUBSET Reg(row.region) :
            /\ todo = <<Each("activate", S), Each("drain", P), Each("include", {R}), ToBack>>
            /\ \A e \in base \cap Reg(row.region) : ~Act(e) => e \in S
            /\ Withdraw(P)
       \/ \E P \in SUBSET Reg(row.region) :
            /\ todo = <<Each("drain", P), Each("include", {R}), ToBack>>
            /\ \A e \in base \cap Reg(row.region) : Act(e)
            /\ Withdraw(P)
       \/ todo = <<Each("include", {R}), ToBack>> /\ Restored(row.region)
       \/ todo = <<ToBack>> /\ Restored(row.region) /\ Gone

TodoInv ==
    \/ todo = <<>>
    \/ /\ row.status = "running"
       /\ TodoExclude \/ TodoCreate \/ TodoCreating \/ TodoMark \/ TodoRestore \/ TodoBack

-----------------------------------------------------------------------------
(* Versions and ingresses *)

\* The versions that some ingress routes by or may come to, and the newest.
Live == {v \in 1 .. Version : v = Version \/ \E l \in Ingress : adopted[l] <= v}

HistInv ==
    /\ Version >= 1 /\ history[Version] = Serving(disc)
    /\ \A v \in 1 .. Version : history[v] \subseteq disc.members
    /\ row.phase = "creating" => \A v \in 1 .. Version : Candidate \notin history[v]
    /\ \A l \in Ingress : request[l] # None => \E v \in 1 .. Version : request[l] \in history[v]

Synced == \A l \in Ingress : adopted[l] = Version
SyncInv ==
    /\ row.phase \in Steady \cup {"rolled_back"} => Synced
    /\ row.phase = "exclude_region" /\ Gone => Synced
    /\ row.phase = "rollback_restore" /\ (\A i \in row.region .. N : row.old[Ro(i)] = None) => Synced

EmptyInv ==
    row.phase \in Building =>
        /\ \A v \in Live : \A e \in history[v] : e[2] # R
        /\ \A l \in Ingress : request[l] # None => request[l][2] # R

CreatedInv ==
    /\ \A e \in Endpoints : created[e] <= 1 /\ (e[1] > row.id => created[e] = 0)
    /\ row.phase \in Forward => \A i \in 1 .. N : \A e \in Reg(i) :
          /\ New(e)
          /\ \/ i > row.region
             \/ i = row.region /\ row.phase \in {"preflight", "exclude_region", "wait_drained"}
             \/ i = row.region /\ row.phase = "create_slot" /\ e[3] >= row.slot
             \/ i = row.region /\ row.phase = "creating" /\ e[3] > row.slot
          => created[e] = 0

\* The budget, outside of the region under replacement if there is one.
CapInv ==
    /\ Cardinality(base) >= Minimum
    /\ row.phase \in Steady \cup {"rolled_back"} => \A v \in Live : Cardinality(history[v]) >= Minimum
    /\ row.phase \in Withdrawn \cup {"wait_restored"} =>
          \A v \in Live : Cardinality({e \in history[v] : e[2] # R}) >= Minimum

\* A region is whole in S if S has all endpoints of the region of some operation.
Whole(S, i) == \E op \in 0 .. MaxOps : \A e \in Reg(i) : e[1] = op => e \in S

WholeInv ==
    /\ \A i \in 1 .. N : Whole(base, i)
    /\ row.phase \in Forward => \A v \in Live, i \in 1 .. N :
          i # row.region \/ row.phase \in Steady => Whole(history[v], i)
    /\ row.phase \in Back => \E k \in 1 .. N : \A i \in 1 .. N \ {k} :
          /\ Ro(i) \notin disc.drains
          /\ \/ \A e \in Reg(i) : New(e) => Act(e)
             \/ \A e \in Reg(i) : e \in base => Act(e)
          /\ \A v \in Live : Whole(history[v], i)

SeenInv ==
    row.phase = "bake" /\ row.status = "running" /\ row.seen # None /\ row.seen <= Gap =>
        /\ evidence.since = row.seen
        /\ evidence.good + evidence.since + row.deadline >= Bake

RolloutInv ==
    /\ StateType /\ CursorInv /\ OldInv /\ DiscInv /\ TodoInv /\ HistInv /\ SyncInv /\ EmptyInv
    /\ CreatedInv /\ CapInv /\ WholeInv /\ SeenInv

\* What served elsewhere serves on, in every version.
AwayInv ==
    \A e \in Endpoints : e[2] \in Elsewhere => e \in base /\ \A v \in 1 .. Version : e \in history[v]

ServiceInv == RolloutInv /\ AwayInv

-----------------------------------------------------------------------------
(* Regions and endpoints *)

\* What the assumption says of the constants.
LEMMA Constants ==
    /\ N \in Nat /\ N >= 2 /\ DOMAIN RegionOrder = 1 .. N
    /\ \A i \in 1 .. N : Ro(i) \in Regions
    /\ \A i, j \in 1 .. N : Ro(i) = Ro(j) => i = j
    /\ \A r \in Regions : \E i \in 1 .. N : Ro(i) = r
    /\ \A r \in Regions : Size[r] \in Nat /\ Size[r] > 0 /\ Was[r] \in Nat /\ Was[r] > 0
    /\ \A r \in Elsewhere : Was[r] \in Nat /\ r \notin Regions
    /\ Minimum \in Nat /\ Drain \in Nat /\ Bake \in Nat /\ Gap \in Nat /\ MaxOps \in Nat
    /\ Drain > 0 /\ Bake > 0 /\ MaxOps > 0
    /\ None \notin Nat /\ None \notin Endpoints /\ \A S \in SUBSET Endpoints : None # S
<1>1. /\ RegionOrder \in Seq(Regions) /\ IsInjective(RegionOrder)
      /\ Was \in [Regions \cup Elsewhere -> Nat \ {0}] /\ Size \in [Regions -> Nat \ {0}]
      /\ Regions \cap Elsewhere = {}
      /\ {Minimum, Drain, Bake, Gap, MaxOps} \subseteq Nat /\ MaxOps > 0
      /\ None \notin Nat \cup Endpoints /\ \A S \in SUBSET Endpoints : None # S
  BY RolloutAssumption
<1>2. Len(RegionOrder) >= 2 /\ Drain > 0 /\ Bake > 0
  BY RolloutAssumption DEF validate_policy
<1>3. N \in Nat /\ DOMAIN RegionOrder = 1 .. N /\ \A i \in 1 .. N : Ro(i) \in Regions
  BY <1>1 DEF N, Ro
<1>4. \A i, j \in 1 .. N : Ro(i) = Ro(j) => i = j
  BY <1>1, <1>3 DEF Ro, IsInjective
<1>5. \A r \in Regions : \E i \in 1 .. N : Ro(i) = r
  BY <1>3 DEF Regions, ToSet, Ro
<1>6. /\ \A r \in Regions : Size[r] \in Nat /\ Size[r] > 0 /\ Was[r] \in Nat /\ Was[r] > 0
      /\ \A r \in Elsewhere : Was[r] \in Nat /\ r \notin Regions
  BY <1>1
<1>7. Minimum \in Nat /\ Drain \in Nat /\ Bake \in Nat /\ Gap \in Nat /\ MaxOps \in Nat
  BY <1>1
<1> QED
  BY <1>1, <1>2, <1>3, <1>4, <1>5, <1>6, <1>7 DEF N

\* The endpoints of an operation in a region, by their parts.
LEMMA EndpointParts ==
    /\ \A e \in Endpoints : /\ e[1] \in 0 .. MaxOps /\ e[2] \in Regions \cup Elsewhere /\ e[3] \in Nat
                            /\ e = <<e[1], e[2], e[3]>>
                            /\ e[1] # 0 => e[2] \in Regions /\ e[3] < Size[e[2]]
    /\ \A op \in 1 .. MaxOps, r \in Regions : \A i \in 0 .. Size[r] - 1 :
          /\ <<op, r, i>> \in Endpoints
          /\ <<op, r, i>>[1] = op /\ <<op, r, i>>[2] = r /\ <<op, r, i>>[3] = i
    /\ \A op \in 1 .. MaxOps, r \in Regions : \A e :
          e \in Slots(op, r) <=> e \in Endpoints /\ e[1] = op /\ e[2] = r
    /\ \A e : e \in Baseline <=> e \in Endpoints /\ e[1] = 0
    /\ \A r \in Regions \cup Elsewhere : \A i \in 0 .. Was[r] - 1 : <<0, r, i>> \in Baseline
<1>1. ASSUME NEW e \in Baseline
      PROVE  /\ e[1] = 0 /\ e[2] \in Regions \cup Elsewhere /\ e[3] \in Nat /\ e = <<e[1], e[2], e[3]>>
  <2>1. PICK r \in Regions \cup Elsewhere : e \in {<<0, r, i>> : i \in 0 .. Was[r] - 1}
    BY DEF Baseline
  <2>2. PICK i \in 0 .. Was[r] - 1 : e = <<0, r, i>>
    BY <2>1
  <2> QED
    BY <2>2, Constants
<1>2. ASSUME NEW op \in 1 .. MaxOps, NEW r \in Regions, NEW e \in Slots(op, r)
      PROVE  /\ e[1] = op /\ e[2] = r /\ e[3] \in 0 .. Size[r] - 1 /\ e = <<e[1], e[2], e[3]>>
  <2>1. PICK i \in 0 .. Size[r] - 1 : e = <<op, r, i>>
    BY DEF Slots
  <2> QED
    BY <2>1
<1>3. \A op \in 1 .. MaxOps, r \in Regions : Slots(op, r) \subseteq Endpoints
  BY DEF Endpoints
<1>4. \A e \in Endpoints : e \in Baseline \/ \E op \in 1 .. MaxOps, r \in Regions : e \in Slots(op, r)
  BY DEF Endpoints
<1>5. \A e \in Endpoints : /\ e[1] \in 0 .. MaxOps /\ e[2] \in Regions \cup Elsewhere /\ e[3] \in Nat
                           /\ e = <<e[1], e[2], e[3]>>
                           /\ e[1] # 0 => e[2] \in Regions /\ e[3] < Size[e[2]]
  <2> SUFFICES ASSUME NEW e \in Endpoints
               PROVE  /\ e[1] \in 0 .. MaxOps /\ e[2] \in Regions \cup Elsewhere /\ e[3] \in Nat
                      /\ e = <<e[1], e[2], e[3]>>
                      /\ e[1] # 0 => e[2] \in Regions /\ e[3] < Size[e[2]]
    OBVIOUS
  <2>1. CASE e \in Baseline
    BY <2>1, <1>1, Constants
  <2>2. ASSUME NEW op \in 1 .. MaxOps, NEW r \in Regions, e \in Slots(op, r)
        PROVE  /\ e[1] \in 0 .. MaxOps /\ e[2] \in Regions \cup Elsewhere /\ e[3] \in Nat
               /\ e = <<e[1], e[2], e[3]>>
               /\ e[1] # 0 => e[2] \in Regions /\ e[3] < Size[e[2]]
    BY <2>2, <1>2, Constants
  <2> QED
    BY <2>1, <2>2, <1>4
<1>6. \A op \in 1 .. MaxOps, r \in Regions : \A i \in 0 .. Size[r] - 1 :
          /\ <<op, r, i>> \in Slots(op, r)
          /\ <<op, r, i>>[1] = op /\ <<op, r, i>>[2] = r /\ <<op, r, i>>[3] = i
  BY DEF Slots
<1>7. \A op \in 1 .. MaxOps, r \in Regions : \A e :
          e \in Slots(op, r) <=> e \in Endpoints /\ e[1] = op /\ e[2] = r
  <2> SUFFICES ASSUME NEW op \in 1 .. MaxOps, NEW r \in Regions, NEW e \in Endpoints,
                      e[1] = op, e[2] = r
               PROVE  e \in Slots(op, r)
    BY <1>2, <1>3
  <2>1. e \notin Baseline
    BY <1>1
  <2>2. PICK q \in 1 .. MaxOps, s \in Regions : e \in Slots(q, s)
    BY <2>1, <1>4
  <2> QED
    BY <2>2, <1>2
<1>8. \A e : e \in Baseline <=> e \in Endpoints /\ e[1] = 0
  <2>1. Baseline \subseteq Endpoints
    BY DEF Endpoints
  <2> QED
    BY <2>1, <1>1, <1>2, <1>4
<1>9. \A r \in Regions \cup Elsewhere : \A i \in 0 .. Was[r] - 1 : <<0, r, i>> \in Baseline
  BY DEF Baseline
<1> QED
  BY <1>3, <1>5, <1>6, <1>7, <1>8, <1>9

Triples(op, r, n) == {<<op, r, i>> : i \in 0 .. n - 1}

\* There are finitely many endpoints.
LEMMA EndpointsFinite == IsFiniteSet(Endpoints)
<1>1. IsFiniteSet(Regions)
  <2>1. RegionOrder \in Surjection(1 .. N, Regions)
    BY Constants, RolloutAssumption DEF Surjection, Ro, N
  <2>2. N \in Int /\ 1 \in Int
    BY Constants
  <2>3. IsFiniteSet(1 .. N)
    BY <2>2, FS_Interval
  <2> QED
    BY <2>1, <2>3, FS_Surjection
<1>2. ASSUME NEW op, NEW r, NEW n \in Nat
      PROVE  IsFiniteSet(Triples(op, r, n))
  <2> DEFINE f == [i \in 0 .. n - 1 |-> <<op, r, i>>]
  <2>1. f \in Surjection(0 .. n - 1, Triples(op, r, n))
    BY DEF Surjection, Triples
  <2>2. IsFiniteSet(0 .. n - 1)
    BY FS_Interval
  <2> QED
    BY <2>1, <2>2, FS_Surjection
<1>3. IsFiniteSet(Baseline)
  <2> DEFINE A == Regions \cup Elsewhere
             g == [r \in A |-> {<<0, r, i>> : i \in 0 .. Was[r] - 1}]
             T == {{<<0, r, i>> : i \in 0 .. Was[r] - 1} : r \in A}
  <2>1. g \in Surjection(A, T)
    BY DEF Surjection
  <2>4. IsFiniteSet(A)
    BY <1>1, RolloutAssumption, FS_Union
  <2>2. IsFiniteSet(T)
    BY <2>1, <2>4, FS_Surjection
  <2>3. ASSUME NEW S \in T PROVE IsFiniteSet(S)
    <3>1. PICK r \in A : S = Triples(0, r, Was[r])
      BY DEF Triples
    <3> QED
      BY <1>2, <3>1, Constants
  <2> QED
    BY <2>2, <2>3, FS_UNION DEF Baseline
<1>4. IsFiniteSet(UNION {Slots(op, r) : op \in 1 .. MaxOps, r \in Regions})
  <2> DEFINE D == (1 .. MaxOps) \X Regions
             T == {Slots(op, r) : op \in 1 .. MaxOps, r \in Regions}
             g == [x \in D |-> Slots(x[1], x[2])]
  <2>1. IsFiniteSet(D)
    <3>1. IsFiniteSet(1 .. MaxOps)
      BY FS_Interval, Constants
    <3> QED
      BY <1>1, <3>1, FS_Product
  <2>2. g \in Surjection(D, T)
    <3>1. \A x \in D : g[x] \in T
      OBVIOUS
    <3>2. ASSUME NEW t \in T PROVE \E x \in D : g[x] = t
      <4>1. PICK op \in 1 .. MaxOps, r \in Regions : t = Slots(op, r)
        OBVIOUS
      <4>2. <<op, r>> \in D /\ g[<<op, r>>] = t
        BY <4>1
      <4> QED
        BY <4>2
    <3>3. g \in [D -> T]
      BY <3>1
    <3> QED
      BY <3>2, <3>3 DEF Surjection
  <2>3. IsFiniteSet(T)
    BY <2>1, <2>2, FS_Surjection
  <2>4. ASSUME NEW S \in T PROVE IsFiniteSet(S)
    <3>1. PICK op \in 1 .. MaxOps, r \in Regions : S = Triples(op, r, Size[r])
      BY DEF Slots, Triples
    <3> QED
      BY <1>2, <3>1, Constants
  <2> QED
    BY <2>3, <2>4, FS_UNION
<1> DEFINE U == UNION {Slots(op, r) : op \in 1 .. MaxOps, r \in Regions}
<1>5. Endpoints = Baseline \cup U /\ IsFiniteSet(U)
  BY <1>4 DEF Endpoints
<1> HIDE DEF U
<1> QED
  BY <1>3, <1>5, FS_Union

\* Subsets of the endpoints can be compared by their sizes.
LEMMA Counted ==
    ASSUME NEW S \in SUBSET Endpoints, NEW T \in SUBSET S
    PROVE  IsFiniteSet(S) /\ Cardinality(S) \in Nat /\ Cardinality(T) \in Nat
           /\ Cardinality(T) <= Cardinality(S)
  BY EndpointsFinite, FS_Subset, FS_CardinalityType

\* If S has, in every region but q, as many endpoints of one operation as are
\* counted there, then it has as many endpoints as are counted outside of q.
LEMMA CountOutside ==
    ASSUME NEW S \in SUBSET Endpoints, NEW q, NEW A, NEW counts \in [A -> Nat],
           \A r \in A \ {q} : \E op \in 0 .. MaxOps :
               \A i \in 0 .. counts[r] - 1 : <<op, r, i>> \in S
    PROVE  /\ Cardinality({x \in Replicas(counts) : x[1] # q}) \in Nat
           /\ Cardinality({x \in Replicas(counts) : x[1] # q}) <= Cardinality(S)
<1> DEFINE T == {x \in Replicas(counts) : x[1] # q}
           op(r) == CHOOSE o \in 0 .. MaxOps : \A i \in 0 .. counts[r] - 1 : <<o, r, i>> \in S
           f == [x \in T |-> <<op(x[1]), x[1], x[2]>>]
<1>1. ASSUME NEW x \in T
      PROVE  x = <<x[1], x[2]>> /\ <<op(x[1]), x[1], x[2]>> \in S
  <2>1. PICK r \in A : x \in {r} \X (0 .. counts[r] - 1)
    BY DEF Replicas
  <2>2. x[1] = r /\ x[2] \in 0 .. counts[r] - 1 /\ x = <<x[1], x[2]>> /\ r \in A \ {q}
    BY <2>1
  <2>3. \A i \in 0 .. counts[r] - 1 : <<op(r), r, i>> \in S
    BY <2>2
  <2> HIDE DEF op
  <2> QED
    BY <2>2, <2>3
<1> HIDE DEF op, T
<1>2. f \in [T -> S]
  BY <1>1
<1>3. \A x, y \in T : f[x] = f[y] => x = y
  <2> SUFFICES ASSUME NEW x \in T, NEW y \in T, f[x] = f[y]
               PROVE  x = y
    OBVIOUS
  <2>1. x[1] = y[1] /\ x[2] = y[2]
    OBVIOUS
  <2> QED
    BY <2>1, <1>1
<1>4. f \in Injection(T, S)
  BY <1>2, <1>3 DEF Injection, IsInjective
<1>5. IsFiniteSet(S)
  BY EndpointsFinite, FS_Subset
<1> QED
  BY <1>4, <1>5, FS_Injection, FS_CardinalityType DEF T

\* The baseline meets the budget.
LEMMA BaselineBudget == Cardinality(Baseline) >= Minimum
<1>1. Was \in [Regions \cup Elsewhere -> Nat]
  BY RolloutAssumption
<1>2. Baseline \in SUBSET Endpoints /\ 0 \in 0 .. MaxOps
  BY EndpointParts, Constants
<1>3. /\ Cardinality({x \in Replicas(Was) : x[1] # Ro(1)}) \in Nat
      /\ Cardinality({x \in Replicas(Was) : x[1] # Ro(1)}) <= Cardinality(Baseline)
  BY <1>1, <1>2, EndpointParts, CountOutside
<1>4. validate_policy(Was)
  BY RolloutAssumption
<1>5. Ro(1) \in Regions
  BY Constants
<1>6. Cardinality({x \in Replicas(Was) : x[1] # Ro(1)}) >= Minimum
  BY <1>4, <1>5 DEF validate_policy
<1>7. Cardinality(Baseline) \in Nat
  BY <1>2, Counted
<1> QED
  BY <1>3, <1>6, <1>7, Constants

\* Where any mixture of old and new regions meets the budget, it is met by whatever
\* is whole in all regions but one.
LEMMA WholeBudget ==
    ASSUME MixedBudget, NEW S \in SUBSET Endpoints, NEW k \in 1 .. N,
           \A i \in 1 .. N \ {k} : Whole(S, i),
           \A e \in Endpoints : e[2] \in Elsewhere => e \in S
    PROVE  Cardinality(S) >= Minimum
<1> DEFINE A == Regions \cup Elsewhere
           counts == [r \in A |-> IF r \in Regions THEN Min({Was[r], Size[r]}) ELSE Was[r]]
<1>1. \A r \in Regions : counts[r] \in Nat /\ counts[r] <= Was[r] /\ counts[r] <= Size[r]
  <2> SUFFICES ASSUME NEW r \in Regions
               PROVE  counts[r] \in Nat /\ counts[r] <= Was[r] /\ counts[r] <= Size[r]
    OBVIOUS
  <2>1. Was[r] \in Nat /\ Size[r] \in Nat
    BY Constants
  <2>2. \E x \in {Was[r], Size[r]} : \A y \in {Was[r], Size[r]} : x <= y
    BY <2>1
  <2>3. Min({Was[r], Size[r]}) \in {Was[r], Size[r]}
        /\ \A y \in {Was[r], Size[r]} : Min({Was[r], Size[r]}) <= y
    BY <2>2 DEF Min
  <2> QED
    BY <2>1, <2>3
<1>9. \A r \in Elsewhere : counts[r] = Was[r] /\ counts[r] \in Nat
  BY Constants
<1>10. \A r \in Elsewhere : \E op \in 0 .. MaxOps :
          \A i \in 0 .. counts[r] - 1 : <<op, r, i>> \in S
  <2> SUFFICES ASSUME NEW r \in Elsewhere
               PROVE  \A i \in 0 .. Was[r] - 1 : <<0, r, i>> \in S
    BY <1>9, Constants
  <2>1. \A i \in 0 .. Was[r] - 1 : <<0, r, i>> \in Endpoints /\ <<0, r, i>>[2] = r
    BY EndpointParts
  <2> QED
    BY <2>1
<1>2. \A r \in Regions \ {Ro(k)} : \E op \in 0 .. MaxOps :
          \A i \in 0 .. counts[r] - 1 : <<op, r, i>> \in S
  <2> SUFFICES ASSUME NEW r \in Regions \ {Ro(k)}
               PROVE  \E op \in 0 .. MaxOps : \A i \in 0 .. counts[r] - 1 : <<op, r, i>> \in S
    OBVIOUS
  <2>1. PICK j \in 1 .. N \ {k} : Ro(j) = r
    BY Constants
  <2>2. PICK op \in 0 .. MaxOps : \A e \in Reg(j) : e[1] = op => e \in S
    BY DEF Whole
  <2>3. ASSUME NEW i \in 0 .. counts[r] - 1
        PROVE  <<op, r, i>> \in S
    <3>1. counts[r] \in Nat /\ counts[r] <= Was[r] /\ counts[r] <= Size[r]
          /\ Was[r] \in Nat /\ Size[r] \in Nat
      BY <1>1, Constants
    <3> HIDE DEF counts
    <3>2. CASE op = 0
      BY <2>1, <2>2, <3>1, <3>2, EndpointParts DEF Reg
    <3>3. CASE op # 0
      <4>1. op \in 1 .. MaxOps /\ i \in 0 .. Size[r] - 1
        BY <3>1, <3>3, Constants
      <4> QED
        BY <2>1, <2>2, <4>1, EndpointParts DEF Reg
    <3> QED
      BY <3>2, <3>3
  <2> QED
    BY <2>3
<1>3. counts \in [A -> Nat]
  <2>1. \A r \in A : counts[r] \in Nat
    BY <1>1, <1>9
  <2> QED
    BY <2>1
<1>4. validate_policy(counts)
  BY DEF MixedBudget
<1> HIDE DEF counts
<1>11. \A r \in A \ {Ro(k)} : \E op \in 0 .. MaxOps :
          \A i \in 0 .. counts[r] - 1 : <<op, r, i>> \in S
  BY <1>2, <1>10
<1>5. Ro(k) \in Regions
  BY Constants
<1>6. Cardinality({x \in Replicas(counts) : x[1] # Ro(k)}) >= Minimum
  BY <1>4, <1>5 DEF validate_policy
<1>7. /\ Cardinality({x \in Replicas(counts) : x[1] # Ro(k)}) \in Nat
      /\ Cardinality({x \in Replicas(counts) : x[1] # Ro(k)}) <= Cardinality(S)
  BY <1>3, <1>11, CountOutside
<1>8. Cardinality(S) \in Nat
  BY Counted
<1> QED
  BY <1>6, <1>7, <1>8, Constants

-----------------------------------------------------------------------------
(* Rows *)

\* update_full leaves the operation, the status, the region and what is saved.
LEMMA ToFields ==
    ASSUME row \in RowType, NEW p \in Phases, NEW s \in Nat, NEW d \in Nat \cup {None},
           NEW o \in Nat \cup {None}
    PROVE  /\ To(p, s, d, o) \in RowType
           /\ To(p, s, d, o).phase = p /\ To(p, s, d, o).slot = s
           /\ To(p, s, d, o).deadline = d /\ To(p, s, d, o).seen = o
           /\ To(p, s, d, o).id = row.id /\ To(p, s, d, o).status = row.status
           /\ To(p, s, d, o).region = row.region /\ To(p, s, d, o).old = row.old
<1> DEFINE a == [row EXCEPT !.phase = p]
           b == [a EXCEPT !.slot = s]
           c == [b EXCEPT !.deadline = d]
           t == [c EXCEPT !.seen = o]
<1>1. /\ a \in RowType /\ a.phase = p /\ a.slot = row.slot /\ a.deadline = row.deadline
      /\ a.seen = row.seen /\ a.id = row.id /\ a.status = row.status /\ a.region = row.region
      /\ a.old = row.old
  BY DEF RowType
<1> HIDE DEF a
<1>2. /\ b \in RowType /\ b.phase = p /\ b.slot = s /\ b.deadline = row.deadline
      /\ b.seen = row.seen /\ b.id = row.id /\ b.status = row.status /\ b.region = row.region
      /\ b.old = row.old
  BY <1>1 DEF RowType
<1> HIDE DEF b
<1>3. /\ c \in RowType /\ c.phase = p /\ c.slot = s /\ c.deadline = d
      /\ c.seen = row.seen /\ c.id = row.id /\ c.status = row.status /\ c.region = row.region
      /\ c.old = row.old
  BY <1>2 DEF RowType
<1> HIDE DEF c
<1>4. /\ t \in RowType /\ t.phase = p /\ t.slot = s /\ t.deadline = d
      /\ t.seen = o /\ t.id = row.id /\ t.status = row.status /\ t.region = row.region
      /\ t.old = row.old
  BY <1>3 DEF RowType
<1>5. t = To(p, s, d, o)
  BY DEF To, a, b, c, RowType
<1> QED
  BY <1>4, <1>5

\* update_region sets the region too, and clears the slot and the times.
LEMMA ToRegionFields ==
    ASSUME row \in RowType, NEW p \in Phases, NEW n \in 1 .. N + 1
    PROVE  /\ ToRegion(p, n) \in RowType
           /\ ToRegion(p, n).phase = p /\ ToRegion(p, n).region = n /\ ToRegion(p, n).slot = 0
           /\ ToRegion(p, n).deadline = None /\ ToRegion(p, n).seen = None
           /\ ToRegion(p, n).id = row.id /\ ToRegion(p, n).status = row.status
           /\ ToRegion(p, n).old = row.old
<1>0. PICK z \in Nat, w \in Nat \cup {None} : z = 0 /\ w = None
  OBVIOUS
<1> DEFINE t == To(p, z, w, w)
<1>1. /\ t \in RowType /\ t.phase = p /\ t.slot = z /\ t.deadline = w /\ t.seen = w
      /\ t.id = row.id /\ t.status = row.status /\ t.old = row.old
  BY ToFields
<1> HIDE DEF t
<1>2. ToRegion(p, n) = [t EXCEPT !.region = n]
  BY <1>0 DEF ToRegion, t
<1> QED
  BY <1>0, <1>1, <1>2 DEF RowType

\* Rows are equal if all their fields are.
LEMMA SameRow ==
    ASSUME NEW x \in RowType, NEW y \in RowType,
           x.id = y.id, x.status = y.status, x.phase = y.phase, x.region = y.region,
           x.slot = y.slot, x.deadline = y.deadline, x.seen = y.seen, x.old = y.old
    PROVE  x = y
  BY DEF RowType

\* r is the row with another phase, slot, deadline and observation.
Moved(r, p, s, d, o) ==
    /\ r \in RowType /\ r.phase = p /\ r.slot = s /\ r.deadline = d /\ r.seen = o
    /\ r.id = row.id /\ r.status = row.status /\ r.region = row.region /\ r.old = row.old

\* The rows that the steps write.
LEMMA RowsWritten ==
    ASSUME row \in RowType
    PROVE  /\ \A p \in Phases : /\ Moved(To(p, 0, None, None), p, 0, None, None)
                                /\ Moved(To(p, 0, Drain, None), p, 0, Drain, None)
           /\ \A p \in Phases, s \in Nat : /\ Moved(To(p, s, None, None), p, s, None, None)
                                           /\ Moved(To(p, s, Drain, None), p, s, Drain, None)
                                           /\ Moved(To(p, s, Bake, 0), p, s, Bake, 0)
           /\ \A p \in Phases, s \in Nat, d \in Nat : Moved(To(p, s, d, 0), p, s, d, 0)
<1>0. PICK z \in Nat, w \in Nat \cup {None}, d \in Nat \cup {None}, b \in Nat \cup {None} :
           z = 0 /\ w = None /\ d = Drain /\ b = Bake
  BY Constants
<1>1. PICK o \in Nat \cup {None} : o = 0
  OBVIOUS
<1>2. \A p \in Phases : Moved(To(p, z, w, w), p, z, w, w) /\ Moved(To(p, z, d, w), p, z, d, w)
  BY ToFields DEF Moved
<1>3. \A p \in Phases, s \in Nat : /\ Moved(To(p, s, w, w), p, s, w, w)
                                   /\ Moved(To(p, s, d, w), p, s, d, w)
                                   /\ Moved(To(p, s, b, o), p, s, b, o)
  BY ToFields DEF Moved
<1>4. \A p \in Phases, s \in Nat, x \in Nat \cup {None} : Moved(To(p, s, x, o), p, s, x, o)
  BY ToFields DEF Moved
<1>5. \A p \in Phases, s \in Nat, x \in Nat : Moved(To(p, s, x, o), p, s, x, o)
  BY <1>4
<1> QED
  BY <1>0, <1>1, <1>2, <1>3, <1>5

-----------------------------------------------------------------------------
(* The steps of a tick, apart from what is still to do *)

Same == UNCHANGED <<disc, history, created>>

SaveOld ==
    /\ row.phase = "preflight" /\ probe_survivors
    /\ row' \in RowType /\ row'.phase = "exclude_region" /\ row'.slot = 0
    /\ row'.id = row.id /\ row'.status = row.status /\ row'.region = row.region
    /\ row'.old = [row.old EXCEPT ![R] = In(R) \cap Serving(disc)]
Exclude  == row.phase = "exclude_region" /\ ~Gone /\ Moved(row', "wait_drained", 0, Drain, None)
Drained  ==
    /\ row.phase = "wait_drained" /\ regional_observe(In(R))
    /\ Moved(row', "create_slot", 0, None, None)
Intend   ==
    /\ row.phase = "create_slot" /\ row.slot < Size[R]
    /\ Moved(row', "creating", row.slot, None, None)
SlotDone ==
    /\ row.phase = "creating" /\ Candidate \in disc.members
    /\ Moved(row', "create_slot", row.slot + 1, None, None)
AllDone  ==
    /\ row.phase = "create_slot" /\ row.slot = Size[R]
    /\ Moved(row', "probe_candidates", row.slot, None, None)
Probed   == row.phase = "probe_candidates" /\ Moved(row', "mark_old_draining", row.slot, None, None)
OldGone  ==
    /\ row.phase = "mark_old_draining" /\ Replaced(row.region)
    /\ Moved(row', "restore_region", row.slot, None, None)
Included ==
    /\ row.phase = "restore_region" /\ Gone
    /\ Moved(row', "wait_restored", row.slot, Drain, None)
Adopt    ==
    /\ row.phase = "wait_restored" /\ regional_observe({})
    /\ Moved(row', "bake", row.slot, Bake, 0)
BakeOn   ==
    /\ row.phase = "bake"
    /\ \/ (row.seen = None \/ row.seen > Gap) /\ Moved(row', "bake", row.slot, Bake, 0)
       \/ row.seen # None /\ row.seen <= Gap /\ Moved(row', "bake", row.slot, row.deadline, 0)
BakeDone ==
    /\ row.phase = "bake" /\ row.seen # None /\ row.seen <= Gap /\ row.deadline = 0
    /\ row' \in RowType /\ row'.region = row.region + 1 /\ row'.id = row.id
    /\ row'.status = row.status /\ row'.old = row.old
    /\ row'.phase = IF row.region = N THEN "verify" ELSE "preflight"
Pass     ==
    /\ row.phase = "verify" /\ regional_observe({})
    /\ row' \in RowType /\ row'.status = "passed" /\ row'.phase = "passed"
    /\ row'.region = row.region /\ row'.id = row.id /\ row'.old = row.old
SkipBack ==
    /\ row.phase = "rollback_restore" /\ Regional /\ row.old[R] = None
    /\ row' \in RowType /\ row'.region = row.region + 1 /\ row'.id = row.id
    /\ row'.status = row.status /\ row'.old = row.old /\ row'.phase = "rollback_restore"
WaitBack ==
    /\ row.phase = "rollback_restore" /\ Regional /\ row.old[R] # None /\ Restored(row.region) /\ Gone
    /\ Moved(row', "rollback_wait", 0, Drain, None)
NextBack ==
    /\ row.phase = "rollback_wait" /\ Synced
    /\ row' \in RowType /\ row'.region = row.region + 1 /\ row'.id = row.id
    /\ row'.status = row.status /\ row'.old = row.old /\ row'.phase = "rollback_restore"
BackDone ==
    /\ row.phase = "rollback_restore" /\ ~Regional
    /\ row' \in RowType /\ row'.status = "rolled_back" /\ row'.phase = "rolled_back"
    /\ row'.region = row.region /\ row'.id = row.id /\ row'.old = row.old

\* The steps in which the row moves on.
CursorStep ==
    /\ row.status = "running" /\ Same
    /\ \/ SaveOld \/ Exclude \/ Drained \/ Intend \/ SlotDone \/ AllDone \/ Probed \/ OldGone
       \/ Included \/ Adopt \/ BakeOn \/ BakeDone \/ Pass
       \/ SkipBack \/ WaitBack \/ NextBack \/ BackDone

BlockStep == row.status = "running" /\ row' = [row EXCEPT !.status = "blocked"] /\ Same
QuietStep == UNCHANGED <<row, disc, history, created>>

\* One call of service_discovery.
DiscStep ==
    /\ row.status = "running" /\ UNCHANGED <<row, created>>
    /\ \/ row.phase = "exclude_region" /\ Publish(set_region_draining(R, TRUE))
       \/ /\ row.phase = "creating" /\ Candidate \notin disc.members
          /\ Publish(publish_healthy_endpoint(Candidate))
       \/ /\ row.phase = "creating" /\ Candidate \in disc.members
          /\ Publish([disc EXCEPT !.members = @ \ {Candidate}])
       \/ /\ row.phase = "mark_old_draining"
          /\ \E e \in base \cap Reg(row.region) : Publish(mark_endpoint_draining(e))
       \/ row.phase = "restore_region" /\ Publish(set_region_draining(R, FALSE))
       \/ /\ row.phase = "rollback_restore" /\ Regional /\ row.old[R] # None
          /\ \/ \E e \in base \cap Reg(row.region) : Publish(mark_endpoint_active(e))
             \/ /\ \A e \in base \cap Reg(row.region) : Act(e)
                /\ \E e \in Reg(row.region) \cap disc.members :
                      New(e) /\ Publish(mark_endpoint_draining(e))
             \/ Restored(row.region) /\ Publish(set_region_draining(R, FALSE))

CreateStep ==
    /\ row.status = "running" /\ row.phase = "creating" /\ created[Candidate] = 0
    /\ created' = [created EXCEPT ![Candidate] = @ + 1]
    /\ UNCHANGED <<row, disc, history>>

\* What a row says stays while the row does.
LEMMA RowKept ==
    ASSUME row' = row
    PROVE  /\ R' = R /\ Candidate' = Candidate /\ Regional' = Regional
           /\ ToDrained' = ToDrained /\ ToCreating' = ToCreating /\ ToBlocked' = ToBlocked
           /\ NextSlot' = NextSlot /\ ToRestore' = ToRestore /\ ToServe' = ToServe /\ ToBack' = ToBack
           /\ \A e : New(e)' <=> New(e)
  BY DEF R, Candidate, Regional, ToDrained, ToCreating, ToBlocked, NextSlot, ToRestore, ToServe,
         ToBack, To, New

\* What membership says stays while it does.
LEMMA DiscKept ==
    ASSUME row' = row, disc' = disc, base' = base
    PROVE  /\ Gone' = Gone /\ \A e : Act(e)' <=> Act(e)
           /\ \A i : Replaced(i)' <=> Replaced(i)
           /\ \A i : Restored(i)' <=> Restored(i)
           /\ \A P : Withdraw(P)' <=> Withdraw(P)
<1>1. R' = R /\ \A e : New(e)' <=> New(e)
  BY RowKept
<1>2. Gone' = Gone /\ \A e : Act(e)' <=> Act(e)
  BY <1>1 DEF Gone, Act
<1> QED
  BY <1>1, <1>2 DEF Replaced, Restored, Withdraw

\* Where the row is in the plan, if it is in a region.
LEMMA InRegion ==
    ASSUME StateType, Regional
    PROVE  /\ row.region \in 1 .. N /\ R = Ro(row.region) /\ R \in Regions
           /\ Size[R] \in Nat /\ row.slot \in Nat /\ row.id \in 1 .. MaxOps
           /\ row.slot < Size[R] =>
                 /\ Candidate \in Endpoints /\ Candidate \in Reg(row.region) /\ New(Candidate)
                 /\ Candidate[3] = row.slot
                 /\ \A e \in Reg(row.region) : New(e) /\ e[3] = row.slot => e = Candidate
<1>1. row.region \in 1 .. N + 1 /\ row.slot \in Nat /\ row.id \in 1 .. MaxOps
  BY DEF StateType, RowType
<1>2. row.region \in 1 .. N /\ R = Ro(row.region)
  BY <1>1, Constants DEF Regional, R, Ro, N
<1>3. R \in Regions /\ Size[R] \in Nat
  BY <1>2, Constants
<1>4. ASSUME row.slot < Size[R]
      PROVE  /\ Candidate \in Endpoints /\ Candidate \in Reg(row.region) /\ New(Candidate)
             /\ Candidate[3] = row.slot
             /\ \A e \in Reg(row.region) : New(e) /\ e[3] = row.slot => e = Candidate
  <2>1. row.slot \in 0 .. Size[R] - 1
    BY <1>1, <1>3, <1>4
  <2>2. /\ <<row.id, R, row.slot>> \in Endpoints /\ <<row.id, R, row.slot>>[1] = row.id
        /\ <<row.id, R, row.slot>>[2] = R /\ <<row.id, R, row.slot>>[3] = row.slot
    BY <1>1, <1>3, <2>1, EndpointParts
  <2>3. \A e \in Endpoints : e = <<e[1], e[2], e[3]>>
    BY EndpointParts
  <2> QED
    BY <1>2, <2>2, <2>3 DEF Candidate, Reg, New
<1> QED
  BY <1>1, <1>2, <1>3, <1>4

-----------------------------------------------------------------------------
(* Every step of a tick is one of these, and leaves the right writes to do *)

\* A failed gate blocks.
LEMMA BlockMoves ==
    ASSUME row.status = "running", todo = <<>>, block
    PROVE  BlockStep /\ TodoInv'
  BY DEF block, Advance, BlockStep, Same, TodoInv

\* A phase that only moves the row leaves nothing to do.
LEMMA AdvanceMoves ==
    ASSUME row.status = "running", todo = <<>>, NEW r, Advance(r)
    PROVE  row' = r /\ Same /\ TodoInv'
  BY DEF Advance, Same, TodoInv

\* The phases up to the drain of a region.
LEMMA DrainMoves ==
    ASSUME RolloutInv, base' = base, Preflight \/ ExcludeRegion \/ WaitDrained
    PROVE  (CursorStep \/ BlockStep \/ QuietStep) /\ TodoInv'
<1> USE DEF Phases
<1>1. row \in RowType /\ row.status = "running" /\ todo = <<>> /\ Regional
  BY DEF RolloutInv, StateType, CursorInv, Withdrawn, Preflight, ExcludeRegion, WaitDrained, At
<1>2. R \in Regions
  BY <1>1, InRegion DEF RolloutInv
<1>3. ASSUME Preflight PROVE (CursorStep \/ BlockStep \/ QuietStep) /\ TodoInv'
  <2> DEFINE old == In(R) \cap Serving(disc)
             t == To("exclude_region", 0, None, None)
  <2>1. row.phase = "preflight"
    BY <1>3 DEF Preflight, At
  <2>2. CASE probe_survivors /\ Advance([t EXCEPT !.old[R] = old])
    <3>1. row' = [t EXCEPT !.old[R] = old] /\ Same /\ TodoInv'
      BY <1>1, <2>2, AdvanceMoves
    <3>2. Moved(t, "exclude_region", 0, None, None)
      BY <1>1, RowsWritten
    <3>3. old \in SUBSET Endpoints
      BY DEF Serving, In, RolloutInv, StateType
    <3> HIDE DEF t, old
    <3>4. row' = [t EXCEPT !.old = [t.old EXCEPT ![R] = old]]
      BY <3>1
    <3>5. [t.old EXCEPT ![R] = old] \in [Regions -> (SUBSET Endpoints) \cup {None}]
      BY <1>1, <1>2, <3>2, <3>3 DEF Moved, RowType
    <3>6. /\ row' \in RowType /\ row'.phase = "exclude_region" /\ row'.slot = 0
          /\ row'.id = row.id /\ row'.status = row.status /\ row'.region = row.region
          /\ row'.old = [row.old EXCEPT ![R] = old]
      BY <3>2, <3>4, <3>5 DEF Moved, RowType
    <3> QED
      BY <1>1, <2>1, <2>2, <3>1, <3>6 DEF CursorStep, SaveOld, old
  <2>3. CASE block
    BY <1>1, <2>3, BlockMoves
  <2> QED
    BY <1>3, <2>2, <2>3 DEF Preflight, Gate
<1>4. ASSUME ExcludeRegion PROVE (CursorStep \/ BlockStep \/ QuietStep) /\ TodoInv'
  <2>1. row.phase = "exclude_region"
    BY <1>4 DEF ExcludeRegion, At
  <2>2. CASE Begin(<<Each("exclude", {R}), Row(To("wait_drained", 0, Drain, None))>>)
    <3>1. todo' = <<Each("exclude", {R}), ToDrained>> /\ QuietStep /\ row' = row
      BY <2>2 DEF Begin, ToDrained, QuietStep
    <3> QED
      BY <1>1, <2>1, <3>1, RowKept DEF TodoInv, TodoExclude
  <2>3. CASE block
    BY <1>1, <2>3, BlockMoves
  <2> QED
    BY <1>4, <2>2, <2>3 DEF ExcludeRegion, Gate
<1>5. ASSUME WaitDrained PROVE (CursorStep \/ BlockStep \/ QuietStep) /\ TodoInv'
  <2>1. row.phase = "wait_drained"
    BY <1>5 DEF WaitDrained, At
  <2>2. CASE regional_observe(In(R)) /\ Advance(To("create_slot", 0, None, None))
    <3>1. row' = To("create_slot", 0, None, None) /\ Same /\ TodoInv'
      BY <1>1, <2>2, AdvanceMoves
    <3>2. Moved(row', "create_slot", 0, None, None)
      BY <1>1, <3>1, RowsWritten
    <3> QED
      BY <1>1, <2>1, <2>2, <3>1, <3>2 DEF CursorStep, Drained
  <2>3. CASE block
    BY <1>1, <2>3, BlockMoves
  <2> QED
    BY <1>5, <2>2, <2>3 DEF WaitDrained, Await
<1> QED
  BY <1>3, <1>4, <1>5

\* The phases that build a region.
LEMMA BuildMoves ==
    ASSUME RolloutInv, base' = base,
           CreateSlot \/ Creating \/ ProbeCandidates \/ MarkOldDraining \/ RestoreRegion
    PROVE  (CursorStep \/ BlockStep \/ QuietStep) /\ TodoInv'
<1> USE DEF Phases
<1>1. row \in RowType /\ row.status = "running" /\ todo = <<>> /\ Regional
  BY DEF RolloutInv, StateType, CursorInv, Withdrawn, Building, CreateSlot, Creating,
         ProbeCandidates, MarkOldDraining, RestoreRegion, At
<1>2. /\ row.region \in 1 .. N /\ R = Ro(row.region) /\ Size[R] \in Nat /\ row.slot \in Nat
  BY <1>1, InRegion DEF RolloutInv
<1>3. ASSUME CreateSlot PROVE (CursorStep \/ BlockStep \/ QuietStep) /\ TodoInv'
  <2>1. row.phase = "create_slot" /\ row.slot <= Size[R]
    BY <1>3 DEF CreateSlot, At, RolloutInv, CursorInv
  <2>2. CASE row.slot = Size[R] /\ Advance(To("probe_candidates", row.slot, None, None))
    <3>1. row' = To("probe_candidates", row.slot, None, None) /\ Same /\ TodoInv'
      BY <1>1, <2>2, AdvanceMoves
    <3>2. Moved(row', "probe_candidates", row.slot, None, None)
      BY <1>1, <1>2, <3>1, RowsWritten
    <3> QED
      BY <1>1, <2>1, <2>2, <3>1, <3>2 DEF CursorStep, AllDone
  <2>3. CASE row.slot # Size[R] /\ Begin(<<Row(To("creating", row.slot, None, None)),
                         Each("create", {Candidate}), Each("publish", {Candidate}),
                         Row(To("create_slot", row.slot + 1, None, None))>>)
    <3>1. /\ todo' = <<ToCreating, Each("create", {Candidate}), Each("publish", {Candidate}), NextSlot>>
          /\ QuietStep /\ row' = row /\ row.slot < Size[R]
      BY <1>2, <2>1, <2>3 DEF Begin, ToCreating, NextSlot, QuietStep
    <3> QED
      BY <1>1, <2>1, <3>1, RowKept DEF TodoInv, TodoCreate
  <2>4. CASE block
    BY <1>1, <2>4, BlockMoves
  <2> QED
    BY <1>3, <2>2, <2>3, <2>4 DEF CreateSlot, Gate
<1>4. ASSUME Creating PROVE (CursorStep \/ BlockStep \/ QuietStep) /\ TodoInv'
  <2>1. row.phase = "creating"
    BY <1>4 DEF Creating, At
  <2>2. CASE Candidate \in disc.members /\ Advance(To("create_slot", row.slot + 1, None, None))
    <3>1. row' = To("create_slot", row.slot + 1, None, None) /\ Same /\ TodoInv'
      BY <1>1, <2>2, AdvanceMoves
    <3>2. Moved(row', "create_slot", row.slot + 1, None, None)
      BY <1>1, <1>2, <3>1, RowsWritten
    <3> QED
      BY <1>1, <2>1, <2>2, <3>1, <3>2 DEF CursorStep, SlotDone
  <2>3. CASE block
    BY <1>1, <2>3, BlockMoves
  <2> QED
    BY <1>4, <2>2, <2>3 DEF Creating, Gate
<1>5. ASSUME ProbeCandidates PROVE (CursorStep \/ BlockStep \/ QuietStep) /\ TodoInv'
  <2>1. row.phase = "probe_candidates"
    BY <1>5 DEF ProbeCandidates, At
  <2>2. CASE Advance(To("mark_old_draining", row.slot, None, None))
    <3>1. row' = To("mark_old_draining", row.slot, None, None) /\ Same /\ TodoInv'
      BY <1>1, <2>2, AdvanceMoves
    <3>2. Moved(row', "mark_old_draining", row.slot, None, None)
      BY <1>1, <1>2, <3>1, RowsWritten
    <3> QED
      BY <1>1, <2>1, <3>1, <3>2 DEF CursorStep, Probed
  <2>3. CASE block
    BY <1>1, <2>3, BlockMoves
  <2> QED
    BY <1>5, <2>2, <2>3 DEF ProbeCandidates, Gate
<1>6. ASSUME MarkOldDraining PROVE (CursorStep \/ BlockStep \/ QuietStep) /\ TodoInv'
  <2>1. row.phase = "mark_old_draining"
    BY <1>6 DEF MarkOldDraining, At
  <2>2. row.old[R] = base \cap Reg(row.region)
    BY <1>2, <2>1 DEF RolloutInv, OldInv, Forward, Withdrawn, Building
  <2>3. \A e \in Reg(row.region) : Act(e) /\ ~New(e) => e \in base \cap Reg(row.region)
    BY <1>2, <2>1 DEF RolloutInv, DiscInv, RegionInv, Current, Forward, Withdrawn, Building
  <2>4. todo' = <<Each("drain", base \cap Reg(row.region)), ToRestore>> /\ QuietStep /\ row' = row
        /\ disc' = disc
    BY <1>6, <2>2 DEF MarkOldDraining, Begin, ToRestore, QuietStep
  <2>5. base \cap Reg(row.region) \in SUBSET (base \cap Reg(row.region))
    OBVIOUS
  <2>6. TodoMark'
    BY <2>1, <2>3, <2>4, <2>5, RowKept, DiscKept DEF TodoMark
  <2> QED
    BY <1>1, <2>4, <2>6 DEF TodoInv
<1>7. ASSUME RestoreRegion PROVE (CursorStep \/ BlockStep \/ QuietStep) /\ TodoInv'
  <2>1. row.phase = "restore_region"
    BY <1>7 DEF RestoreRegion, At
  <2>2. CASE Begin(<<Each("include", {R}), Row(To("wait_restored", row.slot, Drain, None))>>)
    <3>1. todo' = <<Each("include", {R}), ToServe>> /\ QuietStep /\ row' = row
      BY <2>2 DEF Begin, ToServe, QuietStep
    <3> QED
      BY <1>1, <2>1, <3>1, RowKept DEF TodoInv, TodoRestore
  <2>3. CASE block
    BY <1>1, <2>3, BlockMoves
  <2> QED
    BY <1>7, <2>2, <2>3 DEF RestoreRegion, Gate
<1> QED
  BY <1>3, <1>4, <1>5, <1>6, <1>7

\* The phases that put a region into service.
LEMMA ServeMoves ==
    ASSUME RolloutInv, base' = base, WaitRestored \/ BakeTick \/ Verify
    PROVE  (CursorStep \/ BlockStep) /\ TodoInv'
<1> USE DEF Phases
<1>1. row \in RowType /\ row.status = "running" /\ todo = <<>> /\ row.slot \in Nat
  BY DEF RolloutInv, StateType, RowType, WaitRestored, BakeTick, Verify, At
<1>2. ASSUME WaitRestored PROVE (CursorStep \/ BlockStep) /\ TodoInv'
  <2>1. row.phase = "wait_restored"
    BY <1>2 DEF WaitRestored, At
  <2>2. CASE regional_observe({}) /\ Advance(To("bake", row.slot, Bake, 0))
    <3>1. row' = To("bake", row.slot, Bake, 0) /\ Same /\ TodoInv'
      BY <1>1, <2>2, AdvanceMoves
    <3>2. Moved(row', "bake", row.slot, Bake, 0)
      BY <1>1, <3>1, RowsWritten
    <3> QED
      BY <1>1, <2>1, <2>2, <3>1, <3>2 DEF CursorStep, Adopt
  <2>3. CASE block
    BY <1>1, <2>3, BlockMoves
  <2> QED
    BY <1>2, <2>2, <2>3 DEF WaitRestored, Await
<1>3. ASSUME BakeTick PROVE (CursorStep \/ BlockStep) /\ TodoInv'
  <2>1. /\ row.phase = "bake" /\ row.deadline \in Nat /\ row.region \in 1 .. N
        /\ row.seen \in Nat \cup {None}
    <3>1. row.phase = "bake"
      BY <1>3 DEF BakeTick, At
    <3> QED
      BY <1>1, <3>1, InRegion DEF RolloutInv, CursorInv, RowType
  <2> DEFINE interrupted == row.seen = None \/ row.seen > Gap
             p == IF row.region = Len(RegionOrder) THEN "verify" ELSE "preflight"
  <2>2. CASE interrupted /\ Advance(To("bake", row.slot, Bake, 0))
    <3>1. row' = To("bake", row.slot, Bake, 0) /\ Same /\ TodoInv'
      BY <1>1, <2>2, AdvanceMoves
    <3>2. Moved(row', "bake", row.slot, Bake, 0)
      BY <1>1, <3>1, RowsWritten
    <3> QED
      BY <1>1, <2>1, <2>2, <3>1, <3>2 DEF CursorStep, BakeOn
  <2>3. CASE ~interrupted /\ Advance(To("bake", row.slot, row.deadline, 0))
    <3>1. row' = To("bake", row.slot, row.deadline, 0) /\ Same /\ TodoInv'
      BY <1>1, <2>3, AdvanceMoves
    <3>2. Moved(row', "bake", row.slot, row.deadline, 0)
      BY <1>1, <2>1, <3>1, RowsWritten
    <3>3. row.seen # None /\ row.seen <= Gap
      BY <2>1, <2>3, Constants
    <3> QED
      BY <1>1, <2>1, <3>1, <3>2, <3>3 DEF CursorStep, BakeOn
  <2>4. CASE ~interrupted /\ ~(row.deadline > 0) /\ Advance(ToRegion(p, row.region + 1))
    <3>1. row' = ToRegion(p, row.region + 1) /\ Same /\ TodoInv'
      BY <1>1, <2>4, AdvanceMoves
    <3>2. p \in Phases /\ row.region + 1 \in 1 .. N + 1 /\ p = IF row.region = N THEN "verify" ELSE "preflight"
      BY <2>1, Constants DEF N
    <3>3. row.seen # None /\ row.seen <= Gap /\ row.deadline = 0
      BY <2>1, <2>4, Constants
    <3> HIDE DEF p
    <3>4. /\ row' \in RowType /\ row'.region = row.region + 1 /\ row'.id = row.id
          /\ row'.status = row.status /\ row'.old = row.old /\ row'.phase = p
      BY <1>1, <3>1, <3>2, ToRegionFields
    <3> QED
      BY <1>1, <2>1, <3>1, <3>2, <3>3, <3>4 DEF CursorStep, BakeDone
  <2>5. CASE block
    BY <1>1, <2>5, BlockMoves
  <2>6. \/ block
        \/ Advance(IF interrupted THEN To("bake", row.slot, Bake, 0)
                   ELSE IF row.deadline > 0 THEN To("bake", row.slot, row.deadline, 0)
                   ELSE ToRegion(p, row.region + 1))
    BY <1>3 DEF BakeTick, Gate
  <2> QED
    BY <2>2, <2>3, <2>4, <2>5, <2>6
<1>4. ASSUME Verify PROVE (CursorStep \/ BlockStep) /\ TodoInv'
  <2>1. row.phase = "verify"
    BY <1>4 DEF Verify, At
  <2>2. CASE regional_observe({}) /\ Advance([row EXCEPT !.status = "passed", !.phase = "passed"])
    <3>1. row' = [row EXCEPT !.status = "passed", !.phase = "passed"] /\ Same /\ TodoInv'
      BY <1>1, <2>2, AdvanceMoves
    <3>2. /\ row' \in RowType /\ row'.status = "passed" /\ row'.phase = "passed"
          /\ row'.region = row.region /\ row'.id = row.id /\ row'.old = row.old
      <4> DEFINE t == [row EXCEPT !.status = "passed"]
      <4>1. t \in RowType /\ t.status = "passed" /\ t.region = row.region /\ t.id = row.id
            /\ t.old = row.old
        BY <1>1 DEF RowType
      <4>2. row' = [t EXCEPT !.phase = "passed"]
        BY <3>1, <1>1 DEF RowType
      <4> HIDE DEF t
      <4> QED
        BY <4>1, <4>2 DEF RowType
    <3> QED
      BY <1>1, <2>1, <2>2, <3>1, <3>2 DEF CursorStep, Pass
  <2>3. CASE block
    BY <1>1, <2>3, BlockMoves
  <2> QED
    BY <1>4, <2>2, <2>3 DEF Verify, Gate
<1> QED
  BY <1>2, <1>3, <1>4

\* What regional_observe accepts: every ingress routes by the newest version.
LEMMA ObserveSynced ==
    ASSUME StateType, NEW W, regional_observe(W)
    PROVE  Synced
<1>1. Version \in Nat /\ \A l \in Ingress : adopted[l] \in 1 .. Version
  BY DEF StateType, Version
<1> QED
  BY <1>1 DEF regional_observe, Synced

\* The phases of a rollback.
LEMMA BackMoves ==
    ASSUME RolloutInv, base' = base, RollbackSkip \/ RollbackRestore \/ RollbackWait \/ RolledBack
    PROVE  (CursorStep \/ BlockStep \/ QuietStep) /\ TodoInv'
<1> USE DEF Phases
<1>1. row \in RowType /\ row.status = "running" /\ todo = <<>> /\ row.region \in 1 .. N + 1
  BY DEF RolloutInv, StateType, RowType, RollbackSkip, RollbackRestore, RollbackWait, RolledBack, At
<1>2. ASSUME Regional, NEW p \in Phases, Advance(ToRegion(p, row.region + 1))
      PROVE  /\ row' \in RowType /\ row'.region = row.region + 1 /\ row'.id = row.id
             /\ row'.status = row.status /\ row'.old = row.old /\ row'.phase = p
             /\ Same /\ TodoInv'
  <2>1. row' = ToRegion(p, row.region + 1) /\ Same /\ TodoInv'
    BY <1>1, <1>2, AdvanceMoves
  <2>2. row.region + 1 \in 1 .. N + 1
    BY <1>2, InRegion, Constants DEF RolloutInv
  <2> QED
    BY <1>1, <2>1, <2>2, ToRegionFields
<1>3. ASSUME RollbackSkip PROVE (CursorStep \/ BlockStep \/ QuietStep) /\ TodoInv'
  <2>1. /\ row.phase = "rollback_restore" /\ Regional /\ row.old[R] = None
        /\ Advance(ToRegion("rollback_restore", row.region + 1))
    BY <1>3 DEF RollbackSkip, At
  <2> QED
    BY <1>1, <1>2, <2>1 DEF CursorStep, SkipBack
<1>4. ASSUME RollbackRestore PROVE (CursorStep \/ BlockStep \/ QuietStep) /\ TodoInv'
  <2>1. row.phase = "rollback_restore" /\ Regional /\ row.old[R] # None
    BY <1>4 DEF RollbackRestore, At
  <2>2. /\ row.region \in 1 .. N /\ R = Ro(row.region) /\ R \in Regions /\ row.id \in 1 .. MaxOps
    BY <2>1, InRegion DEF RolloutInv
  <2>3. CASE Begin(<<Each("activate", row.old[R]), Each("drain", Published), Each("include", {R}),
                     Row(To("rollback_wait", 0, Drain, None))>>)
    <3> DEFINE S == base \cap Reg(row.region)
               P == Published
    <3>1. row.old[R] = S
      BY <2>1, <2>2 DEF RolloutInv, OldInv
    <3>2. \A e : e \in P <=> e \in Reg(row.region) /\ New(e) /\ e \in disc.members
      BY <2>2, EndpointParts DEF Published, Targets, Reg, New
    <3>3. P \in SUBSET Reg(row.region) /\ S \in SUBSET S /\ Withdraw(P)
      BY <3>2 DEF Withdraw, Act
    <3>4. /\ todo' = <<Each("activate", S), Each("drain", P), Each("include", {R}), ToBack>>
          /\ QuietStep /\ row' = row /\ disc' = disc
      BY <2>3, <3>1 DEF Begin, ToBack, QuietStep
    <3> HIDE DEF P
    <3>5. TodoBack'
      BY <2>1, <3>3, <3>4, RowKept, DiscKept DEF TodoBack
    <3> QED
      BY <1>1, <3>4, <3>5 DEF TodoInv
  <2>4. CASE block
    BY <1>1, <2>4, BlockMoves
  <2> QED
    BY <1>4, <2>3, <2>4 DEF RollbackRestore, Gate
<1>5. ASSUME RollbackWait PROVE (CursorStep \/ BlockStep \/ QuietStep) /\ TodoInv'
  <2>1. row.phase = "rollback_wait" /\ Regional
    BY <1>5 DEF RollbackWait, At, RolloutInv, CursorInv
  <2>2. CASE regional_observe(Published) /\ Advance(ToRegion("rollback_restore", row.region + 1))
    BY <1>1, <1>2, <2>1, <2>2, ObserveSynced DEF CursorStep, NextBack, RolloutInv
  <2>3. CASE block
    BY <1>1, <2>3, BlockMoves
  <2> QED
    BY <1>5, <2>2, <2>3 DEF RollbackWait, Await
<1>6. ASSUME RolledBack PROVE (CursorStep \/ BlockStep \/ QuietStep) /\ TodoInv'
  <2>1. /\ row.phase = "rollback_restore" /\ ~Regional
        /\ Advance([row EXCEPT !.status = "rolled_back", !.phase = "rolled_back"])
    BY <1>6 DEF RolledBack, At
  <2>2. row' = [row EXCEPT !.status = "rolled_back", !.phase = "rolled_back"] /\ Same /\ TodoInv'
    BY <1>1, <2>1, AdvanceMoves
  <2> DEFINE t == [row EXCEPT !.status = "rolled_back"]
  <2>3. t \in RowType /\ t.status = "rolled_back" /\ t.region = row.region /\ t.id = row.id
        /\ t.old = row.old
    BY <1>1 DEF RowType
  <2>4. row' = [t EXCEPT !.phase = "rolled_back"]
    BY <2>2, <1>1 DEF RowType
  <2> HIDE DEF t
  <2>5. /\ row' \in RowType /\ row'.status = "rolled_back" /\ row'.phase = "rolled_back"
        /\ row'.region = row.region /\ row'.id = row.id /\ row'.old = row.old
    BY <2>3, <2>4 DEF RowType
  <2> QED
    BY <1>1, <2>1, <2>2, <2>5 DEF CursorStep, BackDone
<1> QED
  BY <1>3, <1>4, <1>5, <1>6

\* The row that update_full writes depends on what it leaves only.
LEMMA ToSame ==
    ASSUME row \in RowType, row' \in RowType, row'.id = row.id, row'.status = row.status,
           row'.region = row.region, row'.old = row.old,
           NEW CONSTANT p, NEW CONSTANT s, NEW CONSTANT d, NEW CONSTANT o
    PROVE  To(p, s, d, o)' = To(p, s, d, o)
  BY DEF To, RowType

Kinds == {"publish", "drain", "activate", "exclude", "include", "create"}

\* What a call does, by its kind.
CallEffect(k, x) ==
    /\ k # "create" => UNCHANGED <<row, created>>
    /\ k = "publish"  => Publish(publish_healthy_endpoint(x))
    /\ k = "drain"    => Publish(mark_endpoint_draining(x))
    /\ k = "activate" => Publish(mark_endpoint_active(x))
    /\ k = "exclude"  => Publish(set_region_draining(x, TRUE))
    /\ k = "include"  => Publish(set_region_draining(x, FALSE))
    /\ k = "create"   => created' = [created EXCEPT ![x] = @ + 1] /\ UNCHANGED <<row, disc, history>>

\* If a row is to be written next, a write writes it.
LEMMA WritesRow ==
    ASSUME todo # <<>>, NEW r, todo[1] = Row(r), Write
    PROVE  row' = r /\ todo' = Tail(todo) /\ Same
<1>1. todo[1].kind = "row" /\ todo[1].arg = r
  BY DEF Row
<1> QED
  BY <1>1 DEF Write, WriteRow, WriteDiscovery, RequestVM, NoCalls, Call, Same

\* If calls are next, a write makes one of them, or there is none.
LEMMA WritesCall ==
    ASSUME todo # <<>>, NEW k \in Kinds, NEW S, todo[1] = Each(k, S), Write
    PROVE  \/ S = {} /\ todo' = Tail(todo) /\ QuietStep
           \/ \E x \in S : /\ CallEffect(k, x)
                           /\ todo' = IF S = {x} THEN Tail(todo)
                                      ELSE [todo EXCEPT ![1] = Each(k, S \ {x})]
<1>1. todo[1].kind = k /\ todo[1].arg = S /\ k # "row"
  BY DEF Each, Kinds
<1>2. CASE NoCalls
  BY <1>1, <1>2 DEF NoCalls, QuietStep
<1>3. CASE WriteDiscovery \/ RequestVM
  <2>1. Call(k) /\ CallEffect(k, First)
    BY <1>1, <1>3 DEF WriteDiscovery, RequestVM, Call, CallEffect, Kinds
  <2>2. S # {} /\ First \in S
    BY <1>1, <2>1 DEF Call, First
  <2>3. PICK x \in S : x = First
    BY <2>2
  <2>4. todo' = IF S = {x} THEN Tail(todo) ELSE [todo EXCEPT ![1].arg = S \ {x}]
    BY <1>1, <2>1, <2>3 DEF Call
  <2>5. [todo EXCEPT ![1].arg = S \ {x}] = [todo EXCEPT ![1] = Each(k, S \ {x})]
    <3>1. \A T : [[kind |-> k, arg |-> S] EXCEPT !.arg = T] = [kind |-> k, arg |-> T]
      OBVIOUS
    <3> QED
      BY <3>1 DEF Each
  <2> QED
    BY <2>1, <2>3, <2>4, <2>5
<1> QED
  BY <1>1, <1>2, <1>3 DEF Write, WriteRow

\* A single call.
LEMMA WritesOne ==
    ASSUME todo # <<>>, NEW k \in Kinds, NEW x, todo[1] = Each(k, {x}), Write
    PROVE  CallEffect(k, x) /\ todo' = Tail(todo)
<1>1. todo[1].kind = k /\ todo[1].arg = {x} /\ k # "row"
  BY DEF Each, Kinds
<1>2. First = x
  BY <1>1 DEF First
<1>3. Call(k) /\ CallEffect(k, First)
  BY <1>1 DEF Write, WriteRow, NoCalls, WriteDiscovery, RequestVM, Call, CallEffect, Kinds
<1> QED
  BY <1>1, <1>2, <1>3 DEF Call

\* The writes of the exclusion of a region.
LEMMA ExcludeWrites ==
    ASSUME RolloutInv, base' = base, row.status = "running", TodoExclude, Write
    PROVE  (CursorStep \/ DiscStep) /\ TodoInv'
<1> USE DEF Phases, Kinds
<1>1. row \in RowType /\ row.phase = "exclude_region"
  BY DEF RolloutInv, StateType, TodoExclude
<1>2. CASE todo = <<Each("exclude", {R}), ToDrained>>
  <2>1. CallEffect("exclude", R) /\ todo' = <<ToDrained>>
    BY <1>2, WritesOne
  <2>2. disc' = set_region_draining(R, TRUE) /\ row' = row /\ DiscStep
    BY <1>1, <2>1 DEF CallEffect, Publish, DiscStep
  <2>3. ~Gone'
    BY <2>2, RowKept DEF Gone, set_region_draining, RolloutInv, StateType
  <2> QED
    BY <1>1, <2>1, <2>2, <2>3, RowKept DEF TodoInv, TodoExclude
<1>3. CASE todo = <<ToDrained>> /\ ~Gone
  <2>1. row' = To("wait_drained", 0, Drain, None) /\ todo' = <<>> /\ Same
    BY <1>3, WritesRow DEF ToDrained
  <2>2. Moved(row', "wait_drained", 0, Drain, None)
    BY <1>1, <2>1, RowsWritten
  <2> QED
    BY <1>1, <1>3, <2>1, <2>2 DEF CursorStep, Exclude, TodoInv
<1> QED
  BY <1>2, <1>3 DEF TodoExclude

\* The writes of the creation of a candidate.
LEMMA CreateWrites ==
    ASSUME RolloutInv, base' = base, row.status = "running", TodoCreate \/ TodoCreating, Write
    PROVE  (CursorStep \/ BlockStep \/ DiscStep \/ CreateStep) /\ TodoInv'
<1> USE DEF Phases, Kinds
<1>1. row \in RowType /\ Regional /\ row.slot \in Nat
  BY DEF RolloutInv, StateType, RowType, TodoCreate, TodoCreating, CursorInv, Withdrawn, Building
<1>2. /\ row.region \in 1 .. N /\ R = Ro(row.region) /\ R \in Regions
      /\ row.slot < Size[R] =>
            /\ Candidate \in Endpoints /\ Candidate \in Reg(row.region) /\ New(Candidate)
            /\ Candidate[3] = row.slot
  BY <1>1, InRegion DEF RolloutInv
<1>3. ASSUME row.phase = "creating", todo = <<NextSlot>>, Candidate \in disc.members
      PROVE  CursorStep /\ TodoInv'
  <2>1. row' = To("create_slot", row.slot + 1, None, None) /\ todo' = <<>> /\ Same
    BY <1>3, WritesRow DEF NextSlot
  <2>2. Moved(row', "create_slot", row.slot + 1, None, None)
    BY <1>1, <2>1, RowsWritten
  <2> QED
    BY <1>3, <2>1, <2>2 DEF CursorStep, SlotDone, TodoInv
<1>4. CASE TodoCreate
  <2>1. /\ row.phase = "create_slot" /\ row.slot < Size[R]
        /\ todo = <<ToCreating, Each("create", {Candidate}), Each("publish", {Candidate}), NextSlot>>
    BY <1>4 DEF TodoCreate
  <2>2. /\ row' = To("creating", row.slot, None, None) /\ Same
        /\ todo' = <<Each("create", {Candidate}), Each("publish", {Candidate}), NextSlot>>
    BY <2>1, WritesRow DEF ToCreating
  <2>3. Moved(row', "creating", row.slot, None, None)
    BY <1>1, <2>2, RowsWritten
  <2>4. CursorStep
    BY <2>1, <2>2, <2>3 DEF CursorStep, Intend
  <2>5. Candidate \notin disc.members /\ created[Candidate] = 0
    <3>1. row.phase \in Forward /\ Current(row.region)
      BY <1>2, <2>1 DEF RolloutInv, DiscInv, RegionInv, Forward, Withdrawn, Building
    <3>2. Candidate \notin disc.members
      BY <1>2, <2>1, <3>1 DEF Current
    <3>3. created[Candidate] = 0
      BY <1>1, <1>2, <2>1, <3>1 DEF RolloutInv, CreatedInv
    <3> QED
      BY <3>2, <3>3
  <2>6. R' = R /\ Candidate' = Candidate
    BY <2>3 DEF Moved, R, Candidate
  <2>7. NextSlot' = NextSlot
    BY <1>1, <2>3, ToSame DEF Moved, NextSlot
  <2>8. TodoCreating'
    BY <2>2, <2>3, <2>5, <2>6, <2>7 DEF TodoCreating, Moved, Same
  <2> QED
    BY <2>3, <2>4, <2>8 DEF TodoInv, Moved
<1>5. CASE TodoCreating
  <2>1. row.phase = "creating" /\ row.slot < Size[R] /\ disc.members \in SUBSET Endpoints
    BY <1>5 DEF TodoCreating, RolloutInv, CursorInv, StateType
  <2>2. CASE /\ todo = <<Each("create", {Candidate}), Each("publish", {Candidate}), NextSlot>>
             /\ Candidate \notin disc.members /\ created[Candidate] = 0
    <3>1. CallEffect("create", Candidate) /\ todo' = <<Each("publish", {Candidate}), NextSlot>>
      BY <2>2, WritesOne
    <3>2. CreateStep /\ row' = row /\ disc' = disc
      BY <2>1, <2>2, <3>1 DEF CallEffect, CreateStep
    <3> QED
      BY <2>1, <2>2, <3>1, <3>2, RowKept DEF TodoInv, TodoCreating
  <2>3. CASE todo = <<Each("publish", {Candidate}), NextSlot>> /\ Candidate \notin disc.members
    <3>1. CallEffect("publish", Candidate) /\ todo' = <<NextSlot>>
      BY <2>3, WritesOne
    <3>2. DiscStep /\ row' = row /\ disc' = publish_healthy_endpoint(Candidate)
      BY <2>1, <2>3, <3>1 DEF CallEffect, Publish, DiscStep
    <3>3. Candidate \in disc'.members
      BY <3>2 DEF publish_healthy_endpoint, RolloutInv, StateType
    <3> QED
      BY <2>1, <3>1, <3>2, <3>3, RowKept DEF TodoInv, TodoCreating
  <2>4. CASE todo = <<NextSlot>> /\ Candidate \in disc.members
    BY <1>3, <2>1, <2>4
  <2>5. CASE todo = <<ToBlocked>>
    <3>1. row' = [row EXCEPT !.status = "blocked"] /\ todo' = <<>> /\ Same
      BY <2>5, WritesRow DEF ToBlocked
    <3> QED
      BY <3>1 DEF BlockStep, TodoInv
  <2> QED
    BY <1>5, <2>2, <2>3, <2>4, <2>5 DEF TodoCreating
<1> QED
  BY <1>4, <1>5

\* What the calls do to the membership.
LEMMA DiscEffects ==
    ASSUME StateType
    PROVE  /\ \A x \in Endpoints : disc' = mark_endpoint_draining(x) =>
                 /\ disc'.members = disc.members /\ disc'.drains = disc.drains
                 /\ disc'.draining = disc.draining \cup {x}
                 /\ \A e : Act(e)' <=> Act(e) /\ e # x
           /\ \A x \in Endpoints : disc' = mark_endpoint_active(x) =>
                 /\ disc'.members = disc.members /\ disc'.drains = disc.drains
                 /\ disc'.draining = disc.draining \ {x}
                 /\ \A e : Act(e)' <=> Act(e) \/ (e = x /\ e \in disc.members)
           /\ \A x \in Endpoints : disc' = publish_healthy_endpoint(x) =>
                 /\ disc'.members = disc.members \cup {x} /\ disc'.drains = disc.drains
                 /\ disc'.draining = disc.draining \ {x}
                 /\ \A e : Act(e)' <=> Act(e) \/ e = x
           /\ \A r \in Regions : disc' = set_region_draining(r, TRUE) =>
                 /\ disc'.members = disc.members /\ disc'.drains = disc.drains \cup {r}
                 /\ disc'.draining = disc.draining
                 /\ \A e : Act(e)' <=> Act(e)
           /\ \A r \in Regions : disc' = set_region_draining(r, FALSE) =>
                 /\ disc'.members = disc.members /\ disc'.drains = disc.drains \ {r}
                 /\ disc'.draining = disc.draining
                 /\ \A e : Act(e)' <=> Act(e)
           /\ \A x \in Endpoints : disc' = [disc EXCEPT !.members = @ \ {x}] =>
                 /\ disc'.members = disc.members \ {x} /\ disc'.drains = disc.drains
                 /\ disc'.draining = disc.draining
                 /\ \A e : Act(e)' <=> Act(e) /\ e # x
<1> USE DEF StateType
<1>1. ASSUME NEW x \in Endpoints, disc' = mark_endpoint_draining(x)
      PROVE  /\ disc'.members = disc.members /\ disc'.drains = disc.drains
             /\ disc'.draining = disc.draining \cup {x}
             /\ \A e : Act(e)' <=> Act(e) /\ e # x
  <2>1. /\ disc'.members = disc.members /\ disc'.drains = disc.drains
        /\ disc'.draining = disc.draining \cup {x}
    BY <1>1 DEF mark_endpoint_draining
  <2> QED
    BY <2>1 DEF Act
<1>2. ASSUME NEW x \in Endpoints, disc' = mark_endpoint_active(x)
      PROVE  /\ disc'.members = disc.members /\ disc'.drains = disc.drains
             /\ disc'.draining = disc.draining \ {x}
             /\ \A e : Act(e)' <=> Act(e) \/ (e = x /\ e \in disc.members)
  <2>1. /\ disc'.members = disc.members /\ disc'.drains = disc.drains
        /\ disc'.draining = disc.draining \ {x}
    BY <1>2 DEF mark_endpoint_active
  <2> QED
    BY <2>1 DEF Act
<1>3. ASSUME NEW x \in Endpoints, disc' = publish_healthy_endpoint(x)
      PROVE  /\ disc'.members = disc.members \cup {x} /\ disc'.drains = disc.drains
             /\ disc'.draining = disc.draining \ {x}
             /\ \A e : Act(e)' <=> Act(e) \/ e = x
  <2>1. /\ disc'.members = disc.members \cup {x} /\ disc'.drains = disc.drains
        /\ disc'.draining = disc.draining \ {x}
    BY <1>3 DEF publish_healthy_endpoint
  <2> QED
    BY <2>1 DEF Act
<1>4. ASSUME NEW r \in Regions, disc' = set_region_draining(r, TRUE)
      PROVE  /\ disc'.members = disc.members /\ disc'.drains = disc.drains \cup {r}
             /\ disc'.draining = disc.draining
             /\ \A e : Act(e)' <=> Act(e)
  <2>1. /\ disc'.members = disc.members /\ disc'.drains = disc.drains \cup {r}
        /\ disc'.draining = disc.draining
    BY <1>4 DEF set_region_draining
  <2> QED
    BY <2>1 DEF Act
<1>5. ASSUME NEW r \in Regions, disc' = set_region_draining(r, FALSE)
      PROVE  /\ disc'.members = disc.members /\ disc'.drains = disc.drains \ {r}
             /\ disc'.draining = disc.draining
             /\ \A e : Act(e)' <=> Act(e)
  <2>1. /\ disc'.members = disc.members /\ disc'.drains = disc.drains \ {r}
        /\ disc'.draining = disc.draining
    BY <1>5 DEF set_region_draining
  <2> QED
    BY <2>1 DEF Act
<1>6. ASSUME NEW x \in Endpoints, disc' = [disc EXCEPT !.members = @ \ {x}]
      PROVE  /\ disc'.members = disc.members \ {x} /\ disc'.drains = disc.drains
             /\ disc'.draining = disc.draining
             /\ \A e : Act(e)' <=> Act(e) /\ e # x
  <2>1. /\ disc'.members = disc.members \ {x} /\ disc'.drains = disc.drains
        /\ disc'.draining = disc.draining
    BY <1>6
  <2> QED
    BY <2>1 DEF Act
<1> QED
  BY <1>1, <1>2, <1>3, <1>4, <1>5, <1>6

\* Where a loop of drain or activate calls stands after a write.
LEMMA LoopWrites ==
    ASSUME NEW k \in {"drain", "activate"}, NEW S, todo # <<>>, todo[1] = Each(k, S), Write
    PROVE  \/ S = {} /\ todo' = Tail(todo) /\ row' = row /\ disc' = disc /\ QuietStep
           \/ \E x \in S : /\ row' = row /\ created' = created
                           /\ k = "drain" => Publish(mark_endpoint_draining(x))
                           /\ k = "activate" => Publish(mark_endpoint_active(x))
                           /\ S = {x} => todo' = Tail(todo)
                           /\ S # {x} => todo' = [todo EXCEPT ![1] = Each(k, S \ {x})]
<1>1. k \in Kinds
  BY DEF Kinds
<1>2. CASE S = {} /\ todo' = Tail(todo) /\ QuietStep
  BY <1>2 DEF QuietStep
<1>3. ASSUME NEW x \in S, CallEffect(k, x),
             todo' = IF S = {x} THEN Tail(todo) ELSE [todo EXCEPT ![1] = Each(k, S \ {x})]
      PROVE  /\ row' = row /\ created' = created
             /\ k = "drain" => Publish(mark_endpoint_draining(x))
             /\ k = "activate" => Publish(mark_endpoint_active(x))
             /\ S = {x} => todo' = Tail(todo)
             /\ S # {x} => todo' = [todo EXCEPT ![1] = Each(k, S \ {x})]
  BY <1>3 DEF CallEffect
<1>4. \/ S = {} /\ todo' = Tail(todo) /\ QuietStep
      \/ \E x \in S : /\ CallEffect(k, x)
                      /\ todo' = IF S = {x} THEN Tail(todo) ELSE [todo EXCEPT ![1] = Each(k, S \ {x})]
  BY <1>1, WritesCall
<1> QED
  BY <1>2, <1>3, <1>4

\* The writes that drain the old members of a region.
LEMMA MarkWrites ==
    ASSUME RolloutInv, base' = base, row.status = "running", TodoMark, Write
    PROVE  (CursorStep \/ DiscStep \/ QuietStep) /\ TodoInv'
<1> USE DEF Phases
<1>1. row \in RowType /\ row.phase = "mark_old_draining" /\ row.slot \in Nat /\ Regional
  BY DEF RolloutInv, StateType, RowType, TodoMark, CursorInv, Withdrawn, Building
<1>2. row.region \in 1 .. N
  BY <1>1, InRegion DEF RolloutInv
<1>3. \A e \in Reg(row.region) : (New(e) => Act(e)) /\ (Act(e) => New(e) \/ e \in base)
  BY <1>1, <1>2 DEF RolloutInv, DiscInv, RegionInv, Current, Forward, Withdrawn, Building
<1>4. \A e \in base : ~New(e)
  BY DEF RolloutInv, StateType, RowType, DiscInv, MemberInv, New
<1>5. ASSUME NEW S \in SUBSET (base \cap Reg(row.region)), todo = <<Each("drain", S), ToRestore>>,
             \A e \in Reg(row.region) : Act(e) /\ ~New(e) => e \in S
      PROVE  (CursorStep \/ DiscStep \/ QuietStep) /\ TodoInv'
  <2>1. todo # <<>> /\ todo[1] = Each("drain", S) /\ Tail(todo) = <<ToRestore>>
        /\ \A T : [todo EXCEPT ![1] = T] = <<T, ToRestore>>
    BY <1>5
  <2>2. CASE S = {} /\ todo' = Tail(todo) /\ row' = row /\ disc' = disc /\ QuietStep
    <3>1. Replaced(row.region)
      BY <1>3, <1>5, <2>2 DEF Replaced
    <3>2. TodoMark'
      BY <1>1, <2>1, <2>2, <3>1, RowKept, DiscKept DEF TodoMark
    <3> QED
      BY <2>2, <3>2 DEF TodoInv
  <2>3. ASSUME NEW x \in S, row' = row, created' = created, Publish(mark_endpoint_draining(x)),
               S = {x} => todo' = Tail(todo), S # {x} => todo' = [todo EXCEPT ![1] = Each("drain", S \ {x})]
        PROVE  (CursorStep \/ DiscStep \/ QuietStep) /\ TodoInv'
    <3>1. x \in base \cap Reg(row.region) /\ x \in Endpoints
      BY DEF Reg
    <3>2. DiscStep
      BY <1>1, <2>3, <3>1 DEF DiscStep
    <3>3. \A e : Act(e)' <=> Act(e) /\ e # x
      BY <2>3, <3>1, DiscEffects DEF Publish, RolloutInv
    <3>4. R' = R /\ ToRestore' = ToRestore /\ \A e : New(e)' <=> New(e)
      BY <2>3, RowKept
    <3>5. CASE S = {x}
      <4>1. Replaced(row.region)'
        BY <1>3, <1>4, <1>5, <2>3, <3>1, <3>3, <3>4, <3>5 DEF Replaced
      <4>2. TodoMark'
        BY <1>1, <2>1, <2>3, <3>4, <3>5, <4>1 DEF TodoMark
      <4> QED
        BY <2>3, <3>2, <4>2 DEF TodoInv
    <3>6. CASE S # {x}
      <4>1. S \ {x} \in SUBSET (base' \cap Reg(row'.region))
        BY <2>3
      <4>2. \A e \in Reg(row'.region) : Act(e)' /\ ~New(e)' => e \in S \ {x}
        BY <1>5, <2>3, <3>3, <3>4
      <4>3. todo' = <<Each("drain", S \ {x}), ToRestore'>>
        BY <2>1, <2>3, <3>4, <3>6
      <4>4. TodoMark'
        BY <1>1, <2>3, <4>1, <4>2, <4>3 DEF TodoMark
      <4> QED
        BY <2>3, <3>2, <4>4 DEF TodoInv
    <3> QED
      BY <3>5, <3>6
  <2> QED
    BY <2>1, <2>2, <2>3, LoopWrites
<1>6. CASE todo = <<ToRestore>> /\ Replaced(row.region)
  <2>1. row' = To("restore_region", row.slot, None, None) /\ todo' = <<>> /\ Same
    BY <1>6, WritesRow DEF ToRestore
  <2>2. Moved(row', "restore_region", row.slot, None, None)
    BY <1>1, <2>1, RowsWritten
  <2> QED
    BY <1>1, <1>6, <2>1, <2>2 DEF CursorStep, OldGone, TodoInv
<1> QED
  BY <1>5, <1>6 DEF TodoMark

\* The writes that restore a region.
LEMMA RestoreWrites ==
    ASSUME RolloutInv, base' = base, row.status = "running", TodoRestore, Write
    PROVE  (CursorStep \/ DiscStep) /\ TodoInv'
<1> USE DEF Phases, Kinds
<1>1. row \in RowType /\ row.phase = "restore_region" /\ row.slot \in Nat /\ Regional
  BY DEF RolloutInv, StateType, RowType, TodoRestore, CursorInv, Withdrawn
<1>2. R \in Regions
  BY <1>1, InRegion DEF RolloutInv
<1>3. CASE todo = <<Each("include", {R}), ToServe>>
  <2>1. CallEffect("include", R) /\ todo' = <<ToServe>>
    BY <1>3, WritesOne
  <2>2. disc' = set_region_draining(R, FALSE) /\ row' = row /\ DiscStep
    BY <1>1, <2>1 DEF CallEffect, Publish, DiscStep
  <2>4. disc'.drains = disc.drains \ {R}
    BY <1>2, <2>2, DiscEffects DEF RolloutInv
  <2>3. Gone'
    BY <2>2, <2>4, RowKept DEF Gone
  <2> QED
    BY <1>1, <2>1, <2>2, <2>3, RowKept DEF TodoInv, TodoRestore
<1>4. CASE todo = <<ToServe>> /\ Gone
  <2>1. row' = To("wait_restored", row.slot, Drain, None) /\ todo' = <<>> /\ Same
    BY <1>4, WritesRow DEF ToServe
  <2>2. Moved(row', "wait_restored", row.slot, Drain, None)
    BY <1>1, <2>1, RowsWritten
  <2> QED
    BY <1>1, <1>4, <2>1, <2>2 DEF CursorStep, Included, TodoInv
<1> QED
  BY <1>3, <1>4 DEF TodoRestore

\* The writes of the rollback of a region.
LEMMA BackWrites ==
    ASSUME RolloutInv, base' = base, row.status = "running", TodoBack, Write
    PROVE  (CursorStep \/ DiscStep \/ QuietStep) /\ TodoInv'
<1> USE DEF Phases, Kinds
<1> DEFINE B == base \cap Reg(row.region)
<1>1. /\ row \in RowType /\ row.phase = "rollback_restore" /\ Regional /\ row.old[R] # None
  BY DEF RolloutInv, StateType, TodoBack
<1>2. row.region \in 1 .. N /\ R = Ro(row.region) /\ R \in Regions
  BY <1>1, InRegion DEF RolloutInv
<1>3. /\ \A e \in base : ~New(e) /\ e \in disc.members
  BY DEF RolloutInv, StateType, RowType, DiscInv, MemberInv, New
<1>4. \A e \in Reg(row.region) : Act(e) => New(e) \/ e \in base
  BY <1>1, <1>2 DEF RolloutInv, DiscInv, RegionInv, Back, Restored
<1>5. ASSUME row' = row
      PROVE  /\ row'.status = "running" /\ row'.phase = "rollback_restore" /\ Regional'
             /\ row'.old[R'] # None /\ R' = R /\ ToBack' = ToBack /\ row'.region = row.region
             /\ \A e : New(e)' <=> New(e)
  BY <1>1, <1>5, RowKept
<1>6. ASSUME NEW S \in SUBSET B, NEW P \in SUBSET Reg(row.region),
             todo = <<Each("activate", S), Each("drain", P), Each("include", {R}), ToBack>>,
             \A e \in B : ~Act(e) => e \in S,
             Withdraw(P)
      PROVE  (CursorStep \/ DiscStep \/ QuietStep) /\ TodoInv'
  <2>1. /\ todo # <<>> /\ todo[1] = Each("activate", S)
        /\ Tail(todo) = <<Each("drain", P), Each("include", {R}), ToBack>>
        /\ \A T : [todo EXCEPT ![1] = T] = <<T, Each("drain", P), Each("include", {R}), ToBack>>
    BY <1>6
  <2>2. CASE S = {} /\ todo' = Tail(todo) /\ row' = row /\ disc' = disc /\ QuietStep
    <3>1. todo' = <<Each("drain", P), Each("include", {R'}), ToBack'>>
      BY <1>5, <2>1, <2>2
    <3>2. (\A e \in base' \cap Reg(row'.region) : Act(e)') /\ Withdraw(P)'
      BY <1>5, <1>6, <2>2, DiscKept
    <3>3. P \in SUBSET Reg(row'.region)
      BY <2>2
    <3>4. TodoBack'
      BY <1>5, <2>2, <3>1, <3>2, <3>3 DEF TodoBack
    <3> QED
      BY <1>5, <2>2, <3>4 DEF TodoInv
  <2>3. ASSUME NEW x \in S, row' = row, created' = created, Publish(mark_endpoint_active(x)),
               S = {x} => todo' = Tail(todo), S # {x} => todo' = [todo EXCEPT ![1] = Each("activate", S \ {x})]
        PROVE  (CursorStep \/ DiscStep \/ QuietStep) /\ TodoInv'
    <3>1. x \in B /\ x \in Endpoints /\ ~New(x) /\ x \in disc.members
      BY <1>3 DEF Reg
    <3>2. DiscStep
      BY <1>1, <2>3, <3>1 DEF DiscStep
    <3>3. /\ \A e : Act(e)' <=> Act(e) \/ (e = x /\ e \in disc.members)
          /\ disc'.members = disc.members
      BY <2>3, <3>1, DiscEffects DEF Publish, RolloutInv
    <3>4. Withdraw(P)'
      BY <1>5, <1>6, <2>3, <3>1, <3>3 DEF Withdraw
    <3>5. P \in SUBSET Reg(row'.region)
      BY <2>3
    <3>6. CASE S = {x}
      <4>1. todo' = <<Each("drain", P), Each("include", {R'}), ToBack'>>
        BY <1>5, <2>1, <2>3, <3>6
      <4>2. \A e \in base' \cap Reg(row'.region) : Act(e)'
        BY <1>3, <1>6, <2>3, <3>3, <3>6
      <4>3. TodoBack'
        BY <1>5, <2>3, <3>4, <3>5, <4>1, <4>2 DEF TodoBack
      <4> QED
        BY <1>5, <2>3, <3>2, <4>3 DEF TodoInv
    <3>7. CASE S # {x}
      <4>1. todo' = <<Each("activate", S \ {x}), Each("drain", P), Each("include", {R'}), ToBack'>>
        BY <1>5, <2>1, <2>3, <3>7
      <4>2. \A e \in base' \cap Reg(row'.region) : ~Act(e)' => e \in S \ {x}
        BY <1>3, <1>6, <2>3, <3>3
      <4>3. S \ {x} \in SUBSET (base' \cap Reg(row'.region))
        BY <2>3
      <4>4. TodoBack'
        BY <1>5, <2>3, <3>4, <3>5, <4>1, <4>2, <4>3 DEF TodoBack
      <4> QED
        BY <1>5, <2>3, <3>2, <4>4 DEF TodoInv
    <3> QED
      BY <3>6, <3>7
  <2> QED
    BY <2>1, <2>2, <2>3, LoopWrites
<1>7. ASSUME NEW P \in SUBSET Reg(row.region),
             todo = <<Each("drain", P), Each("include", {R}), ToBack>>,
             \A e \in B : Act(e),
             Withdraw(P)
      PROVE  (CursorStep \/ DiscStep \/ QuietStep) /\ TodoInv'
  <2>1. /\ todo # <<>> /\ todo[1] = Each("drain", P)
        /\ Tail(todo) = <<Each("include", {R}), ToBack>>
        /\ \A T : [todo EXCEPT ![1] = T] = <<T, Each("include", {R}), ToBack>>
    BY <1>7
  <2>2. CASE P = {} /\ todo' = Tail(todo) /\ row' = row /\ disc' = disc /\ QuietStep
    <3>1. Restored(row.region)
      BY <1>4, <1>7, <2>2 DEF Restored, Withdraw
    <3>2. todo' = <<Each("include", {R'}), ToBack'>> /\ Restored(row.region)'
      BY <1>5, <2>1, <2>2, <3>1, DiscKept
    <3>3. TodoBack'
      BY <1>5, <2>2, <3>2 DEF TodoBack
    <3> QED
      BY <1>5, <2>2, <3>3 DEF TodoInv
  <2>3. ASSUME NEW x \in P, row' = row, created' = created, Publish(mark_endpoint_draining(x)),
               P = {x} => todo' = Tail(todo), P # {x} => todo' = [todo EXCEPT ![1] = Each("drain", P \ {x})]
        PROVE  (CursorStep \/ DiscStep \/ QuietStep) /\ TodoInv'
    <3>1. x \in Reg(row.region) /\ x \in Endpoints /\ New(x) /\ x \in disc.members
      BY <1>7 DEF Reg, Withdraw
    <3>2. DiscStep
      BY <1>1, <1>7, <2>3, <3>1 DEF DiscStep
    <3>3. /\ \A e : Act(e)' <=> Act(e) /\ e # x
          /\ disc'.members = disc.members
      BY <2>3, <3>1, DiscEffects DEF Publish, RolloutInv
    <3>4. \A e \in base' \cap Reg(row'.region) : Act(e)'
      BY <1>3, <1>7, <2>3, <3>1, <3>3
    <3>5. CASE P = {x}
      <4>1. Restored(row.region)'
        BY <1>3, <1>4, <1>5, <1>7, <2>3, <3>1, <3>3, <3>5 DEF Restored, Withdraw
      <4>2. todo' = <<Each("include", {R'}), ToBack'>>
        BY <1>5, <2>1, <2>3, <3>5
      <4>3. TodoBack'
        BY <1>5, <2>3, <4>1, <4>2 DEF TodoBack
      <4> QED
        BY <1>5, <2>3, <3>2, <4>3 DEF TodoInv
    <3>6. CASE P # {x}
      <4>1. todo' = <<Each("drain", P \ {x}), Each("include", {R'}), ToBack'>>
        BY <1>5, <2>1, <2>3, <3>6
      <4>2. Withdraw(P \ {x})'
        BY <1>5, <1>7, <2>3, <3>1, <3>3 DEF Withdraw
      <4>3. P \ {x} \in SUBSET Reg(row'.region)
        BY <2>3
      <4>4. TodoBack'
        BY <1>5, <2>3, <3>4, <4>1, <4>2, <4>3 DEF TodoBack
      <4> QED
        BY <1>5, <2>3, <3>2, <4>4 DEF TodoInv
    <3> QED
      BY <3>5, <3>6
  <2> QED
    BY <2>1, <2>2, <2>3, LoopWrites
<1>8. CASE todo = <<Each("include", {R}), ToBack>> /\ Restored(row.region)
  <2>1. CallEffect("include", R) /\ todo' = <<ToBack>>
    BY <1>8, WritesOne
  <2>2. disc' = set_region_draining(R, FALSE) /\ row' = row /\ DiscStep
    BY <1>1, <1>8, <2>1 DEF CallEffect, Publish, DiscStep
  <2>3. disc'.drains = disc.drains \ {R} /\ \A e : Act(e)' <=> Act(e)
    BY <1>2, <2>2, DiscEffects DEF RolloutInv
  <2>4. Gone' /\ Restored(row.region)'
    BY <1>5, <1>8, <2>2, <2>3 DEF Gone, Restored
  <2>5. TodoBack'
    BY <1>5, <2>1, <2>2, <2>4 DEF TodoBack
  <2> QED
    BY <1>5, <2>2, <2>5 DEF TodoInv
<1>9. CASE todo = <<ToBack>> /\ Restored(row.region) /\ Gone
  <2>1. row' = To("rollback_wait", 0, Drain, None) /\ todo' = <<>> /\ Same
    BY <1>9, WritesRow DEF ToBack
  <2>2. Moved(row', "rollback_wait", 0, Drain, None)
    BY <1>1, <2>1, RowsWritten
  <2> QED
    BY <1>1, <1>9, <2>1, <2>2 DEF CursorStep, WaitBack, TodoInv
<1> QED
  BY <1>6, <1>7, <1>8, <1>9 DEF TodoBack

\* Every step of a tick is one of the five, and leaves the right writes to do.
LEMMA TickMoves ==
    ASSUME RolloutInv, base' = base, Phase \/ Write \/ Compensate \/ Fail \/ Crash
    PROVE  /\ CursorStep \/ BlockStep \/ QuietStep \/ DiscStep \/ CreateStep
           /\ row.phase = "bake" => CursorStep \/ BlockStep
           /\ TodoInv'
<1>1. ASSUME Phase PROVE (CursorStep \/ BlockStep \/ QuietStep \/ DiscStep \/ CreateStep) /\ TodoInv'
  BY <1>1, DrainMoves, BuildMoves, ServeMoves, BackMoves DEF Phase
<1>2. ASSUME Write PROVE (CursorStep \/ BlockStep \/ QuietStep \/ DiscStep \/ CreateStep) /\ TodoInv'
  <2>1. todo # <<>>
    BY <1>2 DEF Write, WriteRow, WriteDiscovery, RequestVM, NoCalls, Call
  <2>2. /\ row.status = "running"
        /\ TodoExclude \/ TodoCreate \/ TodoCreating \/ TodoMark \/ TodoRestore \/ TodoBack
    BY <2>1 DEF RolloutInv, TodoInv
  <2> QED
    BY <1>2, <2>2, ExcludeWrites, CreateWrites, MarkWrites, RestoreWrites, BackWrites
<1>3. ASSUME Compensate PROVE (CursorStep \/ BlockStep \/ QuietStep \/ DiscStep \/ CreateStep) /\ TodoInv'
  <2>1. /\ row.status = "running" /\ row.phase = "creating" /\ Candidate \in disc.members
        /\ Publish([disc EXCEPT !.members = @ \ {Candidate}])
        /\ row' = row /\ created' = created /\ todo' = <<ToBlocked>>
    BY <1>3 DEF Compensate, RolloutInv, TodoInv, ToBlocked
  <2>2. DiscStep
    BY <2>1 DEF DiscStep
  <2>3. TodoCreating'
    BY <2>1, RowKept DEF TodoCreating
  <2> QED
    BY <2>1, <2>2, <2>3 DEF TodoInv
<1>4. ASSUME Fail PROVE (CursorStep \/ BlockStep \/ QuietStep \/ DiscStep \/ CreateStep) /\ TodoInv'
  BY <1>4 DEF Fail, BlockStep, Same, TodoInv
<1>5. ASSUME Crash PROVE (CursorStep \/ BlockStep \/ QuietStep \/ DiscStep \/ CreateStep) /\ TodoInv'
  BY <1>5 DEF Crash, QuietStep, TodoInv
<1>6. ASSUME row.phase = "bake" PROVE CursorStep \/ BlockStep
  <2>1. todo = <<>>
    BY <1>6 DEF RolloutInv, TodoInv, TodoExclude, TodoCreate, TodoCreating, TodoMark, TodoRestore,
                TodoBack
  <2>2. BakeTick \/ Fail
    BY <1>6, <2>1 DEF Write, WriteRow, WriteDiscovery, RequestVM, NoCalls, Call, Compensate, Crash, Phase,
                      Preflight, ExcludeRegion, WaitDrained, CreateSlot, Creating, ProbeCandidates,
                      MarkOldDraining, RestoreRegion, WaitRestored, Verify, RollbackSkip,
                      RollbackRestore, RollbackWait, RolledBack, At
  <2>3. CASE Fail
    BY <2>3 DEF Fail, BlockStep, Same
  <2> QED
    BY <2>2, <2>3, ServeMoves
<1> QED
  BY <1>1, <1>2, <1>3, <1>4, <1>5, <1>6

-----------------------------------------------------------------------------
(* What the steps preserve *)

\* The places of the regions are disjoint and cover the endpoints that are not
\* elsewhere.
LEMMA RegionsApart ==
    /\ \A i, j \in 1 .. N : \A e \in Reg(i) : e \in Reg(j) => i = j
    /\ \A e \in Endpoints : e[2] \in Elsewhere \/ \E i \in 1 .. N : e \in Reg(i)
    /\ \A i \in 1 .. N : \A e \in Reg(i) : e[2] \notin Elsewhere
    /\ \A i \in 1 .. N : \A e : e \in Reg(i) <=> e \in Endpoints /\ e[2] = Ro(i)
<1>1. \A i \in 1 .. N : \A e : e \in Reg(i) <=> e \in Endpoints /\ e[2] = Ro(i)
  BY DEF Reg
<1>2. \A e \in Endpoints : e[2] \in Elsewhere \/ \E i \in 1 .. N : e \in Reg(i)
  BY <1>1, EndpointParts, Constants
<1>3. \A i \in 1 .. N : \A e \in Reg(i) : e[2] \notin Elsewhere
  BY <1>1, Constants
<1> QED
  BY <1>1, <1>2, <1>3, Constants

\* A version is added behind the others.
LEMMA Appended ==
    ASSUME NEW h \in Seq(SUBSET Endpoints), NEW S \in SUBSET Endpoints
    PROVE  /\ Append(h, S) \in Seq(SUBSET Endpoints) /\ Len(h) \in Nat
           /\ Len(Append(h, S)) = Len(h) + 1 /\ Append(h, S)[Len(h) + 1] = S
           /\ \A v \in 1 .. Len(h) : Append(h, S)[v] = h[v]
  OBVIOUS

\* The rest of the state, which a tick leaves.
Others == UNCHANGED <<adopted, request, base>>

\* A step of a tick changes these types only.
LEMMA StepTypes ==
    ASSUME RolloutInv, CursorStep \/ BlockStep \/ QuietStep \/ DiscStep \/ CreateStep, Others,
           evidence' \in [good : Nat, since : Nat]
    PROVE  StateType'
<1> USE DEF Phases
<1>1. /\ row \in RowType /\ created \in [Endpoints -> Nat]
      /\ disc \in [members : SUBSET Endpoints, draining : SUBSET Endpoints, drains : SUBSET Regions]
      /\ history \in Seq(SUBSET Endpoints) /\ Version \in Nat
      /\ adopted \in [Ingress -> 1 .. Version]
      /\ request \in [Ingress -> Endpoints \cup {None}] /\ base \in SUBSET Endpoints
  BY DEF RolloutInv, StateType, Version
<1>2. row' \in RowType
  <2>1. CASE CursorStep
    BY <2>1 DEF CursorStep, SaveOld, Exclude, Drained, Intend, SlotDone, AllDone, Probed, OldGone,
                Included, Adopt, BakeOn, BakeDone, Pass, SkipBack, WaitBack, NextBack, BackDone, Moved
  <2>2. CASE BlockStep
    BY <1>1, <2>2 DEF BlockStep, RowType
  <2> QED
    BY <1>1, <2>1, <2>2 DEF QuietStep, DiscStep, CreateStep
<1>3. created' \in [Endpoints -> Nat]
  <2>1. CASE CreateStep
    <3>1. Candidate \in Endpoints
      BY <2>1, InRegion DEF CreateStep, RolloutInv, CursorInv, Withdrawn, Building
    <3> QED
      BY <1>1, <2>1, <3>1 DEF CreateStep
  <2> QED
    BY <1>1, <2>1 DEF CursorStep, BlockStep, QuietStep, DiscStep, Same
<1>4. /\ disc' \in [members : SUBSET Endpoints, draining : SUBSET Endpoints, drains : SUBSET Regions]
      /\ history' \in Seq(SUBSET Endpoints) /\ Version' \in Nat /\ Version' >= Version
  <2>1. CASE UNCHANGED <<disc, history>>
    BY <1>1, <2>1 DEF Version
  <2>2. CASE DiscStep
    <3>1. disc' \in [members : SUBSET Endpoints, draining : SUBSET Endpoints, drains : SUBSET Regions]
      <4>1. row.phase \in {"exclude_region", "creating", "restore_region"} => Regional
        BY DEF RolloutInv, CursorInv, Withdrawn, Building
      <4>2. Regional => R \in Regions
        BY InRegion DEF RolloutInv
      <4>3. row.phase = "creating" => Candidate \in Endpoints
        BY <4>1, InRegion DEF RolloutInv, CursorInv
      <4>4. \A x \in Regions : /\ set_region_draining(x, TRUE) \in [members : SUBSET Endpoints, draining : SUBSET Endpoints, drains : SUBSET Regions]
                               /\ set_region_draining(x, FALSE) \in [members : SUBSET Endpoints, draining : SUBSET Endpoints, drains : SUBSET Regions]
        BY <1>1 DEF set_region_draining
      <4>5. \A x \in Endpoints : /\ mark_endpoint_draining(x) \in [members : SUBSET Endpoints, draining : SUBSET Endpoints, drains : SUBSET Regions]
                                 /\ mark_endpoint_active(x) \in [members : SUBSET Endpoints, draining : SUBSET Endpoints, drains : SUBSET Regions]
                                 /\ [disc EXCEPT !.members = @ \ {x}] \in [members : SUBSET Endpoints, draining : SUBSET Endpoints, drains : SUBSET Regions]
        BY <1>1 DEF mark_endpoint_draining, mark_endpoint_active
      <4>6. ASSUME NEW x \in Endpoints
            PROVE  publish_healthy_endpoint(x) \in [members : SUBSET Endpoints, draining : SUBSET Endpoints, drains : SUBSET Regions]
        BY <1>1 DEF publish_healthy_endpoint
      <4> QED
        BY <2>2, <4>1, <4>2, <4>3, <4>4, <4>5, <4>6 DEF DiscStep, Publish, Reg
    <3>2. Serving(disc') \in SUBSET Endpoints
      BY <3>1 DEF Serving
    <3>3. history' = history \/ history' = Append(history, Serving(disc'))
      BY <2>2 DEF DiscStep, Publish
    <3>4. history' \in Seq(SUBSET Endpoints) /\ (Len(history') = Len(history) \/ Len(history') = Len(history) + 1)
      BY <1>1, <3>2, <3>3, Appended
    <3> QED
      BY <1>1, <3>1, <3>4 DEF Version
  <2> QED
    BY <2>1, <2>2 DEF CursorStep, BlockStep, QuietStep, CreateStep, Same
<1>5. adopted' \in [Ingress -> 1 .. Version']
  BY <1>1, <1>4 DEF Others
<1> QED
  BY <1>1, <1>2, <1>3, <1>4, <1>5 DEF StateType, Others

\* The row is at the same place of the plan, whatever its status and its times.
SamePlace ==
    /\ row'.id = row.id /\ row'.phase = row.phase /\ row'.region = row.region
    /\ row'.slot = row.slot /\ row'.old = row.old

\* What does not depend on the status and the times of the row stays.
LEMMA PlaceKept ==
    ASSUME RolloutInv, SamePlace, UNCHANGED <<disc, history, adopted, request, base>>
    PROVE  /\ OldInv' /\ DiscInv' /\ HistInv' /\ SyncInv' /\ EmptyInv' /\ CapInv' /\ WholeInv'
           /\ created' = created => CreatedInv'
<1>1. /\ R' = R /\ Candidate' = Candidate /\ Gone' = Gone /\ Version' = Version /\ Live' = Live
      /\ Serving(disc)' = Serving(disc)
      /\ \A e : (New(e)' <=> New(e)) /\ (Act(e)' <=> Act(e))
  BY DEF SamePlace, R, Candidate, Gone, Version, Live, Serving, New, Act
<1>2. OldInv'
  BY DEF RolloutInv, OldInv, SamePlace
<1>3. \A i : /\ Fresh(i)' <=> Fresh(i)
             /\ Replaced(i)' <=> Replaced(i)
             /\ Restored(i)' <=> Restored(i)
             /\ \A n : Made(i, n)' <=> Made(i, n)
  BY <1>1 DEF Fresh, Replaced, Restored, Made
<1>4. \A i : Current(i)' <=> Current(i)
  BY <1>1, <1>3 DEF Current, SamePlace
<1>5. RegionInv'
  BY <1>1, <1>3, <1>4 DEF RolloutInv, DiscInv, RegionInv, SamePlace
<1>6. DrainsInv'
  BY <1>1 DEF RolloutInv, DiscInv, DrainsInv, SamePlace
<1>7. MemberInv'
  BY <1>1 DEF RolloutInv, DiscInv, MemberInv, SamePlace
<1>8. HistInv'
  BY <1>1 DEF RolloutInv, HistInv, SamePlace
<1>9. SyncInv'
  BY <1>1 DEF RolloutInv, SyncInv, Synced, SamePlace
<1>10. EmptyInv'
  BY <1>1 DEF RolloutInv, EmptyInv, SamePlace
<1>11. CapInv'
  BY <1>1 DEF RolloutInv, CapInv, SamePlace
<1>12. WholeInv'
  BY <1>1 DEF RolloutInv, WholeInv, Whole, SamePlace
<1>13. created' = created => CreatedInv'
  BY <1>1 DEF RolloutInv, CreatedInv, SamePlace
<1> QED
  BY <1>2, <1>5, <1>6, <1>7, <1>8, <1>9, <1>10, <1>11, <1>12, <1>13 DEF DiscInv

\* The row moves within the plan.
LEMMA StepCursor ==
    ASSUME RolloutInv, CursorStep \/ BlockStep \/ QuietStep \/ DiscStep \/ CreateStep
    PROVE  CursorInv'
<1> USE DEF Phases
<1>1. /\ row \in RowType /\ row.region \in 1 .. N + 1 /\ row.slot \in Nat /\ N \in Nat
      /\ Bake \in Nat /\ Len(RegionOrder) = N
  BY Constants DEF RolloutInv, StateType, RowType, N
<1>2. Regional => Size[R] \in Nat /\ Size[R] > 0 /\ row.region \in 1 .. N
  BY InRegion, Constants DEF RolloutInv
<1>3. CursorInv
  BY DEF RolloutInv
<1>4. CASE CursorStep
  <2>1. row.status = "running"
    BY <1>4 DEF CursorStep
  <2>2. CASE SaveOld \/ Exclude \/ Drained \/ Intend \/ SlotDone \/ AllDone \/ Probed \/ OldGone
    <3>1. row'.region = row.region /\ row'.status = "running" /\ R' = R /\ Regional' = Regional /\ Regional
      BY <1>3, <2>1, <2>2 DEF SaveOld, Exclude, Drained, Intend, SlotDone, AllDone, Probed, OldGone,
                         Moved, R, Regional, CursorInv, Withdrawn, Building
    <3> QED
      BY <1>1, <1>2, <1>3, <2>2, <3>1
         DEF SaveOld, Exclude, Drained, Intend, SlotDone, AllDone, Probed, OldGone,
             Moved, CursorInv, Withdrawn, Building
  <2>3. CASE Included \/ Adopt \/ BakeOn \/ WaitBack
    <3>1. row'.region = row.region /\ row'.status = "running" /\ Regional' = Regional /\ Regional
      BY <1>3, <2>1, <2>3 DEF Included, Adopt, BakeOn, WaitBack, Moved, Regional, CursorInv, Withdrawn
    <3> QED
      BY <1>1, <1>3, <2>3, <3>1 DEF Included, Adopt, BakeOn, WaitBack, Moved, CursorInv, Withdrawn, Building
  <2>4. CASE BakeDone \/ Pass
    BY <1>1, <1>2, <1>3, <2>1, <2>4 DEF BakeDone, Pass, Regional, CursorInv, Withdrawn, Building
  <2>5. CASE SkipBack \/ NextBack \/ BackDone
    BY <1>1, <1>2, <1>3, <2>1, <2>5 DEF SkipBack, NextBack, BackDone, Regional, CursorInv, Withdrawn, Building
  <2> QED
    BY <1>4, <2>2, <2>3, <2>4, <2>5 DEF CursorStep
<1>5. CASE BlockStep
  <2>1. row.status = "running" /\ SamePlace /\ row'.status = "blocked" /\ row'.deadline = row.deadline
        /\ row'.seen = row.seen
    BY <1>1, <1>5 DEF BlockStep, SamePlace, RowType
  <2>2. R' = R /\ Regional' = Regional
    BY <2>1 DEF SamePlace, R, Regional
  <2> QED
    BY <1>3, <2>1, <2>2 DEF CursorInv, SamePlace
<1>6. CASE row' = row
  <2>1. R' = R /\ Regional' = Regional
    BY <1>6, RowKept
  <2> QED
    BY <1>3, <1>6, <2>1 DEF CursorInv
<1> QED
  BY <1>4, <1>5, <1>6 DEF QuietStep, DiscStep, CreateStep

\* What is saved stays right.
LEMMA StepOld ==
    ASSUME RolloutInv, CursorStep \/ BlockStep \/ QuietStep \/ DiscStep \/ CreateStep, Others
    PROVE  OldInv'
<1> USE DEF Phases
<1>1. /\ row \in RowType /\ row.region \in 1 .. N + 1 /\ N \in Nat
      /\ disc.members \in SUBSET Endpoints /\ base \in SUBSET Endpoints
  BY Constants DEF RolloutInv, StateType, RowType
<1>2. OldInv /\ base' = base
  BY DEF RolloutInv, Others
<1>3. CASE SaveOld /\ Same
  <2>1. /\ row.phase = "preflight" /\ Regional /\ row'.phase = "exclude_region" /\ row'.region = row.region
        /\ row'.old = [row.old EXCEPT ![R] = In(R) \cap Serving(disc)]
    BY <1>3 DEF SaveOld, RolloutInv, CursorInv
  <2>2. row.region \in 1 .. N /\ R = Ro(row.region) /\ R \in Regions
    BY <2>1, InRegion DEF RolloutInv
  <2>3. disc.drains = {} /\ Fresh(row.region)
    BY <2>1, <2>2 DEF RolloutInv, DiscInv, DrainsInv, RegionInv, Current, Steady, Forward
  <2>4. In(R) \cap Serving(disc) = base \cap Reg(row.region)
    BY <1>1, <2>2, <2>3 DEF In, Serving, Fresh, Act, Reg
  <2>5. row.old \in [Regions -> (SUBSET Endpoints) \cup {None}]
    BY <1>1 DEF RowType
  <2>6. \A i \in 1 .. N : row'.old[Ro(i)] = IF i = row.region THEN base \cap Reg(row.region) ELSE row.old[Ro(i)]
    BY <2>1, <2>2, <2>4, <2>5, Constants
  <2>7. base \cap Reg(row.region) # None
    BY <1>1, Constants
  <2> QED
    BY <1>1, <1>2, <2>1, <2>2, <2>6, <2>7 DEF OldInv, Forward, Withdrawn, Building, Steady
<1>4. CASE CursorStep /\ ~SaveOld
  <2>1. row'.old = row.old
    BY <1>4 DEF CursorStep, Exclude, Drained, Intend, SlotDone, AllDone, Probed, OldGone,
                Included, Adopt, BakeOn, BakeDone, Pass, SkipBack, WaitBack, NextBack, BackDone, Moved
  <2>2. CASE Exclude \/ Drained \/ Intend \/ SlotDone \/ AllDone \/ Probed \/ OldGone \/ Included \/ Adopt
             \/ BakeOn
    <3>1. /\ row'.region = row.region /\ row.phase \in Forward \ {"preflight"}
          /\ row'.phase \in Forward \ {"preflight"}
      BY <2>2 DEF Exclude, Drained, Intend, SlotDone, AllDone, Probed, OldGone, Included, Adopt, BakeOn,
                  Moved, Forward, Withdrawn, Building, Steady
    <3>2. row'.phase # "rollback_wait"
      BY <3>1 DEF Forward, Withdrawn, Building, Steady
    <3> QED
      BY <1>2, <2>1, <3>1, <3>2 DEF OldInv
  <2>3. CASE BakeDone \/ Pass
    <3>1. row.phase = "bake" => row.region \in 1 .. N
      BY InRegion DEF RolloutInv, CursorInv
    <3> QED
      BY <1>1, <1>2, <2>1, <2>3, <3>1 DEF BakeDone, Pass, OldInv, Forward, Withdrawn, Building, Steady
  <2>4. CASE SkipBack \/ WaitBack \/ NextBack \/ BackDone
    <3>1. Regional => R = Ro(row.region)
      BY InRegion DEF RolloutInv
    <3> QED
      BY <1>1, <1>2, <2>1, <2>4, <3>1
         DEF SkipBack, WaitBack, NextBack, BackDone, Moved, OldInv, Forward, Withdrawn, Building, Steady
  <2> QED
    BY <1>4, <2>2, <2>3, <2>4 DEF CursorStep
<1>5. CASE BlockStep \/ QuietStep \/ DiscStep \/ CreateStep
  <2>1. SamePlace
    BY <1>1, <1>5 DEF BlockStep, QuietStep, DiscStep, CreateStep, SamePlace, RowType
  <2> QED
    BY <1>2, <2>1 DEF OldInv, SamePlace
<1> QED
  BY <1>3, <1>4, <1>5 DEF CursorStep

\* What a step makes of the membership.
Effect(m, dg, dr) == disc'.members = m /\ disc'.draining = dg /\ disc'.drains = dr
NoneChanges  == \A e : Act(e)' <=> Act(e)
Gains(x)     == \A e : Act(e)' <=> Act(e) \/ e = x
Loses(x)     == \A e : Act(e)' <=> Act(e) /\ e # x
PutOut       ==
    /\ row.phase = "exclude_region" /\ NoneChanges
    /\ Effect(disc.members, disc.draining, disc.drains \cup {R})
PutIn        == NoneChanges /\ Effect(disc.members, disc.draining, disc.drains \ {R})
Published1   ==
    /\ row.phase = "creating" /\ Candidate \notin disc.members /\ Gains(Candidate)
    /\ Effect(disc.members \cup {Candidate}, disc.draining \ {Candidate}, disc.drains)
Compensated  ==
    /\ row.phase = "creating" /\ Candidate \in disc.members /\ Loses(Candidate)
    /\ Effect(disc.members \ {Candidate}, disc.draining, disc.drains)
OldDrained(x) ==
    /\ row.phase = "mark_old_draining" /\ x \in base \cap Reg(row.region) /\ Loses(x)
    /\ Effect(disc.members, disc.draining \cup {x}, disc.drains)
OldBack(x) ==
    /\ row.phase = "rollback_restore" /\ Regional /\ row.old[R] # None
    /\ x \in base \cap Reg(row.region) /\ Gains(x)
    /\ Effect(disc.members, disc.draining \ {x}, disc.drains)
NewGone(x) ==
    /\ row.phase = "rollback_restore" /\ Regional /\ row.old[R] # None
    /\ \A e \in base \cap Reg(row.region) : Act(e)
    /\ x \in Reg(row.region) \cap disc.members /\ New(x) /\ Loses(x)
    /\ Effect(disc.members, disc.draining \cup {x}, disc.drains)
RegionBack ==
    /\ row.phase = "rollback_restore" /\ Regional /\ row.old[R] # None /\ Restored(row.region) /\ PutIn

\* The calls of service_discovery, by what they do.
LEMMA DiscCases ==
    ASSUME RolloutInv, DiscStep
    PROVE  /\ row' = row /\ created' = created /\ Regional
           /\ row.phase \in {"exclude_region", "creating", "mark_old_draining", "restore_region",
                             "rollback_restore"}
           /\ \/ PutOut \/ Published1 \/ Compensated \/ \E x \in Endpoints : OldDrained(x)
              \/ row.phase = "restore_region" /\ PutIn
              \/ \E x \in Endpoints : OldBack(x)
              \/ \E x \in Endpoints : NewGone(x)
              \/ RegionBack
           /\ \/ history' = history /\ disc' = disc
              \/ history' = Append(history, Serving(disc'))
<1>1. /\ row' = row /\ created' = created /\ StateType
      /\ row.phase \in {"exclude_region", "creating", "mark_old_draining", "restore_region",
                        "rollback_restore"}
  BY DEF DiscStep, RolloutInv
<1>2. Regional
  BY <1>1 DEF DiscStep, RolloutInv, CursorInv, Withdrawn, Building
<1>3. R \in Regions
  BY <1>1, <1>2, InRegion
<1>4. row.phase = "creating" => Candidate \in Endpoints
  BY <1>1, <1>2, InRegion DEF RolloutInv, CursorInv
<1>5. base \subseteq disc.members /\ \A e \in base : e \in disc.members
  BY DEF RolloutInv, DiscInv, MemberInv
<1>6. (history' = history /\ disc' = disc) \/ history' = Append(history, Serving(disc'))
  <2>1. \A d : Publish(d) => (history' = history /\ disc' = disc) \/ history' = Append(history, Serving(disc'))
    BY DEF Publish
  <2> QED
    BY <2>1 DEF DiscStep
<1>7. CASE row.phase = "exclude_region" /\ Publish(set_region_draining(R, TRUE))
  <2>1. PutOut
    BY <1>1, <1>3, <1>7, DiscEffects DEF Publish, PutOut, NoneChanges, Effect
  <2> QED
    BY <1>1, <1>2, <1>6, <2>1
<1>8. CASE /\ row.phase = "creating" /\ Candidate \notin disc.members
           /\ Publish(publish_healthy_endpoint(Candidate))
  <2>1. Published1
    BY <1>1, <1>4, <1>8, DiscEffects DEF Publish, Published1, Gains, Effect
  <2> QED
    BY <1>1, <1>2, <1>6, <2>1
<1>9. CASE /\ row.phase = "creating" /\ Candidate \in disc.members
           /\ Publish([disc EXCEPT !.members = @ \ {Candidate}])
  <2>1. PICK x \in Endpoints : x = Candidate
    BY <1>4, <1>9
  <2>2. disc' = [disc EXCEPT !.members = @ \ {x}]
    BY <1>9, <2>1 DEF Publish
  <2>3. Loses(x) /\ Effect(disc.members \ {x}, disc.draining, disc.drains)
    BY <1>1, <2>2, DiscEffects DEF Loses, Effect
  <2>4. Compensated
    BY <1>9, <2>1, <2>3 DEF Compensated
  <2> QED
    BY <1>1, <1>2, <1>6, <2>4
<1>10. CASE /\ row.phase = "mark_old_draining"
            /\ \E e \in base \cap Reg(row.region) : Publish(mark_endpoint_draining(e))
  <2>1. PICK x \in base \cap Reg(row.region) : Publish(mark_endpoint_draining(x))
    BY <1>10
  <2>2. x \in Endpoints
    BY DEF Reg
  <2>3. OldDrained(x)
    BY <1>1, <1>10, <2>1, <2>2, DiscEffects DEF Publish, OldDrained, Loses, Effect
  <2> QED
    BY <1>1, <1>2, <1>6, <2>2, <2>3
<1>11. CASE row.phase = "restore_region" /\ Publish(set_region_draining(R, FALSE))
  <2>1. PutIn
    BY <1>1, <1>3, <1>11, DiscEffects DEF Publish, PutIn, NoneChanges, Effect
  <2> QED
    BY <1>1, <1>2, <1>6, <1>11, <2>1
<1>12. CASE /\ row.phase = "rollback_restore" /\ Regional /\ row.old[R] # None
            /\ \E e \in base \cap Reg(row.region) : Publish(mark_endpoint_active(e))
  <2>1. PICK x \in base \cap Reg(row.region) : Publish(mark_endpoint_active(x))
    BY <1>12
  <2>2. x \in Endpoints /\ x \in disc.members
    BY <1>5 DEF Reg
  <2>3. OldBack(x)
    BY <1>1, <1>12, <2>1, <2>2, DiscEffects DEF Publish, OldBack, Gains, Effect
  <2> QED
    BY <1>1, <1>2, <1>6, <2>2, <2>3
<1>13. CASE /\ row.phase = "rollback_restore" /\ Regional /\ row.old[R] # None
            /\ \A e \in base \cap Reg(row.region) : Act(e)
            /\ \E e \in Reg(row.region) \cap disc.members :
                  New(e) /\ Publish(mark_endpoint_draining(e))
  <2>1. PICK x \in Reg(row.region) \cap disc.members : New(x) /\ Publish(mark_endpoint_draining(x))
    BY <1>13
  <2>2. x \in Endpoints
    BY DEF Reg
  <2>3. NewGone(x)
    BY <1>1, <1>13, <2>1, <2>2, DiscEffects DEF Publish, NewGone, Loses, Effect
  <2> QED
    BY <1>1, <1>2, <1>6, <2>2, <2>3
<1>14. CASE /\ row.phase = "rollback_restore" /\ Regional /\ row.old[R] # None
            /\ Restored(row.region) /\ Publish(set_region_draining(R, FALSE))
  <2>1. PutIn
    BY <1>1, <1>3, <1>14, DiscEffects DEF Publish, PutIn, NoneChanges, Effect
  <2> QED
    BY <1>1, <1>2, <1>6, <1>14, <2>1 DEF RegionBack
<1> QED
  BY <1>7, <1>8, <1>9, <1>10, <1>11, <1>12, <1>13, <1>14 DEF DiscStep

\* Which regions are withdrawn, after a step of a tick.
LEMMA StepDrains ==
    ASSUME RolloutInv, CursorStep \/ BlockStep \/ QuietStep \/ DiscStep \/ CreateStep, Others
    PROVE  DrainsInv'
<1> USE DEF Phases, Forward, Withdrawn, Building, Steady, Back
<1>1. /\ row \in RowType /\ row.region \in 1 .. N + 1 /\ N \in Nat /\ Len(RegionOrder) = N
      /\ disc.drains \in SUBSET Regions
  BY Constants DEF RolloutInv, StateType, RowType, N
<1>2. DrainsInv /\ CursorInv
  BY DEF RolloutInv, DiscInv
<1>3. Regional => row.region \in 1 .. N /\ R = Ro(row.region) /\ R \in Regions
  BY InRegion DEF RolloutInv
<1>4. \A r \in disc.drains : \E i \in 1 .. N : r = Ro(i)
  BY <1>1, Constants
<1>5. CASE CursorStep
  <2>1. disc' = disc
    BY <1>5 DEF CursorStep, Same
  <2>2. CASE SaveOld \/ Exclude \/ Drained \/ Intend \/ SlotDone \/ AllDone \/ Probed \/ OldGone
    <3>1. R' = R /\ row'.region = row.region /\ Regional
      BY <1>2, <2>2 DEF SaveOld, Exclude, Drained, Intend, SlotDone, AllDone, Probed, OldGone, Moved, R,
                        CursorInv
    <3> QED
      BY <1>2, <2>1, <2>2, <3>1
         DEF SaveOld, Exclude, Drained, Intend, SlotDone, AllDone, Probed, OldGone, Moved, DrainsInv, Gone
  <2>3. CASE Included \/ Adopt \/ BakeOn
    <3>1. R' = R /\ row'.region = row.region /\ Regional
      BY <1>2, <2>3 DEF Included, Adopt, BakeOn, Moved, R, CursorInv
    <3>2. Included => disc.drains = {}
      BY <1>2, <1>3, <1>4, <3>1 DEF Included, DrainsInv, Gone
    <3> QED
      BY <1>2, <2>1, <2>3, <3>1, <3>2 DEF Included, Adopt, BakeOn, Moved, DrainsInv
  <2>4. CASE BakeDone \/ Pass
    BY <1>2, <1>4, <2>1, <2>4 DEF BakeDone, Pass, DrainsInv
  <2>5. CASE SkipBack \/ WaitBack \/ NextBack
    <3>1. Regional
      BY <1>2, <2>5 DEF SkipBack, WaitBack, NextBack, CursorInv
    <3> QED
      BY <1>1, <1>2, <1>3, <2>1, <2>5, <3>1 DEF SkipBack, WaitBack, NextBack, Moved, DrainsInv, Gone
  <2>6. CASE BackDone
    <3>1. row.region = N + 1
      BY <1>1, <2>6 DEF BackDone, Regional
    <3>2. disc.drains = {}
      BY <1>1, <1>2, <1>4, <2>6, <3>1 DEF BackDone, DrainsInv
    <3> QED
      BY <2>1, <2>6, <3>2 DEF BackDone, DrainsInv
  <2> QED
    BY <1>5, <2>2, <2>3, <2>4, <2>5, <2>6 DEF CursorStep
<1>6. CASE BlockStep \/ QuietStep \/ CreateStep
  <2>1. SamePlace /\ disc' = disc /\ history' = history
    BY <1>1, <1>6 DEF BlockStep, QuietStep, CreateStep, SamePlace, RowType, Same
  <2> QED
    BY <2>1, PlaceKept DEF Others, DiscInv
<1>7. CASE DiscStep
  <2>1. /\ row' = row /\ Regional /\ R' = R
        /\ row.phase \in {"exclude_region", "creating", "mark_old_draining", "restore_region",
                          "rollback_restore"}
    BY <1>7, DiscCases, RowKept
  <2>2. \/ row.phase = "exclude_region" /\ disc'.drains = disc.drains \cup {R}
        \/ row.phase \in {"restore_region", "rollback_restore"} /\ disc'.drains = disc.drains \ {R}
        \/ disc'.drains = disc.drains
    BY <1>7, DiscCases DEF PutOut, PutIn, Published1, Compensated, OldDrained, OldBack, NewGone,
                           RegionBack, Effect
  <2> QED
    BY <1>1, <1>2, <1>3, <2>1, <2>2, Constants DEF DrainsInv
<1> QED
  BY <1>5, <1>6, <1>7

\* The members, after a step of a tick.
LEMMA StepMembers ==
    ASSUME RolloutInv, CursorStep \/ BlockStep \/ QuietStep \/ DiscStep \/ CreateStep, Others
    PROVE  MemberInv'
<1>1. MemberInv /\ base' = base /\ row \in RowType
  BY DEF RolloutInv, DiscInv, Others, StateType
<1>2. row'.id = row.id
  BY <1>1 DEF CursorStep, SaveOld, Exclude, Drained, Intend, SlotDone, AllDone, Probed, OldGone,
         Included, Adopt, BakeOn, BakeDone, Pass, SkipBack, WaitBack, NextBack, BackDone, Moved,
         BlockStep, QuietStep, DiscStep, CreateStep, RowType
<1>3. CASE disc' = disc
  BY <1>1, <1>2, <1>3 DEF MemberInv
<1>4. CASE DiscStep
  <2>1. CASE Published1
    <3>1. New(Candidate) /\ row.id \in Nat
      BY <1>4, <2>1, DiscCases, InRegion DEF Published1, RolloutInv, CursorInv
    <3>2. Candidate[1] <= row.id
      BY <3>1 DEF New
    <3>3. disc'.members = disc.members \cup {Candidate} /\ disc'.draining = disc.draining \ {Candidate}
      BY <2>1 DEF Published1, Effect
    <3> QED
      BY <1>1, <1>2, <3>2, <3>3 DEF MemberInv
  <2>2. CASE Compensated
    <3>1. /\ New(Candidate) /\ Candidate \in Reg(row.region) /\ Candidate[3] = row.slot
          /\ row.region \in 1 .. N /\ row.phase = "creating"
      BY <1>4, <2>2, DiscCases, InRegion DEF Compensated, RolloutInv, CursorInv
    <3>2. Candidate \notin base
      BY <1>1, <3>1 DEF MemberInv, New, RowType
    <3>3. Candidate \notin disc.draining
      <4>1. Made(row.region, row.slot)
        BY <3>1 DEF RolloutInv, DiscInv, RegionInv, Current, Forward, Withdrawn, Building
      <4> QED
        BY <2>2, <3>1, <4>1 DEF Made, Compensated, Act
    <3>4. disc'.members = disc.members \ {Candidate} /\ disc'.draining = disc.draining
      BY <2>2 DEF Compensated, Effect
    <3> QED
      BY <1>1, <1>2, <3>2, <3>3, <3>4 DEF MemberInv
  <2>3. ASSUME ~Published1, ~Compensated
        PROVE  disc'.members = disc.members /\ disc'.draining \subseteq disc.members
    BY <1>1, <1>4, <2>3, DiscCases DEF PutOut, PutIn, OldDrained, OldBack, NewGone, RegionBack, Effect, MemberInv
  <2> QED
    BY <1>1, <1>2, <2>1, <2>2, <2>3 DEF MemberInv
<1> QED
  BY <1>3, <1>4 DEF CursorStep, BlockStep, QuietStep, CreateStep, Same

\* Which endpoints are active, after the row has moved in a region.
LEMMA CursorRegions ==
    ASSUME RolloutInv, Same, Others,
           \/ SaveOld \/ Exclude \/ Drained \/ Intend \/ SlotDone \/ AllDone \/ Probed \/ OldGone
           \/ Included \/ Adopt \/ BakeOn
    PROVE  RegionInv'
<1> USE DEF Phases, Forward, Withdrawn, Building, Steady, Back
<1> DEFINE k == row.region
<1>1. /\ row.phase \in Forward /\ row'.phase \in Forward /\ row'.region = k /\ row'.id = row.id
      /\ Regional /\ row.slot \in Nat
  BY DEF SaveOld, Exclude, Drained, Intend, SlotDone, AllDone, Probed, OldGone, Included, Adopt, BakeOn,
         Moved, RolloutInv, CursorInv, StateType, RowType
<1>2. k \in 1 .. N /\ R = Ro(k) /\ Size[R] \in Nat
  BY <1>1, InRegion DEF RolloutInv
<1>3. disc' = disc /\ base' = base
  BY DEF Same, Others
<1>4. \A e : (Act(e)' <=> Act(e)) /\ (New(e)' <=> New(e))
  BY <1>1, <1>3 DEF Act, New
<1>5. \A i : /\ Fresh(i)' <=> Fresh(i)
             /\ Replaced(i)' <=> Replaced(i)
             /\ \A n : Made(i, n)' <=> Made(i, n)
  BY <1>3, <1>4 DEF Fresh, Replaced, Made
<1>6. Current(k)
  BY <1>1, <1>2 DEF RolloutInv, DiscInv, RegionInv
<1>7. \A e \in Reg(k) : /\ e \in Endpoints /\ e[3] \in Nat
                        /\ (New(e) => e[3] < Size[R])
                        /\ (New(e) /\ e[3] = row.slot /\ row.slot < Size[R] => e = Candidate)
  <2>1. \A e \in Reg(k) : e \in Endpoints /\ e[2] = R /\ e[3] \in Nat /\ (e[1] # 0 => e[3] < Size[R])
    BY <1>2, EndpointParts DEF Reg
  <2>2. row.id # 0
    BY DEF RolloutInv, StateType, RowType
  <2>3. \A e \in Reg(k) : New(e) /\ e[3] = row.slot /\ row.slot < Size[R] => e = Candidate
    BY <1>1, InRegion DEF RolloutInv
  <2> QED
    BY <2>1, <2>2, <2>3 DEF New
<1>8. Current(k)'
  <2>1. CASE SaveOld \/ Exclude
    BY <1>5, <1>6, <2>1 DEF SaveOld, Exclude, Moved, Current
  <2>2. CASE Drained
    <3>1. row'.phase = "create_slot" /\ row'.slot = 0 /\ Fresh(k)
      BY <1>6, <2>2 DEF Drained, Moved, Current
    <3>2. Made(k, 0) /\ \A e \in Reg(k) : New(e) => e \notin disc.members
      BY <1>7, <3>1 DEF Fresh, Made, Act
    <3>3. PICK z : z = 0
      OBVIOUS
    <3>4. Made(k, z)' /\ row'.slot = z
      BY <1>1, <1>5, <3>1, <3>2, <3>3
    <3>5. Made(k, row.slot)'
      BY <1>1, <3>4
    <3> QED
      BY <1>1, <1>3, <1>4, <3>1, <3>2, <3>5 DEF Current
  <2>3. CASE Intend
    <3>1. row'.phase = "creating" /\ row'.slot = row.slot /\ Made(k, row.slot)
      BY <1>6, <2>3 DEF Intend, Moved, Current
    <3>2. Made(k, row.slot)'
      BY <1>1, <1>3, <1>4, <3>1 DEF Made
    <3> QED
      BY <3>1, <3>2 DEF Current
  <2>4. CASE SlotDone
    <3>1. /\ row.phase = "creating" /\ row'.phase = "create_slot" /\ row'.slot = row.slot + 1
          /\ Made(k, row.slot) /\ Candidate \in disc.members /\ row.slot < Size[R]
      BY <1>6, <2>4 DEF SlotDone, Moved, Current, RolloutInv, CursorInv
    <3>2. \A e \in Reg(k) : New(e) /\ e[3] = row.slot => Act(e)
      BY <1>7, <3>1 DEF Made
    <3>3. \A e \in Reg(k) : New(e) /\ e[3] >= row.slot + 1 => e \notin disc.members
      BY <1>1, <1>7, <3>1 DEF Made
    <3>4. \A e \in Reg(k) : /\ New(e) /\ e[3] < row.slot + 1 => Act(e)
                            /\ New(e) /\ e[3] > row.slot + 1 => e \notin disc.members
                            /\ ~New(e) => (Act(e) <=> e \in base)
                            /\ New(e) /\ e[3] = row.slot + 1 /\ e \in disc.members => Act(e)
      BY <1>1, <1>7, <3>1, <3>2, <3>3 DEF Made
    <3>5. Made(k, row.slot)'
      BY <1>1, <1>3, <1>4, <3>1, <3>4 DEF Made
    <3>6. \A e \in Reg(k) : New(e)' /\ e[3] = row'.slot => e \notin disc'.members
      BY <1>1, <1>3, <1>4, <1>7, <3>1, <3>3
    <3> QED
      BY <1>1, <1>3, <1>4, <3>1, <3>5, <3>6 DEF Current
  <2>5. CASE AllDone
    <3>1. row'.phase = "probe_candidates" /\ Made(k, row.slot) /\ row.slot = Size[R]
      BY <1>6, <2>5 DEF AllDone, Moved, Current
    <3>2. \A e \in Reg(k) : (New(e) => Act(e)) /\ (Act(e) => New(e) \/ e \in base)
                            /\ (e \in base => Act(e))
      BY <1>7, <3>1 DEF Made
    <3> QED
      BY <1>1, <1>3, <1>4, <3>1, <3>2 DEF Current
  <2>6. CASE Probed
    BY <1>3, <1>4, <1>6, <2>6 DEF Probed, Moved, Current
  <2>7. CASE OldGone
    BY <1>5, <2>7 DEF OldGone, Moved, Current
  <2>8. CASE Included \/ Adopt \/ BakeOn
    BY <1>5, <1>6, <2>8 DEF Included, Adopt, BakeOn, Moved, Current
  <2> QED
    BY <2>1, <2>2, <2>3, <2>4, <2>5, <2>6, <2>7, <2>8
<1>9. row'.phase \notin Back \cup {"rolled_back"}
  BY <1>1
<1> QED
  BY <1>1, <1>5, <1>8, <1>9 DEF RolloutInv, DiscInv, RegionInv

\* Which endpoints are active, after the row has moved to another region.
LEMMA RegionRegions ==
    ASSUME RolloutInv, Same, Others,
           BakeDone \/ Pass \/ SkipBack \/ WaitBack \/ NextBack \/ BackDone
    PROVE  RegionInv'
<1> USE DEF Phases, Forward, Withdrawn, Building, Steady, Back
<1>1. row.region \in 1 .. N + 1 /\ N \in Nat /\ row'.id = row.id /\ row'.old = row.old
  BY Constants DEF RolloutInv, StateType, RowType, BakeDone, Pass, SkipBack, WaitBack, NextBack, BackDone, Moved
<1>2. disc' = disc /\ base' = base
  BY DEF Same, Others
<1>3. \A e : (Act(e)' <=> Act(e)) /\ (New(e)' <=> New(e))
  BY <1>1, <1>2 DEF Act, New
<1>4. \A i : /\ Fresh(i)' <=> Fresh(i)
             /\ Replaced(i)' <=> Replaced(i)
             /\ Restored(i)' <=> Restored(i)
  BY <1>2, <1>3 DEF Fresh, Replaced, Restored
<1>5. RegionInv /\ CursorInv
  BY DEF RolloutInv, DiscInv
<1>6. Regional => row.region \in 1 .. N /\ R = Ro(row.region)
  BY InRegion DEF RolloutInv
<1>7. CASE BakeDone
  <2>1. /\ row.phase = "bake" /\ Regional /\ row'.region = row.region + 1
        /\ row'.phase = IF row.region = N THEN "verify" ELSE "preflight"
    BY <1>5, <1>7 DEF BakeDone, CursorInv
  <2>2. \A i \in 1 .. N : /\ i < row.region => Replaced(i)
                          /\ i > row.region => Fresh(i)
                          /\ i = row.region => Replaced(i)
    BY <1>5, <2>1 DEF RegionInv, Current
  <2>3. \A i \in 1 .. N : /\ i < row'.region => Replaced(i)'
                          /\ i > row'.region => Fresh(i)'
                          /\ i = row'.region => Fresh(i)'
    BY <1>1, <1>4, <2>1, <2>2
  <2>4. row'.phase \in {"verify", "preflight"} /\ (row'.phase = "verify" => row'.region = N + 1)
    BY <2>1
  <2>5. \A i \in 1 .. N : i = row'.region => Current(i)'
    BY <1>1, <2>3, <2>4 DEF Current
  <2> QED
    BY <2>3, <2>4, <2>5 DEF RegionInv
<1>8. CASE Pass
  <2>1. row.phase = "verify" /\ row.region = N + 1 /\ row'.region = N + 1 /\ row'.phase = "passed"
    BY <1>5, <1>8 DEF Pass, CursorInv
  <2> QED
    BY <1>1, <1>4, <1>5, <2>1 DEF RegionInv
<1>9. CASE SkipBack \/ WaitBack \/ NextBack \/ BackDone
  <2>1. /\ row.phase \in Back /\ row'.phase \in Back \cup {"rolled_back"}
        /\ row'.phase \notin Forward
    BY <1>9 DEF SkipBack, WaitBack, NextBack, BackDone, Moved
  <2>2. SUFFICES ASSUME NEW i \in 1 .. N
                 PROVE  IF row.old[Ro(i)] = None \/ i < row'.region \/ (i = row'.region /\ row'.phase = "rollback_wait")
                        THEN Restored(i)
                        ELSE \A e \in Reg(i) : Act(e) => New(e) \/ e \in base
    BY <1>1, <1>2, <1>3, <1>4, <2>1 DEF RegionInv
  <2>3. IF row.old[Ro(i)] = None \/ i < row.region \/ (i = row.region /\ row.phase = "rollback_wait")
        THEN Restored(i)
        ELSE \A e \in Reg(i) : Act(e) => New(e) \/ e \in base
    BY <1>5, <2>1 DEF RegionInv
  <2>4. SkipBack => Regional /\ row.old[R] = None
    BY DEF SkipBack
  <2>5. NextBack => Regional /\ row.phase = "rollback_wait"
    BY <1>5 DEF NextBack, CursorInv
  <2>6. WaitBack => Regional /\ Restored(row.region)
    BY DEF WaitBack
  <2> QED
    BY <1>1, <1>6, <1>9, <2>3, <2>4, <2>5, <2>6 DEF SkipBack, WaitBack, NextBack, BackDone, Moved
<1> QED
  BY <1>7, <1>8, <1>9

\* Which endpoints are active, after a call of service_discovery.
LEMMA DiscRegions ==
    ASSUME RolloutInv, DiscStep, Others
    PROVE  RegionInv'
<1> USE DEF Phases, Forward, Withdrawn, Building, Steady, Back
<1> DEFINE k == row.region
<1>1. /\ row' = row /\ Regional /\ base' = base
      /\ row.phase \in {"exclude_region", "creating", "mark_old_draining", "restore_region",
                        "rollback_restore"}
  BY DiscCases DEF Others
<1>2. k \in 1 .. N /\ R = Ro(k) /\ row.slot \in Nat
  BY <1>1, InRegion DEF RolloutInv
<1>3. RegionInv /\ \A e \in base : ~New(e) /\ e \in disc.members
  BY DEF RolloutInv, DiscInv, MemberInv, StateType, RowType, New
<1>4. \A e : New(e)' <=> New(e)
  BY <1>1, RowKept
<1>5. ASSUME NEW i \in 1 .. N, \A e \in Reg(i) : (Act(e)' <=> Act(e)) /\ (e \in disc'.members <=> e \in disc.members)
      PROVE  /\ Fresh(i)' <=> Fresh(i)
             /\ Replaced(i)' <=> Replaced(i)
             /\ Restored(i)' <=> Restored(i)
             /\ Made(i, row.slot)' <=> Made(i, row.slot)
             /\ Current(i)' <=> Current(i)
             /\ (\A e \in Reg(i) : Act(e)' => New(e)' \/ e \in base') <=> (\A e \in Reg(i) : Act(e) => New(e) \/ e \in base)
  <2>1. /\ Fresh(i)' <=> Fresh(i)
        /\ Replaced(i)' <=> Replaced(i)
        /\ Restored(i)' <=> Restored(i)
    BY <1>1, <1>4, <1>5 DEF Fresh, Replaced, Restored
  <2>2. Made(i, row.slot)' <=> Made(i, row.slot)
    BY <1>1, <1>4, <1>5 DEF Made
  <2>3. Current(i)' <=> Current(i)
    BY <1>1, <1>4, <1>5, <2>1, <2>2 DEF Current
  <2> QED
    BY <1>1, <1>4, <1>5, <2>1, <2>2, <2>3
<1>6. SUFFICES ASSUME NEW i \in 1 .. N
               PROVE  /\ row.phase \in Forward =>
                            /\ i < k => Replaced(i)'
                            /\ i > k => Fresh(i)'
                            /\ i = k => Current(i)'
                      /\ row.phase \in Back \cup {"rolled_back"} =>
                            IF row.old[Ro(i)] = None \/ i < k \/ (i = k /\ row.phase = "rollback_wait")
                            THEN Restored(i)'
                            ELSE \A e \in Reg(i) : Act(e)' => New(e)' \/ e \in base'
  BY <1>1 DEF RegionInv
<1>7. CASE \A e \in Reg(i) : (Act(e)' <=> Act(e)) /\ (e \in disc'.members <=> e \in disc.members)
  BY <1>3, <1>5, <1>7 DEF RegionInv
<1>8. ASSUME NEW x \in Reg(k),
             \A e : e # x => (Act(e)' <=> Act(e)) /\ (e \in disc'.members <=> e \in disc.members),
             i # k
      PROVE  \A e \in Reg(i) : (Act(e)' <=> Act(e)) /\ (e \in disc'.members <=> e \in disc.members)
  BY <1>2, <1>8, RegionsApart
<1>9. row.phase = "creating" =>
          /\ Candidate \in Reg(k) /\ New(Candidate) /\ Candidate[3] = row.slot /\ Made(k, row.slot)
          /\ \A e \in Reg(k) : New(e) /\ e[3] = row.slot => e = Candidate
  BY <1>1, <1>2, <1>3, InRegion DEF RolloutInv, CursorInv, RegionInv, Current
<1>10. CASE PutOut \/ PutIn
  BY <1>7, <1>10 DEF PutOut, PutIn, NoneChanges, Effect
<1>11. CASE Published1
  <2>1. \A e : e # Candidate => (Act(e)' <=> Act(e)) /\ (e \in disc'.members <=> e \in disc.members)
    BY <1>11 DEF Published1, Gains, Effect
  <2>2. CASE i # k
    BY <1>7, <1>8, <1>9, <1>11, <2>1, <2>2 DEF Published1
  <2>3. CASE i = k
    <3>1. row.phase = "creating" /\ \A e : e = Candidate => Act(e)'
      BY <1>11 DEF Published1, Gains
    <3>2. Candidate \notin base
      BY <1>3, <1>9, <3>1
    <3>3. Made(i, row.slot)'
      BY <1>1, <1>2, <1>4, <1>9, <2>1, <2>3, <3>1, <3>2 DEF Made
    <3> QED
      BY <1>1, <2>3, <3>1, <3>3 DEF Current
  <2> QED
    BY <2>2, <2>3
<1>12. CASE Compensated
  <2>1. \A e : e # Candidate => (Act(e)' <=> Act(e)) /\ (e \in disc'.members <=> e \in disc.members)
    BY <1>12 DEF Compensated, Loses, Effect
  <2>2. CASE i # k
    BY <1>7, <1>8, <1>9, <1>12, <2>1, <2>2 DEF Compensated
  <2>3. CASE i = k
    <3>1. row.phase = "creating" /\ Candidate \notin disc'.members
      BY <1>12 DEF Compensated, Effect
    <3>2. Made(i, row.slot)'
      BY <1>1, <1>2, <1>4, <1>9, <2>1, <2>3, <3>1 DEF Made
    <3> QED
      BY <1>1, <2>3, <3>1, <3>2 DEF Current
  <2> QED
    BY <2>2, <2>3
<1>13. ASSUME NEW x \in Endpoints, OldDrained(x) \/ OldBack(x) \/ NewGone(x)
       PROVE  /\ row.phase \in Forward =>
                    /\ i < k => Replaced(i)'
                    /\ i > k => Fresh(i)'
                    /\ i = k => Current(i)'
              /\ row.phase \in Back \cup {"rolled_back"} =>
                    IF row.old[Ro(i)] = None \/ i < k \/ (i = k /\ row.phase = "rollback_wait")
                    THEN Restored(i)'
                    ELSE \A e \in Reg(i) : Act(e)' => New(e)' \/ e \in base'
  <2>1. /\ x \in Reg(k)
        /\ \A e : e # x => (Act(e)' <=> Act(e)) /\ (e \in disc'.members <=> e \in disc.members)
    BY <1>13 DEF OldDrained, OldBack, NewGone, Gains, Loses, Effect
  <2>2. CASE i # k
    BY <1>7, <1>8, <2>1, <2>2
  <2>3. CASE i = k
    <3>1. CASE OldDrained(x)
      <4>1. \A e \in Reg(k) : (New(e) => Act(e)) /\ (Act(e) => New(e) \/ e \in base)
        BY <1>2, <1>3, <3>1 DEF OldDrained, RegionInv, Current
      <4>2. \A e \in Reg(k) : (New(e)' => Act(e)') /\ (Act(e)' => New(e)' \/ e \in base')
        BY <1>1, <1>3, <1>4, <3>1, <4>1 DEF OldDrained, Loses
      <4> QED
        BY <1>1, <2>3, <3>1, <4>2 DEF OldDrained, Current
    <3>2. CASE OldBack(x) \/ NewGone(x)
      <4>1. row.phase = "rollback_restore" /\ row.old[R] # None
        BY <3>2 DEF OldBack, NewGone
      <4>2. \A e \in Reg(k) : Act(e) => New(e) \/ e \in base
        BY <1>2, <1>3, <4>1 DEF RegionInv, Restored
      <4>3. \A e \in Reg(k) : Act(e)' => New(e)' \/ e \in base'
        BY <1>1, <1>4, <3>2, <4>2 DEF OldBack, NewGone, Gains, Loses
      <4> QED
        BY <1>1, <1>2, <2>3, <4>1, <4>3
    <3> QED
      BY <1>13, <3>1, <3>2
  <2> QED
    BY <2>2, <2>3
<1> QED
  BY <1>10, <1>11, <1>12, <1>13, DiscCases DEF RegionBack

\* Which endpoints are active, after a step of a tick.
LEMMA StepDisc ==
    ASSUME RolloutInv, CursorStep \/ BlockStep \/ QuietStep \/ DiscStep \/ CreateStep, Others
    PROVE  DiscInv'
<1>1. CASE CursorStep
  BY <1>1, CursorRegions, RegionRegions, StepDrains, StepMembers DEF CursorStep, DiscInv
<1>2. CASE DiscStep
  BY <1>2, DiscRegions, StepDrains, StepMembers DEF DiscInv
<1>3. CASE BlockStep \/ QuietStep \/ CreateStep
  <2>1. SamePlace /\ disc' = disc /\ history' = history
    BY <1>3 DEF BlockStep, QuietStep, CreateStep, SamePlace, RowType, Same, RolloutInv, StateType
  <2> QED
    BY <2>1, PlaceKept DEF Others
<1> QED
  BY <1>1, <1>2, <1>3

\* The versions after a call of service_discovery: those before, and the new one.
LEMMA Versions ==
    ASSUME RolloutInv, DiscStep, Others
    PROVE  /\ Version \in Nat /\ Version' \in Nat /\ Version' >= Version /\ Version' >= 1
           /\ \A v \in 1 .. Version : history'[v] = history[v]
           /\ \A v \in 1 .. Version' : v \in 1 .. Version \/ v = Version'
           /\ history'[Version'] = Serving(disc')
           /\ \A v \in Live' : (v \in Live /\ history'[v] = history[v]) \/ history'[v] = Serving(disc')
<1>1. /\ history \in Seq(SUBSET Endpoints) /\ Version = Len(history) /\ Version \in Nat
      /\ Version >= 1 /\ history[Version] = Serving(disc)
      /\ Version' = Len(history')
  BY DEF RolloutInv, StateType, HistInv, Version
<1>2. adopted' = adopted
  BY DEF Others
<1>3. CASE history' = history /\ disc' = disc
  <2>1. Version' = Version /\ Live' = Live
    BY <1>2, <1>3 DEF Version, Live
  <2> QED
    BY <1>1, <1>3, <2>1
<1>4. CASE history' = Append(history, Serving(disc'))
  <2>1. disc'.members \subseteq Endpoints
    <3>1. disc.members \subseteq Endpoints
      BY DEF RolloutInv, StateType
    <3>2. Published1 => Candidate \in Endpoints
      BY DiscCases, InRegion DEF Published1, RolloutInv, CursorInv
    <3> QED
      BY <3>1, <3>2, DiscCases DEF PutOut, PutIn, Published1, Compensated, OldDrained, OldBack, NewGone,
                                   RegionBack, Effect
  <2>2. Serving(disc') \in SUBSET Endpoints
    BY <2>1 DEF Serving
  <2>3. /\ Version' = Version + 1 /\ history'[Version + 1] = Serving(disc')
        /\ \A v \in 1 .. Version : history'[v] = history[v]
    BY <1>1, <1>4, <2>2, Appended
  <2>4. \A v \in Live' : (v \in Live /\ v \in 1 .. Version) \/ v = Version + 1
    BY <1>1, <1>2, <2>3 DEF Live
  <2> QED
    BY <1>1, <2>3, <2>4
<1> QED
  BY <1>3, <1>4, DiscCases

\* Where every ingress routes by the newest version, no other is in use.
LEMMA LiveSynced ==
    ASSUME StateType, HistInv, Synced
    PROVE  \A v \in Live : v = Version /\ history[v] = Serving(disc)
<1>1. Version \in Nat
  BY DEF StateType, Version
<1> QED
  BY <1>1 DEF HistInv, Synced, Live

\* What the row can become in a step of a tick, as far as versions go.
LEMMA CursorFrame ==
    ASSUME RolloutInv, CursorStep, Others
    PROVE  /\ disc' = disc /\ history' = history /\ created' = created /\ adopted' = adopted
           /\ request' = request /\ base' = base /\ row'.id = row.id
           /\ Version' = Version /\ Live' = Live /\ (Synced' <=> Synced)
           /\ row'.region = row.region => R' = R
           /\ Regional => row.region \in 1 .. N /\ R = Ro(row.region)
<1>1. /\ disc' = disc /\ history' = history /\ created' = created /\ adopted' = adopted
      /\ request' = request /\ base' = base
  BY DEF CursorStep, Same, Others
<1>2. row'.id = row.id
  BY DEF CursorStep, SaveOld, Exclude, Drained, Intend, SlotDone, AllDone, Probed, OldGone,
         Included, Adopt, BakeOn, BakeDone, Pass, SkipBack, WaitBack, NextBack, BackDone, Moved
<1>3. Version' = Version /\ Live' = Live /\ (Synced' <=> Synced)
  BY <1>1 DEF Version, Live, Synced
<1>4. row'.region = row.region => R' = R
  BY DEF R
<1> QED
  BY <1>1, <1>2, <1>3, <1>4, InRegion DEF RolloutInv

\* The versions, after a step of a tick.
LEMMA StepHist ==
    ASSUME RolloutInv, CursorStep \/ BlockStep \/ QuietStep \/ DiscStep \/ CreateStep, Others
    PROVE  HistInv'
<1> USE DEF Phases, Forward, Withdrawn, Building, Steady, Back
<1>1. HistInv /\ Version \in Nat
  BY DEF RolloutInv, StateType, Version
<1>2. CASE CursorStep
  <2>1. /\ disc' = disc /\ history' = history /\ request' = request /\ Version' = Version
        /\ Serving(disc)' = Serving(disc)
    BY <1>2, CursorFrame
  <2>2. row'.phase = "creating" => Intend
    BY <1>2 DEF CursorStep, SaveOld, Exclude, Drained, SlotDone, AllDone, Probed, OldGone,
         Included, Adopt, BakeOn, BakeDone, Pass, SkipBack, WaitBack, NextBack, BackDone, Moved
  <2>3. Intend => Candidate' = Candidate /\ Candidate \notin disc.members
    <3>1. SUFFICES ASSUME Intend PROVE Candidate' = Candidate /\ Candidate \notin disc.members
      OBVIOUS
    <3>2. /\ row.phase = "create_slot" /\ row.slot < Size[R] /\ row'.id = row.id
          /\ row'.region = row.region /\ row'.slot = row.slot
      BY <3>1 DEF Intend, Moved
    <3>3. Regional
      BY <3>2 DEF RolloutInv, CursorInv
    <3>4. /\ row.region \in 1 .. N /\ Candidate \in Reg(row.region) /\ New(Candidate)
          /\ Candidate[3] = row.slot
      BY <3>2, <3>3, InRegion DEF RolloutInv
    <3>5. Candidate \notin disc.members
      BY <3>2, <3>4 DEF RolloutInv, DiscInv, RegionInv, Current
    <3> QED
      BY <3>2, <3>5 DEF Candidate, R
  <2> QED
    BY <1>1, <2>1, <2>2, <2>3 DEF HistInv
<1>3. CASE BlockStep \/ QuietStep \/ CreateStep
  <2>1. SamePlace /\ disc' = disc /\ history' = history
    BY <1>3 DEF BlockStep, QuietStep, CreateStep, SamePlace, RowType, Same, RolloutInv, StateType
  <2> QED
    BY <2>1, PlaceKept DEF Others
<1>4. CASE DiscStep
  <2>1. /\ row' = row /\ Candidate' = Candidate /\ request' = request /\ Regional /\ R' = R
    BY <1>4, DiscCases, RowKept DEF Others
  <2>2. /\ Version' \in Nat /\ Version' >= Version /\ Version' >= 1
        /\ \A v \in 1 .. Version : history'[v] = history[v]
        /\ \A v \in 1 .. Version' : v \in 1 .. Version \/ v = Version'
        /\ history'[Version'] = Serving(disc')
    BY <1>4, Versions
  <2>3. ASSUME NEW v \in 1 .. Version' PROVE history'[v] \subseteq disc'.members
    <3>1. CASE v \in 1 .. Version
      <4>1. history'[v] = history[v] /\ history[v] \subseteq disc.members
        BY <1>1, <2>2, <3>1 DEF HistInv
      <4>2. \/ disc.members \subseteq disc'.members
            \/ row.phase = "creating" /\ disc'.members = disc.members \ {Candidate}
        BY <1>4, DiscCases DEF PutOut, PutIn, Published1, Compensated, OldDrained, OldBack, NewGone,
                               RegionBack, Effect
      <4> QED
        BY <1>1, <3>1, <4>1, <4>2 DEF HistInv
    <3>2. CASE v = Version'
      BY <2>2, <3>2 DEF Serving
    <3> QED
      BY <2>2, <3>1, <3>2
  <2>4. ASSUME row.phase = "creating", NEW v \in 1 .. Version' PROVE Candidate \notin history'[v]
    <3>1. R \in disc.drains /\ Candidate[2] = R
      BY <2>4 DEF RolloutInv, DiscInv, DrainsInv, Candidate
    <3>2. R \in disc'.drains
      BY <1>4, <2>4, <3>1, DiscCases DEF PutOut, PutIn, Published1, Compensated, OldDrained, OldBack, NewGone,
                               RegionBack, Effect
    <3>3. Candidate \notin Serving(disc')
      BY <3>1, <3>2 DEF Serving
    <3> QED
      BY <1>1, <2>2, <2>4, <3>3 DEF HistInv
  <2>5. ASSUME NEW l \in Ingress, request[l] # None
        PROVE  \E v \in 1 .. Version' : request[l] \in history'[v]
    <3>1. PICK v \in 1 .. Version : request[l] \in history[v]
      BY <1>1, <2>5 DEF HistInv
    <3>2. v \in 1 .. Version' /\ history'[v] = history[v]
      BY <1>1, <2>2
    <3> QED
      BY <3>1, <3>2
  <2>6. history'[Version'] = Serving(disc)'
    BY <2>2
  <2> QED
    BY <2>1, <2>2, <2>3, <2>4, <2>5, <2>6 DEF HistInv
<1> QED
  BY <1>2, <1>3, <1>4

\* Where all ingresses are up to date, after a step of a tick.
LEMMA StepSync ==
    ASSUME RolloutInv, CursorStep \/ BlockStep \/ QuietStep \/ DiscStep \/ CreateStep, Others
    PROVE  SyncInv'
<1> USE DEF Phases, Forward, Withdrawn, Building, Steady, Back
<1>1. SyncInv /\ CursorInv /\ N \in Nat /\ row.region \in 1 .. N + 1
  BY Constants DEF RolloutInv, StateType, RowType
<1>2. CASE CursorStep
  <2>1. /\ (Synced' <=> Synced) /\ disc' = disc
        /\ Regional => row.region \in 1 .. N /\ R = Ro(row.region)
    BY <1>2, CursorFrame
  <2>2. CASE SaveOld
    BY <1>1, <2>1, <2>2 DEF SaveOld, SyncInv
  <2>3. CASE Exclude \/ Drained \/ Intend \/ SlotDone \/ AllDone \/ Probed \/ OldGone \/ Included \/ WaitBack
    BY <2>3 DEF Exclude, Drained, Intend, SlotDone, AllDone, Probed, OldGone, Included, WaitBack, Moved, SyncInv
  <2>4. CASE Adopt \/ BakeOn \/ BakeDone \/ Pass
    <3>1. Synced
      BY <1>1, <2>4, ObserveSynced DEF Adopt, BakeOn, BakeDone, Pass, SyncInv, RolloutInv
    <3> QED
      BY <2>1, <3>1 DEF SyncInv
  <2>5. CASE SkipBack
    <3>1. /\ row.phase = "rollback_restore" /\ Regional /\ row.old[R] = None
          /\ row'.region = row.region + 1 /\ row'.old = row.old /\ row'.phase = "rollback_restore"
      BY <2>5 DEF SkipBack
    <3>2. ASSUME \A i \in row.region + 1 .. N : row.old[Ro(i)] = None
          PROVE  Synced
      <4>1. \A i \in row.region .. N : row.old[Ro(i)] = None
        <5>1. \A i \in row.region .. N : i = row.region \/ i \in row.region + 1 .. N
          BY <1>1
        <5> QED
          BY <2>1, <3>1, <3>2, <5>1
      <4> QED
        BY <1>1, <3>1, <4>1 DEF SyncInv
    <3> QED
      BY <2>1, <3>1, <3>2 DEF SyncInv
  <2>6. CASE NextBack
    BY <2>1, <2>6 DEF NextBack, SyncInv
  <2>7. CASE BackDone
    <3>1. row.region = N + 1 /\ row.phase = "rollback_restore"
      BY <1>1, <2>7 DEF BackDone, Regional, N
    <3>2. Synced
      BY <1>1, <3>1 DEF SyncInv
    <3> QED
      BY <2>1, <3>2 DEF SyncInv
  <2> QED
    BY <1>2, <2>2, <2>3, <2>4, <2>5, <2>6, <2>7 DEF CursorStep
<1>3. CASE BlockStep \/ QuietStep \/ CreateStep
  <2>1. SamePlace /\ disc' = disc /\ history' = history
    BY <1>3 DEF BlockStep, QuietStep, CreateStep, SamePlace, RowType, Same, RolloutInv, StateType
  <2> QED
    BY <2>1, PlaceKept DEF Others
<1>4. CASE DiscStep
  <2>1. /\ row' = row /\ Regional /\ R' = R
        /\ row.phase \in {"exclude_region", "creating", "mark_old_draining", "restore_region",
                          "rollback_restore"}
    BY <1>4, DiscCases, RowKept
  <2>2. row.region \in 1 .. N /\ R = Ro(row.region)
    BY <2>1, InRegion DEF RolloutInv
  <2>3. row.phase = "exclude_region" => ~Gone'
    BY <1>4, <2>1, DiscCases DEF PutOut, Published1, Compensated, OldDrained, OldBack, NewGone,
                               RegionBack, Effect, Gone
  <2>4. row.phase = "rollback_restore" => row.old[R] # None
    BY <1>4 DEF DiscStep
  <2>5. row.region \in row.region .. N
    BY <2>2
  <2> QED
    BY <2>1, <2>2, <2>3, <2>4, <2>5 DEF SyncInv
<1> QED
  BY <1>2, <1>3, <1>4

\* The region under construction is empty at the ingresses, after a step of a tick.
LEMMA StepEmpty ==
    ASSUME RolloutInv, CursorStep \/ BlockStep \/ QuietStep \/ DiscStep \/ CreateStep, Others
    PROVE  EmptyInv'
<1> USE DEF Phases, Forward, Withdrawn, Building, Steady, Back
<1>1. EmptyInv /\ CursorInv /\ HistInv /\ StateType
  BY DEF RolloutInv
<1>2. CASE CursorStep
  <2>1. /\ disc' = disc /\ history' = history /\ request' = request /\ Live' = Live
        /\ row'.region = row.region => R' = R
    BY <1>2, CursorFrame
  <2>2. CASE Drained
    <3>1. /\ row.phase = "wait_drained" /\ regional_observe(In(R)) /\ row'.region = row.region
      BY <2>2 DEF Drained, Moved
    <3>2. R \in disc.drains
      BY <3>1 DEF RolloutInv, DiscInv, DrainsInv
    <3>3. \A v \in Live : history[v] = Serving(disc)
      BY <1>1, <3>1, ObserveSynced, LiveSynced
    <3>4. \A v \in Live : \A e \in history[v] : e[2] # R
      BY <3>2, <3>3 DEF Serving
    <3>5. ASSUME NEW l \in Ingress, request[l] # None PROVE request[l][2] # R
      <4>1. request[l] \in disc.members
        BY <1>1, <3>5 DEF HistInv
      <4>2. request[l] \notin In(R)
        BY <3>1 DEF regional_observe
      <4> QED
        BY <4>1, <4>2 DEF In
    <3> QED
      BY <2>1, <3>1, <3>4, <3>5 DEF EmptyInv
  <2>3. CASE Intend \/ SlotDone \/ AllDone \/ Probed
    <3>1. row.phase \in Building /\ row'.region = row.region
      BY <2>3 DEF Intend, SlotDone, AllDone, Probed, Moved
    <3> QED
      BY <1>1, <2>1, <3>1 DEF EmptyInv
  <2>4. CASE row'.phase \notin Building
    BY <2>4 DEF EmptyInv
  <2> QED
    BY <1>2, <2>2, <2>3, <2>4
       DEF CursorStep, SaveOld, Exclude, OldGone, Included, Adopt, BakeOn, BakeDone, Pass, SkipBack, WaitBack,
           NextBack, BackDone, Moved
<1>3. CASE BlockStep \/ QuietStep \/ CreateStep
  <2>1. SamePlace /\ disc' = disc /\ history' = history
    BY <1>3 DEF BlockStep, QuietStep, CreateStep, SamePlace, RowType, Same, RolloutInv, StateType
  <2> QED
    BY <2>1, PlaceKept DEF Others
<1>4. CASE DiscStep
  <2>1. /\ row' = row /\ R' = R /\ request' = request
    BY <1>4, DiscCases, RowKept DEF Others
  <2>2. ASSUME row.phase \in Building, NEW v \in Live' PROVE \A e \in history'[v] : e[2] # R
    <3>1. R \in disc.drains
      BY <2>2 DEF RolloutInv, DiscInv, DrainsInv
    <3>2. R \in disc'.drains
      BY <1>4, <2>2, <3>1, DiscCases DEF PutOut, PutIn, Published1, Compensated, OldDrained, OldBack, NewGone,
                                    RegionBack, Effect
    <3>3. \A e \in Serving(disc') : e[2] # R
      BY <3>2 DEF Serving
    <3>4. (v \in Live /\ history'[v] = history[v]) \/ history'[v] = Serving(disc')
      BY <1>4, Versions
    <3> QED
      BY <1>1, <2>2, <3>3, <3>4 DEF EmptyInv
  <2> QED
    BY <1>1, <2>1, <2>2 DEF EmptyInv
<1> QED
  BY <1>2, <1>3, <1>4

\* What was requested, after a step of a tick.
LEMMA StepCreated ==
    ASSUME RolloutInv, CursorStep \/ BlockStep \/ QuietStep \/ DiscStep \/ CreateStep, Others
    PROVE  CreatedInv'
<1> USE DEF Phases, Forward, Withdrawn, Building, Steady, Back
<1>1. CreatedInv /\ CursorInv /\ StateType
  BY DEF RolloutInv
<1>2. /\ row.region \in 1 .. N + 1 /\ N \in Nat /\ row.slot \in Nat /\ created \in [Endpoints -> Nat]
      /\ \A i \in 1 .. N : \A e \in Reg(i) : e \in Endpoints /\ e[3] \in Nat
  BY <1>1, Constants, EndpointParts DEF StateType, RowType, Reg
<1>3. CASE CursorStep
  <2>1. created' = created /\ row'.id = row.id /\ \A e : New(e)' <=> New(e)
    BY <1>3, CursorFrame DEF New
  <2>2. row'.phase \in Forward => row.phase \in Forward
    BY <1>3 DEF CursorStep, SaveOld, Exclude, Drained, Intend, SlotDone, AllDone, Probed, OldGone,
         Included, Adopt, BakeOn, BakeDone, Pass, SkipBack, WaitBack, NextBack, BackDone, Moved
  <2>3. ASSUME row'.phase \in Forward, NEW i \in 1 .. N, NEW e \in Reg(i), New(e),
               \/ i > row'.region
               \/ i = row'.region /\ row'.phase \in {"preflight", "exclude_region", "wait_drained"}
               \/ i = row'.region /\ row'.phase = "create_slot" /\ e[3] >= row'.slot
               \/ i = row'.region /\ row'.phase = "creating" /\ e[3] > row'.slot
        PROVE  \/ i > row.region
               \/ i = row.region /\ row.phase \in {"preflight", "exclude_region", "wait_drained"}
               \/ i = row.region /\ row.phase = "create_slot" /\ e[3] >= row.slot
               \/ i = row.region /\ row.phase = "creating" /\ e[3] > row.slot
    BY <1>2, <1>3, <2>3
       DEF CursorStep, SaveOld, Exclude, Drained, Intend, SlotDone, AllDone, Probed, OldGone,
         Included, Adopt, BakeOn, BakeDone, Pass, SkipBack, WaitBack, NextBack, BackDone, Moved
  <2> QED
    BY <1>1, <2>1, <2>2, <2>3 DEF CreatedInv
<1>4. CASE BlockStep \/ QuietStep \/ DiscStep
  <2>1. SamePlace /\ created' = created
    BY <1>4 DEF BlockStep, QuietStep, DiscStep, SamePlace, RowType, Same, RolloutInv, StateType
  <2>2. \A e : New(e)' <=> New(e)
    BY <2>1 DEF SamePlace, New
  <2> QED
    BY <1>1, <2>1, <2>2 DEF CreatedInv, SamePlace
<1>5. CASE CreateStep
  <2>1. /\ row' = row /\ row.phase = "creating" /\ created[Candidate] = 0
        /\ created' = [created EXCEPT ![Candidate] = @ + 1] /\ Regional
    BY <1>1, <1>5 DEF CreateStep, CursorInv
  <2>2. /\ Candidate \in Endpoints /\ Candidate[3] = row.slot /\ New(Candidate)
        /\ row.region \in 1 .. N /\ Candidate \in Reg(row.region) /\ row.id \in Nat
    BY <1>1, <2>1, InRegion DEF CursorInv
  <2>3. \A e \in Endpoints : created'[e] = IF e = Candidate THEN 1 ELSE created[e]
    BY <1>2, <2>1, <2>2
  <2>4. \A e : New(e)' <=> New(e)
    BY <2>1, RowKept
  <2>5. ASSUME NEW e \in Endpoints PROVE created'[e] <= 1 /\ (e[1] > row.id => created'[e] = 0)
    BY <1>1, <2>2, <2>3 DEF CreatedInv, New
  <2>6. ASSUME NEW i \in 1 .. N, NEW e \in Reg(i), New(e),
               i > row.region \/ (i = row.region /\ e[3] > row.slot)
        PROVE  created'[e] = 0
    <3>1. e # Candidate /\ e \in Endpoints
      BY <1>2, <2>2, <2>6, RegionsApart
    <3>2. created[e] = 0
      BY <1>1, <2>1, <2>6 DEF CreatedInv
    <3> QED
      BY <2>3, <3>1, <3>2
  <2> QED
    BY <2>1, <2>4, <2>5, <2>6 DEF CreatedInv
<1> QED
  BY <1>3, <1>4, <1>5

\* A call of service_discovery changes what serves in the region of the row only.
LEMMA ServingOutside ==
    ASSUME RolloutInv, DiscStep
    PROVE  \A e : e[2] # R => (e \in Serving(disc') <=> e \in Serving(disc))
<1>1. Regional
  BY DiscCases
<1>2. row.region \in 1 .. N /\ R = Ro(row.region)
  BY <1>1, InRegion DEF RolloutInv
<1>3. Candidate[2] = R /\ \A x \in Reg(row.region) : x[2] = R
  BY <1>2 DEF Candidate, Reg
<1>4. SUFFICES ASSUME NEW e, e[2] # R
               PROVE  e \in Serving(disc') <=> e \in Serving(disc)
  OBVIOUS
<1>5. (e \in disc'.members <=> e \in disc.members) /\ (e \in disc'.draining <=> e \in disc.draining)
      /\ (e[2] \in disc'.drains <=> e[2] \in disc.drains)
  BY <1>3, <1>4, DiscCases DEF PutOut, PutIn, Published1, Compensated, OldDrained, OldBack, NewGone,
                               RegionBack, Effect
<1> QED
  BY <1>5 DEF Serving

\* The budget, after a step of a tick.
LEMMA StepCap ==
    ASSUME RolloutInv, AwayInv, CursorStep \/ BlockStep \/ QuietStep \/ DiscStep \/ CreateStep, Others
    PROVE  CapInv'
<1> USE DEF Phases, Forward, Withdrawn, Building, Steady, Back
<1>1. CapInv /\ CursorInv /\ HistInv /\ StateType /\ SyncInv
  BY DEF RolloutInv
<1>2. /\ \A v \in Live : history[v] \in SUBSET Endpoints
      /\ N \in Nat /\ row.region \in 1 .. N + 1 /\ disc.members \in SUBSET Endpoints
      /\ Minimum \in Nat /\ base \in SUBSET Endpoints
  BY <1>1, Constants DEF StateType, Live, Version, RowType
<1>3. CASE CursorStep
  <2>1. /\ disc' = disc /\ history' = history /\ Live' = Live /\ base' = base
        /\ row'.region = row.region => R' = R
    BY <1>3, CursorFrame
  <2>2. CASE SaveOld
    <3>1. row.phase = "preflight" /\ row'.region = row.region /\ row'.phase = "exclude_region" /\ probe_survivors
      BY <2>2 DEF SaveOld
    <3>2. \A v \in Live : history[v] = Serving(disc)
      BY <1>1, <3>1, LiveSynced DEF SyncInv
    <3>3. \A v \in Live : Cardinality({e \in history[v] : e[2] # R}) >= Minimum
      BY <3>1, <3>2 DEF probe_survivors
    <3> QED
      BY <1>1, <2>1, <3>1, <3>3 DEF CapInv
  <2>3. CASE Exclude \/ Drained \/ Intend \/ SlotDone \/ AllDone \/ Probed \/ OldGone \/ Included
    <3>1. /\ row.phase \in Withdrawn \cup {"wait_restored"} /\ row'.region = row.region
          /\ row'.phase \in Withdrawn \cup {"wait_restored"}
      BY <2>3 DEF Exclude, Drained, Intend, SlotDone, AllDone, Probed, OldGone, Included, Moved
    <3> QED
      BY <1>1, <2>1, <3>1 DEF CapInv
  <2>4. CASE Adopt
    <3>1. row.phase = "wait_restored" /\ row'.phase = "bake"
      BY <2>4 DEF Adopt, Moved
    <3>2. ASSUME NEW v \in Live PROVE Cardinality(history[v]) >= Minimum
      <4> DEFINE T == {e \in history[v] : e[2] # R}
      <4>1. Cardinality(T) >= Minimum
        BY <1>1, <3>1 DEF CapInv
      <4>2. T \in SUBSET history[v] /\ history[v] \in SUBSET Endpoints
        BY <1>2
      <4> HIDE DEF T
      <4>3. Cardinality(history[v]) \in Nat /\ Cardinality(T) \in Nat /\ Cardinality(T) <= Cardinality(history[v])
        BY <4>2, Counted
      <4> QED
        BY <1>2, <4>1, <4>3
    <3> QED
      BY <1>1, <2>1, <3>1, <3>2 DEF CapInv
  <2>5. CASE BakeOn \/ BakeDone \/ Pass
    <3>1. row.phase \in Steady /\ row'.phase \in Steady
      BY <2>5 DEF BakeOn, BakeDone, Pass, Moved
    <3> QED
      BY <1>1, <2>1, <3>1 DEF CapInv
  <2>6. CASE SkipBack \/ WaitBack \/ NextBack
    <3>1. row'.phase \in Back
      BY <2>6 DEF SkipBack, WaitBack, NextBack, Moved
    <3> QED
      BY <1>1, <2>1, <3>1 DEF CapInv
  <2>7. CASE BackDone
    <3>1. row.region = N + 1 /\ row.phase = "rollback_restore" /\ row'.phase = "rolled_back"
      BY <1>2, <2>7 DEF BackDone, Regional, N
    <3>2. Synced
      BY <1>1, <1>2, <3>1 DEF SyncInv
    <3>3. \A v \in Live : history[v] = Serving(disc)
      BY <1>1, <3>2, LiveSynced
    <3>4. base \subseteq Serving(disc)
      <4>1. SUFFICES ASSUME NEW e \in base PROVE e \in Serving(disc)
        OBVIOUS
      <4>5. CASE e[2] \in Elsewhere
        BY <1>1, <1>2, <4>5 DEF AwayInv, HistInv, Version
      <4>6. SUFFICES ASSUME e[2] \notin Elsewhere PROVE e \in Serving(disc)
        BY <4>5
      <4>2. PICK i \in 1 .. N : e \in Reg(i)
        BY <1>2, <4>6, RegionsApart
      <4>3. Restored(i) /\ Ro(i) \notin disc.drains
        BY <1>2, <3>1 DEF RolloutInv, DiscInv, RegionInv, DrainsInv
      <4>4. Act(e) /\ e[2] = Ro(i)
        BY <4>2, <4>3 DEF Restored, Reg
      <4> QED
        BY <4>3, <4>4 DEF Act, Serving
    <3>5. Serving(disc) \in SUBSET Endpoints
      BY <1>2 DEF Serving
    <3>6. Cardinality(base) \in Nat /\ Cardinality(Serving(disc)) \in Nat
          /\ Cardinality(base) <= Cardinality(Serving(disc))
      BY <3>4, <3>5, Counted
    <3>7. Cardinality(base) >= Minimum
      BY <1>1 DEF CapInv
    <3>8. \A v \in Live : Cardinality(history[v]) >= Minimum
      BY <1>2, <3>3, <3>6, <3>7
    <3> QED
      BY <2>1, <3>1, <3>7, <3>8 DEF CapInv
  <2> QED
    BY <1>3, <2>2, <2>3, <2>4, <2>5, <2>6, <2>7 DEF CursorStep
<1>4. CASE BlockStep \/ QuietStep \/ CreateStep
  <2>1. SamePlace /\ disc' = disc /\ history' = history
    BY <1>4 DEF BlockStep, QuietStep, CreateStep, SamePlace, RowType, Same, RolloutInv, StateType
  <2> QED
    BY <2>1, PlaceKept DEF Others
<1>5. CASE DiscStep
  <2>1. /\ row' = row /\ R' = R /\ base' = base
        /\ row.phase \in {"exclude_region", "creating", "mark_old_draining", "restore_region",
                          "rollback_restore"}
    BY <1>5, DiscCases, RowKept DEF Others
  <2>2. ASSUME row.phase \in Withdrawn, NEW v \in Live'
        PROVE  Cardinality({e \in history'[v] : e[2] # R}) >= Minimum
    <3>1. CASE v \in Live /\ history'[v] = history[v]
      BY <1>1, <2>2, <3>1 DEF CapInv
    <3>2. CASE history'[v] = Serving(disc')
      <4>1. {e \in Serving(disc') : e[2] # R} = {e \in Serving(disc) : e[2] # R}
        BY <1>5, ServingOutside
      <4>2. Version \in Live /\ history[Version] = Serving(disc)
        BY <1>1 DEF HistInv, Live, StateType, Version
      <4>3. Cardinality({e \in Serving(disc) : e[2] # R}) >= Minimum
        BY <1>1, <2>2, <4>2 DEF CapInv
      <4> QED
        BY <3>2, <4>1, <4>3
    <3> QED
      BY <1>5, <3>1, <3>2, Versions
  <2> QED
    BY <1>1, <2>1, <2>2 DEF CapInv
<1> QED
  BY <1>3, <1>4, <1>5

\* What has all new or all old endpoints of a region has the region whole.
LEMMA WholeBy ==
    ASSUME StateType, WholeInv, NEW i \in 1 .. N, NEW S,
           (\A e \in Reg(i) : New(e) => e \in S) \/ (\A e \in Reg(i) : e \in base => e \in S)
    PROVE  Whole(S, i)
<1>1. row.id \in 0 .. MaxOps
  BY Constants DEF StateType, RowType
<1> QED
  BY <1>1 DEF Whole, WholeInv, New

\* The regions that are whole, after a step of a tick.
LEMMA StepWhole ==
    ASSUME RolloutInv, CursorStep \/ BlockStep \/ QuietStep \/ DiscStep \/ CreateStep, Others
    PROVE  WholeInv'
<1> USE DEF Phases, Forward, Withdrawn, Building, Steady, Back
<1>1. WholeInv /\ CursorInv /\ HistInv /\ StateType
  BY DEF RolloutInv
<1>2. /\ base' = base /\ disc.members \in SUBSET Endpoints
      /\ \A i \in 1 .. N : Whole(base, i)
  BY <1>1 DEF Others, StateType, WholeInv
<1>3. CASE CursorStep
  <2>1. /\ disc' = disc /\ history' = history /\ Live' = Live
        /\ \A e : (New(e)' <=> New(e)) /\ (Act(e)' <=> Act(e))
    BY <1>3, CursorFrame DEF New, Act
  <2>2. CASE Adopt
    <3>1. /\ row.phase = "wait_restored" /\ row'.phase = "bake" /\ row'.region = row.region
          /\ regional_observe({}) /\ Regional
      BY <1>1, <2>2 DEF Adopt, Moved, CursorInv
    <3>2. row.region \in 1 .. N
      BY <1>1, <3>1, InRegion
    <3>3. Replaced(row.region) /\ disc.drains = {}
      BY <3>1, <3>2 DEF RolloutInv, DiscInv, DrainsInv, RegionInv, Current
    <3>4. \A v \in Live : history[v] = Serving(disc)
      BY <1>1, <3>1, ObserveSynced, LiveSynced
    <3>5. \A e \in Reg(row.region) : New(e) => e \in Serving(disc)
      BY <3>3 DEF Replaced, Act, Serving
    <3>6. Whole(Serving(disc), row.region)
      BY <1>1, <3>2, <3>5, WholeBy
    <3>7. \A v \in Live, i \in 1 .. N : Whole(history[v], i)
      BY <1>1, <3>1, <3>4, <3>6 DEF WholeInv
    <3> QED
      BY <1>2, <2>1, <3>1, <3>7 DEF WholeInv, Whole
  <2>3. CASE SaveOld \/ Exclude \/ Drained \/ Intend \/ SlotDone \/ AllDone \/ Probed \/ OldGone \/ Included
    <3>1. /\ row.phase \in Forward /\ row'.region = row.region /\ row'.phase \in Forward
          /\ row'.phase \notin Steady /\ row'.phase \notin Back
      BY <2>3 DEF SaveOld, Exclude, Drained, Intend, SlotDone, AllDone, Probed, OldGone, Included, Moved
    <3>2. \A v \in Live, i \in 1 .. N : i # row'.region => Whole(history[v], i)
      BY <1>1, <3>1 DEF WholeInv
    <3> QED
      BY <1>2, <2>1, <3>1, <3>2 DEF WholeInv, Whole
  <2>4. CASE BakeOn \/ BakeDone \/ Pass
    <3>1. row.phase \in Steady /\ row'.phase \in Steady
      BY <2>4 DEF BakeOn, BakeDone, Pass, Moved
    <3>2. \A v \in Live, i \in 1 .. N : Whole(history[v], i)
      BY <1>1, <3>1 DEF WholeInv
    <3> QED
      BY <1>2, <2>1, <3>1, <3>2 DEF WholeInv, Whole
  <2>5. CASE SkipBack \/ WaitBack \/ NextBack
    <3>1. row.phase \in Back /\ row'.phase \in Back
      BY <2>5 DEF SkipBack, WaitBack, NextBack, Moved
    <3> QED
      BY <1>1, <1>2, <2>1, <3>1 DEF WholeInv, Whole
  <2>6. CASE BackDone
    <3>1. row'.phase = "rolled_back"
      BY <2>6 DEF BackDone
    <3> QED
      BY <1>2, <3>1 DEF WholeInv, Whole
  <2> QED
    BY <1>3, <2>2, <2>3, <2>4, <2>5, <2>6 DEF CursorStep
<1>4. CASE BlockStep \/ QuietStep \/ CreateStep
  <2>1. SamePlace /\ disc' = disc /\ history' = history
    BY <1>4 DEF BlockStep, QuietStep, CreateStep, SamePlace, RowType, Same, RolloutInv, StateType
  <2> QED
    BY <2>1, PlaceKept DEF Others
<1>5. CASE DiscStep
  <2>1. /\ row' = row /\ Regional /\ \A e : New(e)' <=> New(e)
        /\ row.phase \in {"exclude_region", "creating", "mark_old_draining", "restore_region",
                          "rollback_restore"}
    BY <1>5, DiscCases, RowKept
  <2>2. row.region \in 1 .. N /\ R = Ro(row.region)
    BY <1>1, <2>1, InRegion
  <2>3. Version \in Live /\ history[Version] = Serving(disc)
    BY <1>1 DEF HistInv, Live, StateType, Version
  <2>4. \A v \in Live' : (v \in Live /\ history'[v] = history[v]) \/ history'[v] = Serving(disc')
    BY <1>5, Versions
  <2>5. CASE row.phase # "rollback_restore"
    <3>1. ASSUME NEW i \in 1 .. N, i # row.region PROVE Whole(Serving(disc'), i)
      <4>1. Whole(Serving(disc), i)
        BY <1>1, <2>1, <2>3, <2>5, <3>1 DEF WholeInv
      <4>2. \A e \in Reg(i) : e[2] # R
        BY <2>2, <3>1, RegionsApart, Constants
      <4>3. \A e \in Reg(i) : e \in Serving(disc) => e \in Serving(disc')
        BY <1>5, <4>2, ServingOutside
      <4> QED
        BY <4>1, <4>3 DEF Whole
    <3>2. \A v \in Live', i \in 1 .. N : i # row.region => Whole(history'[v], i)
      BY <1>1, <2>1, <2>4, <2>5, <3>1 DEF WholeInv
    <3> QED
      BY <1>2, <2>1, <2>5, <3>2 DEF WholeInv, Whole
  <2>6. CASE row.phase = "rollback_restore"
    <3>1. PICK k \in 1 .. N : \A i \in 1 .. N \ {k} :
              /\ Ro(i) \notin disc.drains
              /\ (\A e \in Reg(i) : New(e) => Act(e)) \/ (\A e \in Reg(i) : e \in base => Act(e))
              /\ \A v \in Live : Whole(history[v], i)
      BY <1>1, <2>6 DEF WholeInv
    <3>2. ASSUME NEW i \in 1 .. N \ {k}
          PROVE  /\ Ro(i) \notin disc'.drains
                 /\ (\A e \in Reg(i) : New(e) => Act(e)') \/ (\A e \in Reg(i) : e \in base => Act(e)')
      <4>1. disc'.drains \subseteq disc.drains
        BY <1>5, <2>6, DiscCases DEF PutOut, PutIn, Published1, Compensated, OldDrained, OldBack, NewGone,
                                RegionBack, Effect
      <4>2. CASE \A e : Act(e) => Act(e)'
        BY <3>1, <4>1, <4>2
      <4>3. ASSUME NEW x \in Endpoints, NewGone(x)
            PROVE  (\A e \in Reg(i) : New(e) => Act(e)') \/ (\A e \in Reg(i) : e \in base => Act(e)')
        <5>1. CASE i = row.region
          <6>1. \A e \in base : ~New(e)
            BY DEF RolloutInv, DiscInv, MemberInv, StateType, RowType, New
          <6> QED
            BY <4>3, <5>1, <6>1 DEF NewGone, Loses
        <5>2. CASE i # row.region
          <6>1. x \notin Reg(i)
            BY <2>2, <4>3, <5>2, RegionsApart DEF NewGone
          <6> QED
            BY <3>1, <4>3, <6>1 DEF NewGone, Loses
        <5> QED
          BY <5>1, <5>2
      <4> QED
        BY <1>5, <2>6, <3>1, <4>1, <4>2, <4>3, DiscCases
           DEF PutOut, PutIn, Published1, Compensated, OldDrained, OldBack, RegionBack, NoneChanges, Gains
    <3>3. ASSUME NEW i \in 1 .. N \ {k} PROVE Whole(Serving(disc'), i)
      <4>1. \A e \in Reg(i) : Act(e)' => e \in Serving(disc')
        BY <3>2 DEF Reg, Act, Serving
      <4>2. (\A e \in Reg(i) : New(e) => e \in Serving(disc')) \/ (\A e \in Reg(i) : e \in base => e \in Serving(disc'))
        BY <3>2, <4>1
      <4> QED
        BY <1>1, <4>2, WholeBy
    <3>4. \A i \in 1 .. N \ {k} : \A v \in Live' : Whole(history'[v], i)
      BY <2>4, <3>1, <3>3
    <3>5. \A i \in 1 .. N \ {k} :
              /\ Ro(i) \notin disc'.drains
              /\ (\A e \in Reg(i) : New(e)' => Act(e)') \/ (\A e \in Reg(i) : e \in base' => Act(e)')
              /\ \A v \in Live' : Whole(history'[v], i)
      BY <1>2, <2>1, <3>2, <3>4
    <3> QED
      BY <1>2, <2>1, <2>6, <3>5 DEF WholeInv, Whole
  <2> QED
    BY <2>5, <2>6
<1> QED
  BY <1>3, <1>4, <1>5

\* What was seen of the region in bake, after a step of a tick.
LEMMA StepSeen ==
    ASSUME RolloutInv, CursorStep \/ BlockStep \/ QuietStep \/ DiscStep \/ CreateStep,
           row.phase = "bake" => CursorStep \/ BlockStep,
           evidence' = IF row.phase = "bake" \/ row'.phase = "bake" THEN Watched ELSE evidence
    PROVE  SeenInv' /\ evidence' \in [good : Nat, since : Nat]
<1> USE DEF Phases
<1>1. /\ SeenInv /\ CursorInv /\ row \in RowType /\ Gap \in Nat /\ Bake \in Nat
      /\ evidence \in [good : Nat, since : Nat]
  BY Constants DEF RolloutInv, StateType
<1>2. Watched \in [good : Nat, since : Nat]
  BY <1>1 DEF Watched, Unseen
<1>3. evidence' \in [good : Nat, since : Nat]
  BY <1>1, <1>2
<1>4. CASE CursorStep
  <2>1. row'.phase = "bake" => (Adopt \/ BakeOn) /\ row'.status = "running"
    BY <1>4 DEF CursorStep, SaveOld, Exclude, Drained, Intend, SlotDone, AllDone, Probed, OldGone,
         Included, Adopt, BakeOn, BakeDone, Pass, SkipBack, WaitBack, NextBack, BackDone, Moved
  <2>2. CASE Adopt
    <3>1. /\ row.phase = "wait_restored" /\ row'.phase = "bake" /\ row'.seen = 0 /\ row'.deadline = Bake
      BY <2>2 DEF Adopt, Moved
    <3>2. evidence' = [good |-> 0, since |-> 0]
      BY <2>1, <3>1 DEF Watched
    <3> QED
      BY <1>1, <1>3, <3>1, <3>2 DEF SeenInv
  <2>3. CASE BakeOn
    <3>1. row.phase = "bake" /\ row'.phase = "bake" /\ row'.seen = 0 /\ row.status = "running"
      BY <1>4, <2>3 DEF CursorStep, BakeOn, Moved
    <3>2. evidence' = IF evidence.since > Gap THEN [good |-> 0, since |-> 0]
                      ELSE [good |-> evidence.good + evidence.since, since |-> 0]
      BY <2>1, <3>1 DEF Watched
    <3>3. CASE (row.seen = None \/ row.seen > Gap) /\ row'.deadline = Bake
      BY <1>1, <1>3, <3>1, <3>2, <3>3 DEF SeenInv
    <3>4. CASE row.seen # None /\ row.seen <= Gap /\ row'.deadline = row.deadline
      <4>1. /\ evidence.since = row.seen /\ evidence.good + evidence.since + row.deadline >= Bake
            /\ row.deadline \in Nat
        BY <1>1, <3>1, <3>4 DEF SeenInv, CursorInv
      <4>2. row.seen \in Nat /\ ~(evidence.since > Gap)
        BY <1>1, <3>4, <4>1 DEF RowType
      <4>3. evidence' = [good |-> evidence.good + evidence.since, since |-> 0]
        BY <3>2, <4>2
      <4> QED
        BY <1>1, <3>1, <3>4, <4>1, <4>3 DEF SeenInv
    <3> QED
      BY <2>3, <3>3, <3>4 DEF BakeOn, Moved
  <2> QED
    BY <1>3, <2>1, <2>2, <2>3 DEF SeenInv
<1>5. CASE BlockStep
  BY <1>1, <1>3, <1>5 DEF BlockStep, SeenInv, RowType
<1>6. CASE row' = row /\ row.phase # "bake"
  BY <1>3, <1>6 DEF SeenInv
<1> QED
  BY <1>4, <1>5, <1>6 DEF QuietStep, DiscStep, CreateStep

\* A step of a tick keeps the invariant.
LEMMA TickInv ==
    ASSUME RolloutInv, AwayInv, Tick
    PROVE  RolloutInv'
<1>1. /\ Phase \/ Write \/ Compensate \/ Fail \/ Crash
      /\ evidence' = IF row.phase = "bake" \/ row'.phase = "bake" THEN Watched ELSE evidence
      /\ Others /\ base' = base
  BY DEF Tick, Others
<1>2. /\ CursorStep \/ BlockStep \/ QuietStep \/ DiscStep \/ CreateStep
      /\ row.phase = "bake" => CursorStep \/ BlockStep
      /\ TodoInv'
  BY <1>1, TickMoves
<1>3. SeenInv' /\ evidence' \in [good : Nat, since : Nat]
  BY <1>1, <1>2, StepSeen
<1>4. StateType' /\ CursorInv' /\ OldInv' /\ DiscInv'
  BY <1>1, <1>2, <1>3, StepTypes, StepCursor, StepOld, StepDisc
<1>5. HistInv' /\ SyncInv' /\ EmptyInv' /\ CreatedInv' /\ CapInv' /\ WholeInv'
  BY <1>1, <1>2, StepHist, StepSync, StepEmpty, StepCreated, StepCap, StepWhole
<1> QED
  BY <1>2, <1>3, <1>4, <1>5 DEF RolloutInv

-----------------------------------------------------------------------------
(* The operator, the ingresses and the clock *)

\* resume changes the status and the times.
LEMMA ResumeInv ==
    ASSUME RolloutInv, Resume
    PROVE  RolloutInv'
<1>1. row \in RowType /\ row.status = "blocked" /\ Drain \in Nat /\ StateType /\ CursorInv
  BY Constants DEF RolloutInv, StateType, Resume
<1>2. UNCHANGED <<disc, history, todo, adopted, request, created, base, evidence>>
  BY DEF Resume
<1> DEFINE d == IF row.phase \in {"wait_drained", "wait_restored", "rollback_wait"} THEN Drain ELSE row.deadline
           a == [row EXCEPT !.status = "running"]
           b == [a EXCEPT !.seen = None]
<1>3. a \in RowType /\ a.status = "running" /\ a.deadline = row.deadline /\ a.id = row.id /\ a.phase = row.phase
      /\ a.region = row.region /\ a.slot = row.slot /\ a.old = row.old
  BY <1>1 DEF RowType
<1>4. d \in Nat \cup {None} /\ (row.phase \in {"creating", "bake"} => d = row.deadline)
  BY <1>1 DEF RowType
<1>5. row' = [b EXCEPT !.deadline = d]
  BY <1>1 DEF Resume, RowType
<1> HIDE DEF a, d
<1>6. b \in RowType /\ b.status = "running" /\ b.seen = None /\ b.id = row.id /\ b.phase = row.phase
      /\ b.region = row.region /\ b.slot = row.slot /\ b.old = row.old
  BY <1>3 DEF RowType
<1> HIDE DEF b
<1>7. row' \in RowType /\ row'.status = "running" /\ row'.seen = None /\ row'.deadline = d /\ SamePlace
  BY <1>4, <1>5, <1>6 DEF RowType, SamePlace
<1>8. StateType'
  <2>1. Version' = Version
    BY <1>2 DEF Version
  <2> QED
    BY <1>1, <1>2, <1>7, <2>1 DEF StateType
<1>9. CursorInv'
  <2>1. R' = R /\ Regional' = Regional
    BY <1>7 DEF SamePlace, R, Regional
  <2> QED
    BY <1>1, <1>4, <1>7, <2>1 DEF CursorInv, SamePlace
<1>10. TodoInv'
  BY <1>1, <1>2 DEF RolloutInv, TodoInv
<1>11. SeenInv'
  BY <1>7 DEF SeenInv
<1>12. OldInv' /\ DiscInv' /\ HistInv' /\ SyncInv' /\ EmptyInv' /\ CapInv' /\ WholeInv' /\ CreatedInv'
  BY <1>2, <1>7, PlaceKept
<1> QED
  BY <1>8, <1>9, <1>10, <1>11, <1>12 DEF RolloutInv

\* Time passes.
LEMMA ClockInv ==
    ASSUME RolloutInv, Clock
    PROVE  RolloutInv'
<1>1. row \in RowType /\ StateType /\ CursorInv /\ Gap \in Nat /\ Bake \in Nat
      /\ evidence \in [good : Nat, since : Nat]
  BY Constants DEF RolloutInv, StateType
<1>2. UNCHANGED <<disc, history, todo, adopted, request, created, base>>
  BY DEF Clock
<1> DEFINE d == IF row.deadline = None \/ row.deadline = 0 THEN row.deadline ELSE row.deadline - 1
           s == IF row.seen = None \/ row.seen > Gap THEN row.seen ELSE row.seen + 1
           a == [row EXCEPT !.deadline = d]
<1>3. row.deadline \in Nat \cup {None} /\ row.seen \in Nat \cup {None}
  BY <1>1 DEF RowType
<1>4. d \in Nat \cup {None} /\ s \in Nat \cup {None}
  BY <1>1, <1>3
<1>5. row' = [a EXCEPT !.seen = s]
  BY <1>1 DEF Clock, RowType
<1> HIDE DEF d, s
<1>6. a \in RowType /\ a.deadline = d /\ a.status = row.status /\ a.id = row.id /\ a.phase = row.phase
      /\ a.region = row.region /\ a.slot = row.slot /\ a.old = row.old /\ a.seen = row.seen
  BY <1>1, <1>4 DEF RowType
<1> HIDE DEF a
<1>7. row' \in RowType /\ row'.status = row.status /\ row'.seen = s /\ row'.deadline = d /\ SamePlace
  BY <1>4, <1>5, <1>6 DEF RowType, SamePlace
<1>8. evidence' \in [good : Nat, since : Nat] /\ evidence'.good = evidence.good
      /\ evidence'.since = IF evidence.since > Gap THEN evidence.since ELSE evidence.since + 1
  BY <1>1 DEF Clock
<1>9. StateType'
  <2>1. Version' = Version
    BY <1>2 DEF Version
  <2> QED
    BY <1>1, <1>2, <1>7, <1>8, <2>1 DEF StateType
<1>10. row.phase = "creating" => row' = row
  <2>1. row.phase = "creating" => s = row.seen /\ d = row.deadline
    BY <1>1 DEF CursorInv, s, d
  <2> QED
    BY <1>1, <1>7, <2>1, SameRow DEF SamePlace
<1>11. R' = R /\ Regional' = Regional /\ Candidate' = Candidate /\ Gone' = Gone
       /\ \A e : (New(e)' <=> New(e)) /\ (Act(e)' <=> Act(e))
  BY <1>2, <1>7 DEF SamePlace, R, Regional, Candidate, Gone, New, Act
<1>12. CursorInv'
  <2>1. row.deadline \in Nat => d \in Nat
    BY <1>3, Constants DEF d
  <2> QED
    BY <1>1, <1>7, <1>10, <1>11, <2>1 DEF CursorInv, SamePlace
<1>13. TodoInv'
  <2>1. \A p : \A sl : \A de : \A o : To(p, sl, de, o)' = To(p, sl, de, o)
    BY <1>1, <1>7, ToSame DEF SamePlace
  <2>2. /\ ToDrained' = ToDrained /\ ToCreating' = ToCreating /\ NextSlot' = NextSlot
        /\ ToRestore' = ToRestore /\ ToServe' = ToServe /\ ToBack' = ToBack
    BY <1>7, <2>1 DEF ToDrained, ToCreating, NextSlot, ToRestore, ToServe, ToBack, SamePlace
  <2>3. row.phase = "creating" => ToBlocked' = ToBlocked
    BY <1>10 DEF ToBlocked
  <2>4. \A i : (Replaced(i)' <=> Replaced(i)) /\ (Restored(i)' <=> Restored(i))
    BY <1>2, <1>11 DEF Replaced, Restored
  <2>5. \A P : Withdraw(P)' <=> Withdraw(P)
    BY <1>2, <1>7, <1>11 DEF Withdraw, SamePlace
  <2>6. TodoExclude => TodoExclude'
    BY <1>2, <1>7, <1>11, <2>2 DEF TodoExclude, SamePlace
  <2>7. TodoCreate => TodoCreate'
    BY <1>2, <1>7, <1>11, <2>2 DEF TodoCreate, SamePlace
  <2>8. TodoCreating => TodoCreating'
    BY <1>2, <1>7, <1>11, <2>2, <2>3 DEF TodoCreating, SamePlace
  <2>9. TodoMark => TodoMark'
    BY <1>2, <1>7, <1>11, <2>2, <2>4 DEF TodoMark, SamePlace
  <2>10. TodoRestore => TodoRestore'
    BY <1>2, <1>7, <1>11, <2>2 DEF TodoRestore, SamePlace
  <2>11. TodoBack => TodoBack'
    BY <1>2, <1>7, <1>11, <2>2, <2>4, <2>5 DEF TodoBack, SamePlace
  <2> QED
    BY <1>2, <1>7, <2>6, <2>7, <2>8, <2>9, <2>10, <2>11 DEF RolloutInv, TodoInv
<1>14. SeenInv'
  <2>1. SUFFICES ASSUME row'.phase = "bake", row'.status = "running", row'.seen # None, row'.seen <= Gap
                 PROVE  /\ evidence'.since = row'.seen
                        /\ evidence'.good + evidence'.since + row'.deadline >= Bake
    BY DEF SeenInv
  <2>2. row.phase = "bake" /\ row.status = "running" /\ row.deadline \in Nat
    BY <1>1, <1>7, <2>1 DEF SamePlace, CursorInv
  <2>3. row.seen \in Nat /\ row.seen + 1 <= Gap /\ s = row.seen + 1
    BY <1>1, <1>3, <1>7, <2>1 DEF s
  <2>4. evidence.since = row.seen /\ evidence.good + evidence.since + row.deadline >= Bake
    BY <1>1, <2>2, <2>3, Constants DEF RolloutInv, SeenInv
  <2>5. d \in Nat /\ d + 1 >= row.deadline
    BY <2>2, Constants DEF d
  <2> QED
    BY <1>1, <1>7, <1>8, <2>2, <2>3, <2>4, <2>5
<1>15. OldInv' /\ DiscInv' /\ HistInv' /\ SyncInv' /\ EmptyInv' /\ CapInv' /\ WholeInv' /\ CreatedInv'
  BY <1>2, <1>7, PlaceKept
<1> QED
  BY <1>9, <1>12, <1>13, <1>14, <1>15 DEF RolloutInv

\* What the orchestrator keeps does not depend on the ingresses.
LEMMA IngressKept ==
    ASSUME RolloutInv, UNCHANGED <<row, disc, history, todo, created, base, evidence>>
    PROVE  CursorInv' /\ OldInv' /\ DiscInv' /\ TodoInv' /\ CreatedInv' /\ SeenInv'
<1>1. /\ R' = R /\ Candidate' = Candidate /\ Regional' = Regional
      /\ ToDrained' = ToDrained /\ ToCreating' = ToCreating /\ ToBlocked' = ToBlocked
      /\ NextSlot' = NextSlot /\ ToRestore' = ToRestore /\ ToServe' = ToServe /\ ToBack' = ToBack
      /\ \A e : New(e)' <=> New(e)
  BY RowKept
<1>2. /\ Gone' = Gone /\ \A e : Act(e)' <=> Act(e)
      /\ \A i : Replaced(i)' <=> Replaced(i)
      /\ \A i : Restored(i)' <=> Restored(i)
      /\ \A P : Withdraw(P)' <=> Withdraw(P)
  BY DiscKept
<1>3. CursorInv' /\ OldInv' /\ SeenInv'
  BY <1>1 DEF RolloutInv, CursorInv, OldInv, SeenInv
<1>4. DrainsInv' /\ MemberInv'
  BY <1>1 DEF RolloutInv, DiscInv, DrainsInv, MemberInv
<1>5. RegionInv'
  <2>1. \A i : (Fresh(i)' <=> Fresh(i)) /\ \A n : Made(i, n)' <=> Made(i, n)
    BY <1>1, <1>2 DEF Fresh, Made
  <2>2. \A i : Current(i)' <=> Current(i)
    BY <1>1, <1>2, <2>1 DEF Current
  <2> QED
    BY <1>1, <1>2, <2>1, <2>2 DEF RolloutInv, DiscInv, RegionInv
<1>6. CreatedInv'
  BY <1>1 DEF RolloutInv, CreatedInv
<1>7. TodoInv'
  <2>1. TodoExclude => TodoExclude'
    BY <1>1, <1>2 DEF TodoExclude
  <2>2. TodoCreate => TodoCreate'
    BY <1>1 DEF TodoCreate
  <2>3. TodoCreating => TodoCreating'
    BY <1>1 DEF TodoCreating
  <2>4. TodoMark => TodoMark'
    BY <1>1, <1>2 DEF TodoMark
  <2>5. TodoRestore => TodoRestore'
    BY <1>1, <1>2 DEF TodoRestore
  <2>6. TodoBack => TodoBack'
    BY <1>1, <1>2 DEF TodoBack
  <2> QED
    BY <2>1, <2>2, <2>3, <2>4, <2>5, <2>6 DEF RolloutInv, TodoInv
<1> QED
  BY <1>3, <1>4, <1>5, <1>6, <1>7 DEF DiscInv

\* An ingress adopts a newer version, takes a request or ends one.
LEMMA IngressInv ==
    ASSUME RolloutInv, NEW l \in Ingress, Refresh(l) \/ Start(l) \/ End(l)
    PROVE  RolloutInv'
<1>1. /\ UNCHANGED <<row, disc, history, todo, created, base, evidence>>
      /\ R' = R /\ Candidate' = Candidate /\ Gone' = Gone /\ Version' = Version
      /\ Serving(disc)' = Serving(disc) /\ \A e : (New(e)' <=> New(e)) /\ (Act(e)' <=> Act(e))
  BY DEF Refresh, Start, End, R, Candidate, Gone, Version, Serving, New, Act
<1>2. /\ StateType /\ Version \in Nat /\ adopted \in [Ingress -> 1 .. Version]
      /\ request \in [Ingress -> Endpoints \cup {None}]
      /\ \A v \in 1 .. Version : history[v] \in SUBSET Endpoints
  BY DEF RolloutInv, StateType, Version
<1>3. CursorInv' /\ OldInv' /\ DiscInv' /\ TodoInv' /\ CreatedInv' /\ SeenInv'
  BY <1>1, IngressKept
<1>4. CASE Refresh(l)
  <2>1. PICK v \in adopted[l] + 1 .. Version : adopted' = [adopted EXCEPT ![l] = v]
    BY <1>4 DEF Refresh
  <2>2. request' = request
    BY <1>4 DEF Refresh
  <2>3. /\ adopted' \in [Ingress -> 1 .. Version]
        /\ \A m \in Ingress : adopted'[m] >= adopted[m]
    BY <1>2, <2>1
  <2>4. StateType'
    BY <1>1, <1>2, <2>2, <2>3 DEF StateType
  <2>5. Live' \subseteq Live
    <3>1. ASSUME NEW w \in 1 .. Version, NEW m \in Ingress, adopted'[m] <= w
          PROVE  adopted[m] <= w
      <4>1. adopted[m] \in Nat /\ adopted'[m] \in Nat /\ adopted'[m] >= adopted[m] /\ w \in Nat
        BY <1>2, <2>3
      <4> QED
        BY <3>1, <4>1
    <3> QED
      BY <1>1, <3>1 DEF Live
  <2>6. ~Synced
    BY <1>2, <2>1 DEF Synced
  <2>7. HistInv'
    BY <1>1, <2>2 DEF RolloutInv, HistInv
  <2>8. SyncInv'
    BY <1>1, <2>6 DEF RolloutInv, SyncInv
  <2>9. EmptyInv'
    BY <1>1, <2>2, <2>5 DEF RolloutInv, EmptyInv
  <2>10. CapInv'
    BY <1>1, <2>5 DEF RolloutInv, CapInv
  <2>11. WholeInv'
    BY <1>1, <2>5 DEF RolloutInv, WholeInv, Whole
  <2> QED
    BY <1>3, <2>4, <2>7, <2>8, <2>9, <2>10, <2>11 DEF RolloutInv
<1>5. CASE Start(l) \/ End(l)
  <2>1. adopted' = adopted
    BY <1>5 DEF Start, End
  <2>2. Live' = Live /\ (Synced' <=> Synced)
    BY <1>1, <2>1 DEF Live, Synced
  <2>3. /\ \A m \in Ingress : m # l => request'[m] = request[m]
        /\ request'[l] # None => request'[l] \in history[adopted[l]]
        /\ request' \in [Ingress -> Endpoints \cup {None}]
    <3>1. adopted[l] \in 1 .. Version /\ history[adopted[l]] \in SUBSET Endpoints
      BY <1>2
    <3> QED
      BY <1>2, <1>5, <3>1 DEF Start, End, View
  <2>4. StateType'
    BY <1>1, <1>2, <2>1, <2>3 DEF StateType
  <2>5. adopted[l] \in 1 .. Version /\ adopted[l] \in Live
    BY <1>2 DEF Live
  <2>6. HistInv'
    BY <1>1, <2>3, <2>5 DEF RolloutInv, HistInv
  <2>7. SyncInv'
    BY <1>1, <2>2 DEF RolloutInv, SyncInv
  <2>8. EmptyInv'
    BY <1>1, <2>2, <2>3, <2>5 DEF RolloutInv, EmptyInv
  <2>9. CapInv'
    BY <1>1, <2>2 DEF RolloutInv, CapInv
  <2>10. WholeInv'
    BY <1>1, <2>2 DEF RolloutInv, WholeInv, Whole
  <2> QED
    BY <1>3, <2>4, <2>6, <2>7, <2>8, <2>9, <2>10 DEF RolloutInv
<1> QED
  BY <1>4, <1>5

\* The operator rolls back, from any phase.
LEMMA RollbackInv ==
    ASSUME RolloutInv, Rollback
    PROVE  RolloutInv'
<1> USE DEF Phases, Forward, Withdrawn, Building, Steady, Back
<1>1. /\ row \in RowType /\ StateType /\ CursorInv /\ OldInv /\ N \in Nat /\ N >= 2 /\ Gap \in Nat
      /\ row.region \in 1 .. N + 1 /\ row.status \in {"running", "blocked"} /\ todo = <<>>
      /\ row.old \in [Regions -> (SUBSET Endpoints) \cup {None}]
  BY Constants DEF RolloutInv, StateType, RowType, Rollback
<1>2. /\ UNCHANGED <<disc, history, todo, adopted, request, created, base>> /\ evidence' = Unseen
  BY DEF Rollback
<1>3. /\ row' \in RowType /\ row'.phase = "rollback_restore" /\ row'.region = 1 /\ row'.status = "running"
      /\ row'.id = row.id /\ row'.old = row.old
  <2>1. PICK n \in 1 .. N + 1 : n = 1
    BY <1>1
  <2> DEFINE t == ToRegion("rollback_restore", n)
  <2>2. /\ t \in RowType /\ t.phase = "rollback_restore" /\ t.region = n /\ t.id = row.id /\ t.old = row.old
    BY <1>1, ToRegionFields
  <2>3. row' = [t EXCEPT !.status = "running"]
    BY <2>1 DEF Rollback
  <2> HIDE DEF t
  <2> QED
    BY <2>1, <2>2, <2>3 DEF RowType
<1>4. /\ Version' = Version /\ Live' = Live /\ Serving(disc)' = Serving(disc) /\ (Synced' <=> Synced)
      /\ \A e : (New(e)' <=> New(e)) /\ (Act(e)' <=> Act(e))
  BY <1>2, <1>3 DEF Version, Live, Serving, Synced, New, Act
<1>5. StateType'
  BY <1>1, <1>2, <1>3, <1>4 DEF StateType, Unseen
<1>6. CursorInv' /\ SeenInv' /\ TodoInv' /\ EmptyInv' /\ CreatedInv'
  <2>1. CursorInv' /\ SeenInv' /\ TodoInv' /\ EmptyInv'
    BY <1>1, <1>2, <1>3 DEF CursorInv, SeenInv, TodoInv, EmptyInv
  <2>2. CreatedInv'
    BY <1>2, <1>3 DEF RolloutInv, CreatedInv
  <2> QED
    BY <2>1, <2>2
<1>7. OldInv'
  BY <1>1, <1>2, <1>3 DEF OldInv
<1>8. row.phase \in Forward \cup Back
  <2>1. row.phase \in Phases
    BY <1>1 DEF RowType
  <2> QED
    BY <1>1, <2>1 DEF CursorInv
<1>9. \A i \in 1 .. N : i = 1 \/ i > 1
  OBVIOUS
<1>10. DrainsInv'
  <2>1. ASSUME NEW i \in 1 .. N, Ro(i) \in disc.drains PROVE row.old[Ro(i)] # None
    <3>1. CASE row.phase \in Forward
      BY <1>1, <2>1, <3>1 DEF RolloutInv, DiscInv, DrainsInv, OldInv
    <3>2. CASE row.phase \in Back
      BY <2>1, <3>2 DEF RolloutInv, DiscInv, DrainsInv
    <3> QED
      BY <1>8, <3>1, <3>2
  <2> QED
    BY <1>2, <1>3, <1>9, <2>1 DEF DrainsInv
<1>11. MemberInv'
  BY <1>2, <1>3 DEF RolloutInv, DiscInv, MemberInv
<1>12. RegionInv'
  <2>1. SUFFICES ASSUME NEW i \in 1 .. N
                 PROVE  IF row.old[Ro(i)] = None THEN Restored(i)'
                        ELSE \A e \in Reg(i) : Act(e)' => New(e)' \/ e \in base'
    BY <1>3, <1>9 DEF RegionInv
  <2>2. Restored(i)' <=> Restored(i)
    BY <1>2, <1>4 DEF Restored
  <2>3. CASE row.phase \in Forward
    <3>1. /\ i < row.region => Replaced(i)
          /\ i > row.region => Fresh(i)
          /\ i = row.region => Current(i)
      BY <2>3 DEF RolloutInv, DiscInv, RegionInv
    <3>2. Fresh(i) => Restored(i) /\ \A e \in Reg(i) : Act(e) => e \in base
      BY DEF Fresh, Restored
    <3>3. Replaced(i) => \A e \in Reg(i) : Act(e) => New(e)
      BY DEF Replaced
    <3>4. CASE row.old[Ro(i)] = None
      <4>1. i > row.region \/ (i = row.region /\ row.phase = "preflight")
        BY <1>1, <2>3, <3>4 DEF OldInv
      <4>2. Fresh(i)
        BY <3>1, <4>1 DEF Current
      <4> QED
        BY <2>2, <3>2, <3>4, <4>2
    <3>5. CASE row.old[Ro(i)] # None
      <4>1. Current(i) /\ i = row.region => \A e \in Reg(i) : Act(e) => New(e) \/ e \in base
        <5>1. SUFFICES ASSUME Current(i), i = row.region PROVE \A e \in Reg(i) : Act(e) => New(e) \/ e \in base
          OBVIOUS
        <5>2. row.phase \in Withdrawn \cup {"preflight", "wait_restored", "bake"}
          BY <1>1, <2>3, <5>1 DEF CursorInv
        <5>3. CASE row.phase \in {"preflight", "exclude_region", "wait_drained"}
          BY <3>2, <5>1, <5>3 DEF Current
        <5>4. CASE row.phase \in {"create_slot", "creating"}
          BY <5>1, <5>4 DEF Current, Made
        <5>5. CASE row.phase \in {"probe_candidates", "mark_old_draining"}
          BY <5>1, <5>5 DEF Current
        <5>6. CASE row.phase \in {"restore_region", "wait_restored", "bake"}
          BY <3>3, <5>1, <5>6 DEF Current
        <5> QED
          BY <5>2, <5>3, <5>4, <5>5, <5>6
      <4>2. i < row.region \/ i > row.region \/ i = row.region
        BY <1>1
      <4>3. \A e \in Reg(i) : Act(e) => New(e) \/ e \in base
        BY <3>1, <3>2, <3>3, <4>1, <4>2
      <4> QED
        BY <1>2, <1>4, <3>5, <4>3
    <3> QED
      BY <3>4, <3>5
  <2>4. CASE row.phase \in Back
    <3>1. IF row.old[Ro(i)] = None \/ i < row.region \/ (i = row.region /\ row.phase = "rollback_wait")
          THEN Restored(i)
          ELSE \A e \in Reg(i) : Act(e) => New(e) \/ e \in base
      BY <2>4 DEF RolloutInv, DiscInv, RegionInv
    <3>2. Restored(i) => \A e \in Reg(i) : Act(e) => New(e) \/ e \in base
      BY DEF Restored
    <3> QED
      BY <1>2, <1>4, <2>2, <3>1, <3>2
  <2> QED
    BY <1>8, <2>3, <2>4
<1>13. HistInv'
  BY <1>2, <1>3, <1>4 DEF RolloutInv, HistInv
<1>14. SyncInv'
  <2>1. SUFFICES ASSUME \A i \in 1 .. N : row.old[Ro(i)] = None PROVE Synced
    BY <1>3, <1>4 DEF SyncInv
  <2>2. CASE row.phase \in Forward
    <3>1. row.region = 1 /\ row.phase = "preflight"
      BY <1>1, <2>1, <2>2 DEF OldInv
    <3> QED
      BY <3>1 DEF RolloutInv, SyncInv
  <2>3. CASE row.phase \in Back
    <3>1. row.phase = "rollback_restore"
      <4>1. row.phase = "rollback_wait" => row.region \in 1 .. N
        BY <1>1, InRegion DEF CursorInv
      <4> QED
        BY <1>1, <2>1, <2>3, <4>1 DEF OldInv
    <3>2. \A i \in row.region .. N : row.old[Ro(i)] = None
      BY <1>1, <2>1
    <3> QED
      BY <3>1, <3>2 DEF RolloutInv, SyncInv
  <2> QED
    BY <1>8, <2>2, <2>3
<1>15. CapInv'
  BY <1>2, <1>3 DEF RolloutInv, CapInv
<1>16. WholeInv'
  <2>1. WholeInv
    BY DEF RolloutInv
  <2>2. \E k \in 1 .. N : \A i \in 1 .. N \ {k} :
          /\ Ro(i) \notin disc.drains
          /\ (\A e \in Reg(i) : New(e) => Act(e)) \/ (\A e \in Reg(i) : e \in base => Act(e))
          /\ \A v \in Live : Whole(history[v], i)
    <3>1. CASE row.phase \in Back
      BY <2>1, <3>1 DEF WholeInv
    <3>2. CASE row.phase \in Forward
      <4>1. PICK k \in 1 .. N : Regional => k = row.region
        <5>1. Regional => row.region \in 1 .. N
          BY <1>1, InRegion
        <5>2. 1 \in 1 .. N
          BY <1>1
        <5> QED
          BY <5>1, <5>2
      <4>2. SUFFICES ASSUME NEW i \in 1 .. N \ {k}
                     PROVE  /\ Ro(i) \notin disc.drains
                            /\ (\A e \in Reg(i) : New(e) => Act(e)) \/ (\A e \in Reg(i) : e \in base => Act(e))
                            /\ \A v \in Live : Whole(history[v], i)
        OBVIOUS
      <4>3. i # row.region
        BY <1>1, <4>1, <4>2 DEF Regional, N
      <4>4. Ro(i) \notin disc.drains
        BY <3>2, <4>3 DEF RolloutInv, DiscInv, DrainsInv
      <4>5. Replaced(i) \/ Fresh(i)
        BY <1>1, <3>2, <4>3 DEF RolloutInv, DiscInv, RegionInv
      <4>6. (\A e \in Reg(i) : New(e) => Act(e)) \/ (\A e \in Reg(i) : e \in base => Act(e))
        BY <4>5 DEF Replaced, Fresh
      <4>7. \A v \in Live : Whole(history[v], i)
        BY <2>1, <3>2, <4>3 DEF WholeInv
      <4> QED
        BY <4>4, <4>6, <4>7
    <3> QED
      BY <1>8, <3>1, <3>2
  <2> QED
    BY <1>2, <1>3, <1>4, <2>1, <2>2 DEF WholeInv, Whole
<1> QED
  BY <1>5, <1>6, <1>7, <1>10, <1>11, <1>12, <1>13, <1>14, <1>15, <1>16 DEF RolloutInv, DiscInv

\* A new row is the first place of the plan.
LEMMA NewRowFields ==
    ASSUME NEW n \in 1 .. MaxOps
    PROVE  /\ NewRow(n) \in RowType /\ NewRow(n).id = n /\ NewRow(n).status = "running"
           /\ NewRow(n).phase = "preflight" /\ NewRow(n).region = 1 /\ NewRow(n).slot = 0
           /\ NewRow(n).deadline = None /\ NewRow(n).seen = None
           /\ NewRow(n).old = [r \in Regions |-> None]
<1> DEFINE T == (SUBSET Endpoints) \cup {None}
<1>0. None \in T
  OBVIOUS
<1>1. PICK o \in [Regions -> T] : o = [r \in Regions |-> None]
  <2> HIDE DEF T
  <2> QED
    BY <1>0
<1>2. PICK p \in Phases : p = "preflight"
  BY DEF Phases
<1>5. PICK k \in 1 .. N + 1 : k = 1
  BY Constants
<1>6. PICK z \in Nat, w \in Nat \cup {None} : z = 0 /\ w = None
  OBVIOUS
<1>3. NewRow(n) = [id |-> n, status |-> "running", phase |-> p, region |-> k, slot |-> z,
                   deadline |-> w, seen |-> w, old |-> o]
  BY <1>1, <1>2, <1>5, <1>6 DEF NewRow
<1>4. NewRow(n) \in RowType
  BY <1>3 DEF RowType
<1> QED
  BY <1>1, <1>2, <1>3, <1>4, <1>5, <1>6

\* What serves when an operation has ended: all of its candidates, or the base.
LEMMA SettledServing ==
    ASSUME RolloutInv, AwayInv, row.status \notin {"running", "blocked"}
    PROVE  /\ row.status \in {"passed", "rolled_back"} /\ Synced /\ disc.drains = {}
           /\ Serving(disc) \in SUBSET Endpoints
           /\ \A e \in Endpoints : e \in Serving(disc) <=> Act(e)
           /\ \A e \in Endpoints : e[2] \in Elsewhere => Act(e) /\ e \in base
           /\ row.status = "passed" =>
                 row.phase = "passed" /\ \A e \in Endpoints : e[2] \notin Elsewhere => (Act(e) <=> New(e))
           /\ row.status = "rolled_back" => /\ row.phase = "rolled_back"
                                            /\ \A e \in Endpoints : Act(e) <=> e \in base
<1> USE DEF Forward, Withdrawn, Building, Steady, Back
<1>1. /\ row.status \in {"passed", "rolled_back"} /\ disc.members \in SUBSET Endpoints /\ N \in Nat
      /\ row.status = "passed" => row.phase = "passed"
      /\ row.status = "rolled_back" => row.phase = "rolled_back"
  BY Constants DEF RolloutInv, StateType, RowType, CursorInv
<1>2. row.region = N + 1 /\ row.phase \in {"passed", "rolled_back"}
  BY <1>1 DEF RolloutInv, CursorInv
<1>3. Synced /\ disc.drains = {}
  BY <1>2 DEF RolloutInv, SyncInv, DiscInv, DrainsInv
<1>4. \A i \in 1 .. N : i < row.region
  BY <1>1, <1>2
<1>8. ASSUME NEW e \in Endpoints, e[2] \in Elsewhere PROVE Act(e) /\ e \in base
  <2>1. Version \in 1 .. Version /\ history[Version] = Serving(disc)
    BY DEF RolloutInv, StateType, HistInv, Version
  <2>2. e \in Serving(disc) /\ e \in base
    BY <1>8, <2>1 DEF AwayInv
  <2> QED
    BY <2>2 DEF Serving, Act
<1>5. ASSUME row.phase = "passed", NEW e \in Endpoints, e[2] \notin Elsewhere PROVE Act(e) <=> New(e)
  <2>1. PICK i \in 1 .. N : e \in Reg(i)
    BY <1>5, RegionsApart
  <2>2. Replaced(i)
    BY <1>4, <1>5 DEF RolloutInv, DiscInv, RegionInv
  <2> QED
    BY <2>1, <2>2 DEF Replaced
<1>6. ASSUME row.phase = "rolled_back", NEW e \in Endpoints PROVE Act(e) <=> e \in base
  <2>1. ASSUME NEW i \in 1 .. N, e \in Reg(i) PROVE Act(e) <=> e \in base
    <3>1. Restored(i)
      BY <1>4, <1>6 DEF RolloutInv, DiscInv, RegionInv
    <3> QED
      BY <2>1, <3>1 DEF Restored
  <2> QED
    BY <1>8, <2>1, RegionsApart
<1>7. Serving(disc) \in SUBSET Endpoints /\ \A e \in Endpoints : e \in Serving(disc) <=> Act(e)
  BY <1>1, <1>3 DEF Serving, Act
<1> QED
  BY <1>1, <1>3, <1>5, <1>6, <1>7, <1>8

\* The next operation is admitted.
LEMMA AdmitInv ==
    ASSUME RolloutInv, AwayInv, Admit
    PROVE  RolloutInv'
<1> USE DEF Phases, Forward, Withdrawn, Building, Steady, Back
<1>1. /\ row \in RowType /\ StateType /\ HistInv /\ WholeInv /\ N \in Nat /\ N >= 2 /\ MaxOps \in Nat
      /\ row.id \in 1 .. MaxOps /\ row.id < MaxOps
  BY Constants DEF RolloutInv, StateType, RowType, Admit
<1>2. /\ UNCHANGED <<disc, history, todo, adopted, request, created, evidence>> /\ base' = Serving(disc)
  BY DEF Admit
<1>3. /\ row.status \in {"passed", "rolled_back"} /\ Synced /\ disc.drains = {}
      /\ Serving(disc) \in SUBSET Endpoints
      /\ \A e \in Endpoints : e \in Serving(disc) <=> Act(e)
      /\ row.status = "passed" =>
            row.phase = "passed" /\ \A e \in Endpoints : e[2] \notin Elsewhere => (Act(e) <=> New(e))
      /\ row.status = "rolled_back" => /\ row.phase = "rolled_back"
                                       /\ \A e \in Endpoints : Act(e) <=> e \in base
  BY SettledServing DEF Admit
<1>4. todo = <<>>
  BY <1>3 DEF RolloutInv, TodoInv
<1>5. /\ row' \in RowType /\ row'.id = row.id + 1 /\ row'.status = "running" /\ row'.phase = "preflight"
      /\ row'.region = 1 /\ row'.old = [r \in Regions |-> None] /\ row'.slot = 0
      /\ row'.deadline = None /\ row'.seen = None
  <2>1. row' = NewRow(row.id + 1)
    BY DEF Admit
  <2>2. row.id + 1 \in 1 .. MaxOps /\ 1 \in 1 .. N + 1
    BY <1>1
  <2> QED
    BY <2>1, <2>2, NewRowFields
<1>6. /\ Version' = Version /\ Live' = Live /\ Serving(disc)' = Serving(disc) /\ (Synced' <=> Synced)
      /\ \A e : Act(e)' <=> Act(e)
  BY <1>2 DEF Version, Live, Serving, Synced, Act
<1>7. \A v \in Live : history[v] = Serving(disc)
  BY <1>1, <1>3, LiveSynced
<1>8. \A e \in disc.members : e \in Endpoints /\ e[1] <= row.id /\ e[1] \in Nat
  BY <1>1, EndpointParts DEF RolloutInv, DiscInv, MemberInv, StateType
<1>9. \A e : New(e)' => e \notin disc.members
  BY <1>1, <1>5, <1>8 DEF New
<1>10. StateType'
  BY <1>1, <1>2, <1>3, <1>5, <1>6 DEF StateType
<1>11. CursorInv' /\ TodoInv' /\ EmptyInv' /\ SeenInv'
  <2>1. Regional'
    BY <1>1, <1>5 DEF Regional, N
  <2> QED
    BY <1>2, <1>4, <1>5, <2>1 DEF CursorInv, TodoInv, EmptyInv, SeenInv
<1>12. OldInv'
  <2>1. \A i \in 1 .. N : row'.old[Ro(i)] = None /\ ~(i < 1)
    BY <1>5, Constants
  <2> QED
    BY <1>5, <2>1 DEF OldInv
<1>13. \A i \in 1 .. N : Fresh(i)'
  <2>1. \A i \in 1 .. N : \A e \in Reg(i) : e \in Endpoints
    BY DEF Reg
  <2> QED
    BY <1>2, <1>3, <1>6, <1>9, <2>1 DEF Fresh
<1>14. DrainsInv' /\ RegionInv'
  <2>1. DrainsInv'
    BY <1>2, <1>3, <1>5 DEF DrainsInv
  <2>2. \A i \in 1 .. N : Current(i)' /\ ~(i < 1)
    BY <1>5, <1>13 DEF Current
  <2> QED
    BY <1>5, <1>13, <2>1, <2>2 DEF RegionInv
<1>15. \A i \in 1 .. N : Whole(Serving(disc), i)
  <2>1. SUFFICES ASSUME NEW i \in 1 .. N PROVE Whole(Serving(disc), i)
    OBVIOUS
  <2>2. \A e \in Reg(i) : e \in Endpoints /\ e[2] \notin Elsewhere
    BY RegionsApart DEF Reg
  <2>3. (\A e \in Reg(i) : New(e) => e \in Serving(disc)) \/ (\A e \in Reg(i) : e \in base => e \in Serving(disc))
    BY <1>3, <2>2
  <2> QED
    BY <1>1, <2>3, WholeBy
<1>16. \A i \in 1 .. N : Serving(disc) \cap Reg(i) # {}
  <2>1. SUFFICES ASSUME NEW i \in 1 .. N PROVE Serving(disc) \cap Reg(i) # {}
    OBVIOUS
  <2>2. CASE row.status = "passed"
    <3>1. Ro(i) \in Regions /\ 0 \in 0 .. Size[Ro(i)] - 1
      BY Constants
    <3>2. PICK e \in Endpoints : e[1] = row.id /\ e[2] = Ro(i)
      <4>1. PICK z \in 0 .. Size[Ro(i)] - 1 : z = 0
        BY <3>1
      <4>2. <<row.id, Ro(i), z>> \in Endpoints /\ <<row.id, Ro(i), z>>[1] = row.id
            /\ <<row.id, Ro(i), z>>[2] = Ro(i)
        BY <1>1, <3>1, EndpointParts
      <4> QED
        BY <4>2
    <3>3. New(e) /\ e \in Reg(i) /\ e[2] \notin Elsewhere
      BY <3>1, <3>2, Constants DEF New, Reg
    <3> QED
      BY <1>3, <2>2, <3>3
  <2>3. CASE row.status = "rolled_back"
    <3>1. PICK e \in base : e \in Reg(i)
      BY DEF RolloutInv, DiscInv, MemberInv
    <3>2. e \in Endpoints
      BY <3>1 DEF Reg
    <3> QED
      BY <1>3, <2>3, <3>1, <3>2
  <2> QED
    BY <1>3, <2>2, <2>3
<1>17. MemberInv'
  <2>1. \A e \in Serving(disc) : e \in disc.members
    BY DEF Serving
  <2>2. \A e \in disc.members : e[1] <= row'.id /\ e[1] < row'.id
    BY <1>1, <1>5, <1>8
  <2>3. disc.draining \subseteq disc.members
    BY DEF RolloutInv, DiscInv, MemberInv
  <2> QED
    BY <1>2, <1>16, <2>1, <2>2, <2>3 DEF MemberInv
<1>18. HistInv'
  BY <1>1, <1>2, <1>5, <1>6 DEF HistInv
<1>19. SyncInv'
  BY <1>3, <1>5, <1>6 DEF SyncInv
<1>20. CreatedInv'
  <2>1. \A e \in Endpoints : created[e] <= 1 /\ (e[1] > row.id => created[e] = 0) /\ e[1] \in Nat
    BY EndpointParts DEF RolloutInv, CreatedInv
  <2>2. \A e \in Endpoints : (e[1] > row'.id => created[e] = 0) /\ (New(e)' => created[e] = 0)
    BY <1>1, <1>5, <2>1 DEF New
  <2>3. \A i \in 1 .. N : \A e \in Reg(i) : e \in Endpoints
    BY DEF Reg
  <2> QED
    BY <1>2, <2>1, <2>2, <2>3 DEF CreatedInv
<1>21. CapInv'
  <2>1. \A v \in Live : Cardinality(history[v]) >= Minimum
    BY <1>3 DEF RolloutInv, CapInv
  <2>2. Version \in Live /\ history[Version] = Serving(disc)
    BY <1>1 DEF HistInv, Live, StateType, Version
  <2>3. Cardinality(Serving(disc)) >= Minimum
    BY <2>1, <2>2
  <2> QED
    BY <1>2, <1>5, <1>6, <2>1, <2>3 DEF CapInv
<1>22. WholeInv'
  <2>1. \A v \in Live, i \in 1 .. N : Whole(history[v], i)
    BY <1>7, <1>15
  <2> QED
    BY <1>2, <1>5, <1>6, <1>15, <2>1 DEF WholeInv, Whole
<1> QED
  BY <1>10, <1>11, <1>12, <1>14, <1>17, <1>18, <1>19, <1>20, <1>21, <1>22 DEF RolloutInv, DiscInv

\* The invariant holds at the first admission, with the baseline in service.
LEMMA InitInv ==
    ASSUME Init
    PROVE  RolloutInv
<1> USE DEF Phases, Forward, Withdrawn, Building, Steady, Back
<1>1. N \in Nat /\ N >= 2 /\ MaxOps \in Nat /\ MaxOps > 0 /\ Gap \in Nat /\ Minimum \in Nat /\ Len(RegionOrder) = N
  BY Constants DEF N
<1>2. /\ row \in RowType /\ row.id = 1 /\ row.status = "running" /\ row.phase = "preflight"
      /\ row.region = 1 /\ row.old = [r \in Regions |-> None] /\ row.slot = 0
      /\ row.deadline = None /\ row.seen = None
  <2>1. row = NewRow(1)
    BY DEF Init
  <2>2. 1 \in 1 .. MaxOps /\ 1 \in 1 .. N + 1
    BY <1>1
  <2> QED
    BY <2>1, <2>2, NewRowFields
<1>3. /\ disc.members = Baseline /\ disc.draining = {} /\ disc.drains = {} /\ base = Baseline
      /\ disc = [members |-> Baseline, draining |-> {}, drains |-> {}]
      /\ history = <<Baseline>> /\ todo = <<>> /\ evidence = Unseen
      /\ adopted = [l \in Ingress |-> 1] /\ request = [l \in Ingress |-> None]
      /\ created = [e \in Endpoints |-> 0]
  BY DEF Init
<1>4. Baseline \in SUBSET Endpoints /\ \A e \in Baseline : e[1] = 0
  BY EndpointParts
<1>5. Version = 1 /\ history[1] = Baseline /\ history \in Seq(SUBSET Endpoints)
  BY <1>3, <1>4 DEF Version
<1>6. Serving(disc) = Baseline
  BY <1>3 DEF Serving
<1>7. StateType
  BY <1>1, <1>2, <1>3, <1>4, <1>5 DEF StateType, Unseen
<1>8. CursorInv /\ TodoInv /\ EmptyInv /\ SeenInv
  <2>1. Regional
    BY <1>1, <1>2 DEF Regional
  <2> QED
    BY <1>2, <1>3, <2>1 DEF CursorInv, TodoInv, EmptyInv, SeenInv
<1>9. OldInv
  <2>1. \A i \in 1 .. N : row.old[Ro(i)] = None /\ ~(i < 1)
    BY <1>2, Constants
  <2> QED
    BY <1>2, <2>1 DEF OldInv
<1>10. \A i \in 1 .. N : Fresh(i) /\ Whole(Baseline, i) /\ Baseline \cap Reg(i) # {}
  <2>1. SUFFICES ASSUME NEW i \in 1 .. N PROVE Fresh(i) /\ Whole(Baseline, i) /\ Baseline \cap Reg(i) # {}
    OBVIOUS
  <2>2. Fresh(i)
    BY <1>2, <1>3, <1>4 DEF Fresh, Act, New
  <2>3. \A e \in Reg(i) : e[1] = 0 => e \in Baseline
    BY EndpointParts DEF Reg
  <2>4. 0 \in 0 .. MaxOps
    BY <1>1
  <2>5. Whole(Baseline, i)
    BY <2>3, <2>4 DEF Whole
  <2>6. Ro(i) \in Regions /\ 0 \in 0 .. Was[Ro(i)] - 1
    BY Constants
  <2>7. PICK e \in Baseline : e = <<0, Ro(i), 0>>
    BY <2>6, EndpointParts
  <2>8. e \in Reg(i)
    BY <1>4, <2>7 DEF Reg
  <2> QED
    BY <2>2, <2>5, <2>8
<1>11. DiscInv
  <2>1. DrainsInv
    BY <1>2, <1>3 DEF DrainsInv
  <2>2. MemberInv
    BY <1>2, <1>3, <1>4, <1>10 DEF MemberInv
  <2>3. \A i \in 1 .. N : Current(i) /\ ~(i < 1)
    BY <1>2, <1>10 DEF Current
  <2>4. RegionInv
    BY <1>2, <1>10, <2>3 DEF RegionInv
  <2> QED
    BY <2>1, <2>2, <2>4 DEF DiscInv
<1>12. HistInv
  BY <1>2, <1>3, <1>5, <1>6 DEF HistInv
<1>13. SyncInv
  BY <1>2, <1>3, <1>5 DEF SyncInv, Synced
<1>14. CreatedInv
  <2>1. \A i \in 1 .. N : \A e \in Reg(i) : e \in Endpoints
    BY DEF Reg
  <2> QED
    BY <1>3, <2>1 DEF CreatedInv
<1>15. \A v \in Live : history[v] = Baseline
  BY <1>5 DEF Live
<1>16. CapInv
  BY <1>2, <1>3, <1>15, BaselineBudget DEF CapInv
<1>17. WholeInv
  BY <1>2, <1>3, <1>10, <1>15 DEF WholeInv
<1> QED
  BY <1>7, <1>8, <1>9, <1>11, <1>12, <1>13, <1>14, <1>16, <1>17 DEF RolloutInv

-----------------------------------------------------------------------------
(* Theorems *)

\* A step that changes nothing.
LEMMA StutterInv ==
    ASSUME RolloutInv, UNCHANGED vars
    PROVE  RolloutInv'
<1>1. /\ UNCHANGED <<row, disc, history, todo, created, base, evidence>>
      /\ UNCHANGED <<disc, history, adopted, request, base>>
      /\ created' = created
  BY DEF vars
<1>2. SamePlace
  BY <1>1 DEF SamePlace
<1>3. CursorInv' /\ OldInv' /\ DiscInv' /\ TodoInv' /\ CreatedInv' /\ SeenInv'
  BY <1>1, IngressKept
<1>4. HistInv' /\ SyncInv' /\ EmptyInv' /\ CapInv' /\ WholeInv'
  BY <1>1, <1>2, PlaceKept
<1>5. Version' = Version
  BY <1>1 DEF Version
<1>6. StateType'
  BY <1>1, <1>5 DEF RolloutInv, StateType
<1> QED
  BY <1>3, <1>4, <1>6 DEF RolloutInv

\* At first, everything serves.
LEMMA InitAway == Init => AwayInv
<1> SUFFICES ASSUME Init, NEW e \in Endpoints, e[2] \in Elsewhere
             PROVE  e \in base /\ \A v \in 1 .. Version : e \in history[v]
  BY DEF AwayInv
<1>1. e \in Baseline
  BY EndpointParts, Constants
<1>2. Version = 1 /\ history[1] = Baseline /\ base = Baseline
  BY DEF Init, Version
<1> QED
  BY <1>1, <1>2

\* No step withdraws an endpoint of a region that the request does not name: calls
\* of service_discovery are for the region of the row.
LEMMA NextAway ==
    ASSUME RolloutInv, AwayInv, [Next]_vars
    PROVE  AwayInv'
<1>1. /\ Version \in Nat /\ Version \in 1 .. Version /\ history[Version] = Serving(disc)
  BY DEF RolloutInv, StateType, HistInv, Version
<1>2. ASSUME history' = history, base' = base \/ base' = Serving(disc) PROVE AwayInv'
  <2>1. Version' = Version
    BY <1>2 DEF Version
  <2> QED
    BY <1>1, <1>2, <2>1 DEF AwayInv
<1>3. CASE Tick
  <2>1. Others /\ (Phase \/ Write \/ Compensate \/ Fail \/ Crash) /\ base' = base
    BY <1>3 DEF Tick, Others
  <2>2. CursorStep \/ BlockStep \/ QuietStep \/ DiscStep \/ CreateStep
    BY <2>1, TickMoves
  <2>3. CASE DiscStep
    <3>1. \A e : e[2] # R => (e \in Serving(disc') <=> e \in Serving(disc))
      BY <2>3, ServingOutside
    <3>2. R \notin Elsewhere
      <4>1. Regional
        BY <2>3, DiscCases
      <4> QED
        BY <4>1, InRegion, Constants DEF RolloutInv
    <3>3. /\ \A v \in 1 .. Version : history'[v] = history[v]
          /\ \A v \in 1 .. Version' : v \in 1 .. Version \/ v = Version'
          /\ history'[Version'] = Serving(disc')
      BY <2>1, <2>3, Versions
    <3>4. SUFFICES ASSUME NEW e \in Endpoints, e[2] \in Elsewhere
                   PROVE  e \in base' /\ \A v \in 1 .. Version' : e \in history'[v]
      BY DEF AwayInv
    <3>5. e \in base /\ (\A v \in 1 .. Version : e \in history[v]) /\ e \in Serving(disc)
      BY <1>1, <3>4 DEF AwayInv
    <3>6. e \in Serving(disc')
      BY <3>1, <3>2, <3>4, <3>5
    <3> QED
      BY <2>1, <3>3, <3>5, <3>6
  <2>4. CASE CursorStep \/ BlockStep \/ QuietStep \/ CreateStep
    <3>1. history' = history
      BY <2>4 DEF CursorStep, BlockStep, QuietStep, CreateStep, Same
    <3> QED
      BY <1>2, <2>1, <3>1
  <2> QED
    BY <2>2, <2>3, <2>4
<1>4. CASE Resume \/ Rollback \/ Clock \/ Admit \/ UNCHANGED vars
  BY <1>2, <1>4 DEF Resume, Rollback, Clock, Admit, vars
<1>5. ASSUME NEW l \in Ingress, Refresh(l) \/ Start(l) \/ End(l) PROVE AwayInv'
  BY <1>2, <1>5 DEF Refresh, Start, End
<1> QED
  BY <1>3, <1>4, <1>5 DEF Next

\* The inductive invariant holds in every state of the rollout: for each phase,
\* which endpoints of each region serve, which writes are still to do, and what
\* any version holds that an ingress may still route by.
THEOREM RolloutInvariant == Spec => []ServiceInv
<1>1. Init => ServiceInv
  BY InitInv, InitAway DEF ServiceInv
<1>2. ServiceInv /\ [Next]_vars => ServiceInv'
  <2> SUFFICES ASSUME RolloutInv, AwayInv, [Next]_vars
               PROVE  RolloutInv'
    BY NextAway DEF ServiceInv
  <2>1. CASE Tick
    BY <2>1, TickInv
  <2>2. CASE Resume
    BY <2>2, ResumeInv
  <2>3. CASE Rollback
    BY <2>3, RollbackInv
  <2>4. CASE Admit
    BY <2>4, AdmitInv
  <2>5. CASE Clock
    BY <2>5, ClockInv
  <2>6. CASE \E l \in Ingress : Refresh(l) \/ Start(l) \/ End(l)
    BY <2>6, IngressInv
  <2>7. CASE UNCHANGED vars
    BY <2>7, StutterInv
  <2> QED
    BY <2>1, <2>2, <2>3, <2>4, <2>5, <2>6, <2>7 DEF Next
<1> QED
  BY <1>1, <1>2, PTL DEF Spec

\* An ingress routes by a version that is live, and its view has endpoints only.
LEMMA ViewLive ==
    ASSUME RolloutInv, NEW l \in Ingress
    PROVE  adopted[l] \in Live /\ View(l) = history[adopted[l]] /\ View(l) \in SUBSET Endpoints
           /\ adopted[l] \in 1 .. Version /\ Version \in Nat
<1>1. /\ adopted[l] \in 1 .. Version /\ Version \in Nat
      /\ \A v \in 1 .. Version : history[v] \in SUBSET Endpoints
  BY DEF RolloutInv, StateType, Version
<1> QED
  BY <1>1 DEF Live, View

\* The row is always a cursor of the plan, the drains are of members, and no
\* ingress is ahead of the discovery set.
THEOREM TypeCorrect == Spec => []TypeOK
<1>1. ServiceInv => TypeOK
  <2> SUFFICES ASSUME RolloutInv
               PROVE  TypeOK
    BY DEF ServiceInv
  <2>1. /\ row.id \in 1 .. MaxOps /\ row.status \in {"running", "blocked", "passed", "rolled_back"}
        /\ row.phase \in Phases /\ row.region \in 1 .. Len(RegionOrder) + 1 /\ row.slot \in Nat
        /\ disc.members \subseteq Endpoints /\ disc.drains \subseteq Regions
        /\ \A l \in Ingress : adopted[l] \in 1 .. Version /\ request[l] \in Endpoints \cup {None}
    BY DEF RolloutInv, StateType, RowType, N
  <2>2. disc.draining \subseteq disc.members
    BY DEF RolloutInv, DiscInv, MemberInv
  <2>3. row.phase \notin {"verify", "passed", "rollback_restore", "rolled_back"} => Regional
    BY <2>1 DEF RolloutInv, CursorInv, Phases, Withdrawn, Building
  <2>4. row.phase \in {"create_slot", "creating"} => row.slot \in 0 .. Size[R]
    <3>1. row.phase \in {"create_slot", "creating"} => Regional
      BY <2>3
    <3>2. Regional => Size[R] \in Nat
      BY <2>1, Constants DEF Regional, R, Ro, N
    <3>3. (row.phase = "create_slot" => row.slot <= Size[R]) /\ (row.phase = "creating" => row.slot < Size[R])
      BY DEF RolloutInv, CursorInv
    <3> QED
      BY <2>1, <3>1, <3>2, <3>3
  <2>5. row.phase = "creating" => row.slot < Size[R]
    BY DEF RolloutInv, CursorInv
  <2> QED
    BY <2>1, <2>2, <2>3, <2>4, <2>5 DEF TypeOK
<1> QED
  BY <1>1, RolloutInvariant, PTL

\* Every ingress keeps the serving budget, whatever version it routes by, outside
\* of the region under replacement, and in a rollback where any mixture of
\* restored and replaced regions meets it.
THEOREM CapacityAlways == Spec => []CapacityKept
<1>1. ServiceInv => CapacityKept
  <2> USE DEF Withdrawn, Building, Steady, Back, Phases
  <2> SUFFICES ASSUME RolloutInv, AwayInv,
                      row.phase \in {"rollback_restore", "rollback_wait"} => MixedBudget,
                      NEW l \in Ingress
               PROVE  Cardinality({e \in View(l) : Replacing => e[2] # R}) >= Minimum
    BY DEF CapacityKept, ServiceInv
  <2>1. /\ adopted[l] \in Live /\ View(l) = history[adopted[l]] /\ View(l) \in SUBSET Endpoints
        /\ adopted[l] \in 1 .. Version
    BY ViewLive
  <2>2. row.phase \in Phases
    BY DEF RolloutInv, StateType, RowType
  <2>3. CASE row.phase \in Withdrawn
    <3>1. {e \in View(l) : Replacing => e[2] # R} = {e \in history[adopted[l]] : e[2] # R}
      BY <2>1, <2>3 DEF Replacing
    <3> QED
      BY <2>1, <2>3, <3>1 DEF RolloutInv, CapInv
  <2>4. ASSUME row.phase \notin Withdrawn
        PROVE  {e \in View(l) : Replacing => e[2] # R} = View(l)
    BY <2>4 DEF Replacing
  <2>5. CASE row.phase \in Steady \cup {"rolled_back"}
    BY <2>1, <2>4, <2>5 DEF RolloutInv, CapInv
  <2>6. CASE row.phase = "wait_restored"
    <3> DEFINE T == {e \in View(l) : e[2] # R}
    <3>1. Cardinality(T) >= Minimum
      BY <2>1, <2>6 DEF RolloutInv, CapInv
    <3>2. T \in SUBSET View(l)
      OBVIOUS
    <3> HIDE DEF T
    <3>3. Cardinality(T) \in Nat /\ Cardinality(View(l)) \in Nat /\ Cardinality(T) <= Cardinality(View(l))
      BY <2>1, <3>2, Counted
    <3>4. Cardinality(View(l)) >= Minimum
      BY <3>1, <3>3, Constants
    <3> QED
      BY <2>4, <2>6, <3>4
  <2>7. CASE row.phase \in Back
    <3>1. PICK k \in 1 .. N : \A i \in 1 .. N \ {k} : \A v \in Live : Whole(history[v], i)
      BY <2>7 DEF RolloutInv, WholeInv
    <3>2. \A i \in 1 .. N \ {k} : Whole(View(l), i)
      BY <2>1, <3>1
    <3>3. MixedBudget
      BY <2>7
    <3>4. Cardinality(View(l)) >= Minimum
      <4>1. \A e \in Endpoints : e[2] \in Elsewhere => e \in View(l)
        BY <2>1 DEF AwayInv
      <4> QED
        BY <2>1, <3>2, <3>3, <4>1, WholeBudget
    <3> QED
      BY <2>4, <2>7, <3>4
  <2> QED
    BY <2>2, <2>3, <2>5, <2>6, <2>7
<1> QED
  BY <1>1, RolloutInvariant, PTL

\* No ingress routes to a region, or has a request in it, while it is rebuilt.
THEOREM DrainedFirst == Spec => []DrainedBeforeCreate
<1>1. ServiceInv => DrainedBeforeCreate
  BY ViewLive DEF ServiceInv, RolloutInv, EmptyInv, Building, DrainedBeforeCreate
<1> QED
  BY <1>1, RolloutInvariant, PTL

\* The VM of a candidate is requested once.
THEOREM RequestedOnce == Spec => []CreatedOnce
<1>1. ServiceInv => CreatedOnce
  BY DEF ServiceInv, RolloutInv, CreatedInv, CreatedOnce
<1> QED
  BY <1>1, RolloutInvariant, PTL

\* When an operation has ended, every ingress routes, in the regions of the
\* request, to exactly its candidates and elsewhere to what served at its
\* admission, or to all that served at its admission.
THEOREM SettledRight == Spec => []SettledServes
<1>1. ServiceInv => SettledServes
  <2> DEFINE Away == {e \in base : e[2] \in Elsewhere}
             All  == UNION {Slots(row.id, r) : r \in Regions}
  <2> SUFFICES ASSUME RolloutInv, AwayInv, NEW l \in Ingress, row.status \in {"passed", "rolled_back"}
               PROVE  /\ row.status = "passed" => View(l) = Away \cup All
                      /\ row.status = "rolled_back" => View(l) = base
    BY DEF SettledServes, ServiceInv
  <2>1. /\ Synced /\ Serving(disc) \in SUBSET Endpoints
        /\ \A e \in Endpoints : e \in Serving(disc) <=> Act(e)
        /\ \A e \in Endpoints : e[2] \in Elsewhere => Act(e) /\ e \in base
        /\ row.status = "passed" => \A e \in Endpoints : e[2] \notin Elsewhere => (Act(e) <=> New(e))
        /\ row.status = "rolled_back" => \A e \in Endpoints : Act(e) <=> e \in base
    BY SettledServing
  <2>2. View(l) = Serving(disc)
    BY <2>1 DEF RolloutInv, HistInv, Synced, View
  <2>3. row.id \in 1 .. MaxOps /\ base \in SUBSET Endpoints
    BY DEF RolloutInv, StateType, RowType
  <2>4. ASSUME row.status = "passed" PROVE View(l) = Away \cup All
    <3>1. \A e : e \in All <=> \E r \in Regions : e \in Slots(row.id, r)
      OBVIOUS
    <3>2. \A e : (\E r \in Regions : e \in Slots(row.id, r)) <=> e \in Endpoints /\ e[1] = row.id
      BY <2>3, EndpointParts
    <3>3. \A e \in Endpoints : e[1] = row.id => e[2] \notin Elsewhere
      BY <2>3, EndpointParts, Constants
    <3>4. \A e : e \in Serving(disc) <=> e \in Endpoints /\ (e[2] \in Elsewhere \/ e[1] = row.id)
      BY <2>1, <2>4, <3>3 DEF New
    <3>5. \A e : e \in Away <=> e \in Endpoints /\ e[2] \in Elsewhere
      BY <2>1, <2>3
    <3> HIDE DEF Away, All
    <3> QED
      BY <2>2, <3>1, <3>2, <3>4, <3>5
  <2>5. ASSUME row.status = "rolled_back" PROVE View(l) = base
    BY <2>1, <2>2, <2>3, <2>5
  <2> QED
    BY <2>4, <2>5
<1> QED
  BY <1>1, RolloutInvariant, PTL

\* A region leaves its bake only after Bake time in which it was seen healthy: the
\* deadline of the row never runs ahead of what was observed.
THEOREM BakeObserved == Spec => BakeIsObserved
<1> DEFINE Leaves == row.phase = "bake" /\ row'.phase \in {"preflight", "verify"}
           Seen   == evidence.since <= Gap /\ evidence.good + evidence.since >= Bake
<1>1. ASSUME RolloutInv, [Next]_vars, Leaves
      PROVE  Seen
  <2>0. row.status \in {"running", "blocked"} /\ row \in RowType
    BY <1>1 DEF RolloutInv, StateType, RowType, CursorInv
  <2>1. CASE Tick
    <3>1. base' = base /\ (Phase \/ Write \/ Compensate \/ Fail \/ Crash)
      BY <2>1 DEF Tick
    <3>2. CursorStep \/ BlockStep
      BY <1>1, <3>1, TickMoves
    <3>3. ~BlockStep
      BY <1>1, <2>0 DEF BlockStep, RowType
    <3>4. row.status = "running" /\ BakeDone
      BY <1>1, <3>2, <3>3 DEF CursorStep, SaveOld, Exclude, Drained, Intend, SlotDone, AllDone, Probed,
            OldGone, Included, Adopt, BakeOn, Moved, Pass, SkipBack, WaitBack, NextBack, BackDone
    <3>5. /\ evidence.since = row.seen /\ row.seen <= Gap /\ row.deadline = 0
          /\ evidence.good + evidence.since + row.deadline >= Bake
      BY <1>1, <3>4 DEF RolloutInv, SeenInv, BakeDone
    <3>6. evidence.good \in Nat /\ evidence.since \in Nat
      BY <1>1 DEF RolloutInv, StateType
    <3> QED
      BY <3>5, <3>6, Constants
  <2>2. CASE Resume \/ Clock
    BY <1>1, <2>0, <2>2 DEF Resume, Clock, RowType
  <2>3. CASE Rollback
    BY <1>1, <2>0, <2>3 DEF Rollback, ToRegion, To, RowType
  <2>4. CASE Admit
    BY <2>0, <2>4 DEF Admit
  <2>5. CASE (\E l \in Ingress : Refresh(l) \/ Start(l) \/ End(l)) \/ UNCHANGED vars
    BY <1>1, <2>5 DEF Refresh, Start, End, vars
  <2> QED
    BY <1>1, <2>1, <2>2, <2>3, <2>4, <2>5 DEF Next
<1>2. ServiceInv /\ [Next]_vars => (Leaves => Seen)
  BY <1>1 DEF ServiceInv
<1>3. ServiceInv /\ [Next]_vars => [Leaves => Seen]_vars
  BY <1>2
<1> QED
  BY <1>3, RolloutInvariant, PTL DEF Spec, BakeIsObserved

==============================================================================
