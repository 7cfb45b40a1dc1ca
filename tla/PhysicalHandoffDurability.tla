---------------------- MODULE PhysicalHandoffDurability ----------------------
(***************************************************************************)
(* Machine-checked proof that a handoff loses no commit: for any number of *)
(* generations, tenants and commits, and every set of operator actions and *)
(* faults, a VM on which tenants can write holds every commit that was     *)
(* ever acknowledged.                                                      *)
(*                                                                         *)
(* The argument.  All commits go to the one primary that was not granted   *)
(* away (PhysicalHandoffProofs), so that it holds them all.  Its barrier   *)
(* is read when it is shut, and no commit is above it from then on.  A     *)
(* candidate's WAL is a prefix of the WAL of the VM its generation was     *)
(* prepared for, and it is promoted when that prefix reaches the barrier   *)
(* of its grant: then it holds what the granting VM held.                  *)
(***************************************************************************)
EXTENDS PhysicalHandoffProofs

-----------------------------------------------------------------------------
(* The parts of the invariant *)

\* A journal holds one source record of a generation.
GenOnce ==
    \A n \in Nodes :
        /\ \A r \in ToSet(source[n].hist) : Src(n) # None /\ r.gen # Src(n).gen
        /\ \A r, q \in ToSet(source[n].hist) : r.gen = q.gen => r = q

\* A grant is for the record's own generation, at the barrier of its fence.
GrantFits ==
    \A n \in Nodes : \A r \in Records(source[n]) :
        r.grant # None => r.grant.cand = r.gen /\ r.grant.barrier = r.barrier

Prefix(s, t) == Len(s) <= Len(t) /\ \A i \in 1 .. Len(s) : s[i] = t[i]

\* The VM v is the one that generation g was prepared for.
SourceOf(g, v) == \E n \in Nodes : \E r \in Records(source[n]) : r.gen = g /\ r.vm = v

\* A candidate copies the VM its generation was prepared for.
CopyInv ==
    \A g \in Gens :
        /\ vm[g].mode \in {"seeding", "standby"} => SourceOf(g, vm[g].src)
        /\ vm[g].mode = "standby" => Prefix(vm[g].wal, vm[vm[g].src].wal)

\* A promotion begins when the barrier of the grant is replayed.
ReplayInv ==
    \A n \in Nodes : \A r \in Records(source[n]) :
        r.grant # None /\ vm[r.gen].promo # "none" => Lsn(r.gen) >= r.barrier

\* A ready barrier is above all commits of its VM.
BarrierInv ==
    \A n \in Nodes : \A r \in Records(source[n]) : r.fence = "ready" =>
        \A i \in 1 .. Lsn(r.vm) : vm[r.vm].wal[i] > 0 => i <= r.barrier

\* The primary that was not granted away holds every acknowledged commit; so does
\* the VM of a grant whose candidate is not promoted yet.
AckInv ==
    /\ \A v \in VMs : Ungranted(v) => acked \subseteq Commits(v)
    /\ \A n \in Nodes : \A r \in Records(source[n]) : Pending(n, r) => acked \subseteq Commits(r.vm)

CopyCore == GenOnce /\ GrantFits /\ CopyInv /\ ReplayInv /\ BarrierInv

DurableInv == CopyCore /\ AckInv

-----------------------------------------------------------------------------
(* Records *)

\* A generation has one source record on both nodes together.
LEMMA OneRecord ==
    ASSUME StateType, GenInv, GenOnce, NEW n \in Nodes, NEW m \in Nodes,
           NEW r \in Records(source[n]), NEW q \in Records(source[m]), r.gen = q.gen
    PROVE  n = m /\ r = q
<1>1. n = m
  BY PeerFacts DEF GenInv
<1>2. CASE Src(n) = None
  <2>1. Records(source[n]) = ToSet(source[n].hist)
    BY <1>2 DEF Records, Src
  <2> QED
    BY <1>1, <2>1 DEF GenOnce
<1>3. CASE Src(n) # None
  <2>1. Records(source[n]) = ToSet(source[n].hist) \cup {Src(n)}
    BY <1>3, RecordTypes
  <2> QED
    BY <1>1, <2>1 DEF GenOnce
<1> QED
  BY <1>2, <1>3

\* A promotion was granted, on the record of its generation.
LEMMA PromotionGranted ==
    ASSUME HandoffInv, GenOnce, NEW n \in Nodes, NEW r \in Records(source[n]),
           vm[r.gen].promo # "none"
    PROVE  r.grant # None
<1> USE PeerFacts DEF HandoffInv, Core
<1>1. r.gen \in Gens
  BY RecordTypes DEF SourceRecords
<1>2. PICK m \in Nodes : \E k \in Records(physical[m]) : k.gen = r.gen /\ handoff_started(k)
  BY <1>1 DEF PromoteInv
<1>3. PICK q \in Records(source[Peer(m)]) : q.gen = r.gen /\ q.grant # None
  BY <1>2 DEF PromoteInv, Granted
<1> QED
  BY <1>3, OneRecord

-----------------------------------------------------------------------------
(* Steps that write a source journal *)

\* The current record is rewritten.
LEMMA SourceDurable ==
    ASSUME HandoffInv, DurableInv, NEW n \in Nodes, Src(n) # None, NEW q \in SourceRecords,
           source' = [source EXCEPT ![n] = Update(source[n], q)],
           q.gen = Src(n).gen, q.vm = Src(n).vm,
           Src(n).grant # None => q.grant = Src(n).grant,
           q.grant # None => q.grant.cand = q.gen /\ q.grant.barrier = q.barrier,
           q.fence = "ready" => \A i \in 1 .. Lsn(q.vm) : vm[q.vm].wal[i] > 0 => i <= q.barrier,
           UNCHANGED <<vm, acked>>
    PROVE  DurableInv'
<1> USE PeerFacts DEF HandoffInv, DurableInv, CopyCore
<1>1. /\ source[n] \in SourceJournals /\ None \notin SourceRecords
      /\ Records(source[n]) = ToSet(source[n].hist) \cup {Src(n)}
      /\ Src(n) \in Records(source[n]) /\ Src(n) \in SourceRecords
      /\ Records(source[n]) \subseteq SourceRecords
  BY RecordTypes, NoneAssumption
<1>2. /\ Records(Update(source[n], q)) = ToSet(source[n].hist) \cup {q}
      /\ Update(source[n], q).cur = q /\ Update(source[n], q).hist = source[n].hist
  BY <1>1, UpdateRecords DEF SourceJournals
<1>3. /\ source'[n] = Update(source[n], q)
      /\ \A m \in Nodes : m # n => source'[m] = source[m]
  BY DEF StateType, JournalType
<1>4. /\ Records(source'[n]) = ToSet(source[n].hist) \cup {q}
      /\ Src(n)' = q /\ source'[n].hist = source[n].hist
  BY <1>2, <1>3 DEF Src
<1>5. ASSUME NEW m \in Nodes, NEW r \in Records(source'[m])
      PROVE  (m = n /\ r = q) \/ r \in Records(source[m])
  BY <1>1, <1>3, <1>4
<1>6. ASSUME NEW m \in Nodes, NEW r \in Records(source[m])
      PROVE  (m = n /\ r = Src(n)) \/ r \in Records(source'[m])
  BY <1>1, <1>3, <1>4
<1>7. GenOnce'
  <2>1. \A m \in Nodes : m # n => Src(m)' = Src(m)
    BY <1>3 DEF Src
  <2> QED
    BY <1>1, <1>3, <1>4, <2>1 DEF GenOnce
<1>8. GrantFits'
  BY <1>5 DEF GrantFits
<1>9. CopyInv'
  <2>1. ASSUME NEW g, NEW v, SourceOf(g, v) PROVE SourceOf(g, v)'
    <3>1. PICK m \in Nodes : \E r \in Records(source[m]) : r.gen = g /\ r.vm = v
      BY <2>1 DEF SourceOf
    <3>2. \E s \in Records(source'[m]) : s.gen = g /\ s.vm = v
      BY <1>4, <1>6, <3>1
    <3> QED
      BY <3>2 DEF SourceOf
  <2> QED
    BY <2>1 DEF CopyInv
<1>10. ReplayInv'
  <2>1. ASSUME NEW m \in Nodes, NEW r \in Records(source'[m]), r.grant # None, vm[r.gen].promo # "none"
        PROVE  Lsn(r.gen) >= r.barrier
    <3>1. CASE r \in Records(source[m])
      BY <2>1, <3>1 DEF ReplayInv
    <3>2. CASE m = n /\ r = q
      <4>1. Src(n).grant # None
        BY <1>1, <2>1, <3>2, PromotionGranted
      <4>2. Lsn(r.gen) >= Src(n).barrier
        BY <1>1, <2>1, <3>2, <4>1 DEF ReplayInv
      <4>3. Src(n).barrier = q.barrier
        BY <1>1, <4>1 DEF GrantFits
      <4> QED
        BY <3>2, <4>2, <4>3
    <3> QED
      BY <1>5, <2>1, <3>1, <3>2
  <2> QED
    BY <2>1 DEF ReplayInv, Lsn
<1>11. BarrierInv'
  <2>1. ASSUME NEW m \in Nodes, NEW r \in Records(source'[m]), r.fence = "ready"
        PROVE  \A i \in 1 .. Lsn(r.vm) : vm[r.vm].wal[i] > 0 => i <= r.barrier
    BY <1>5, <2>1 DEF BarrierInv
  <2> QED
    BY <2>1 DEF BarrierInv, Lsn
<1>12. ASSUME NEW v \in VMs, Ungranted(v)' PROVE acked \subseteq Commits(v)
  <2>1. Ungranted(v)
    <3>1. ASSUME NEW m \in Nodes, NEW r \in Records(source[m]), r.vm = v PROVE r.grant = None
      BY <1>4, <1>6, <1>12, <3>1 DEF Ungranted
    <3> QED
      BY <1>12, <3>1 DEF Ungranted
  <2> QED
    BY <2>1 DEF AckInv
<1>13. ASSUME NEW m \in Nodes, NEW r \in Records(source'[m]), Pending(m, r)'
       PROVE  acked \subseteq Commits(r.vm)
  <2>1. r.grant # None /\ vm[r.grant.cand].mode # "primary"
    BY <1>13 DEF Pending
  <2>2. CASE r \in Records(source[m])
    BY <2>1, <2>2 DEF AckInv, Pending
  <2>3. CASE m = n /\ r = q /\ Src(n).grant # None
    BY <1>1, <2>1, <2>3 DEF AckInv, Pending
  <2>4. CASE m = n /\ r = q /\ Src(n).grant = None
    <3>1. Src(n).vm \in VMs /\ vm[Src(n).vm].mode = "primary"
      BY <1>1 DEF SourceRecords, Core, ShutInv
    <3>2. \A s \in Records(source[n]) : s.vm = Src(n).vm => s.grant = None
      BY <1>1, <2>4 DEF Core, BoundInv
    <3>3. \A s \in Records(source[Peer(n)]) : s.vm # Src(n).vm
      BY <1>1, Owned
    <3>4. Ungranted(Src(n).vm)
      BY <3>1, <3>2, <3>3 DEF Ungranted
    <3> QED
      BY <2>4, <3>1, <3>4 DEF AckInv
  <2> QED
    BY <1>5, <2>2, <2>3, <2>4
<1>14. AckInv'
  BY <1>12, <1>13 DEF AckInv, Commits
<1> QED
  BY <1>7, <1>8, <1>9, <1>10, <1>11, <1>14

\* A new record for a generation nobody has used.
LEMMA NewDurable ==
    ASSUME HandoffInv, DurableInv, NEW n \in Nodes, NEW q \in SourceRecords,
           source' = [source EXCEPT ![n] = Supersede(source[n], q)],
           q.gen \notin UsedGens, q.fence = None, q.grant = None,
           UNCHANGED <<vm, acked>>
    PROVE  DurableInv'
<1> USE PeerFacts DEF HandoffInv, DurableInv, CopyCore
<1>1. source[n] \in SourceJournals /\ None \notin SourceRecords
  BY RecordTypes, NoneAssumption
<1>2. /\ Records(Supersede(source[n], q)) = Records(source[n]) \cup {q}
      /\ Supersede(source[n], q).cur = q
      /\ ToSet(Supersede(source[n], q).hist) = Records(source[n])
  BY <1>1, SupersedeRecords DEF SourceJournals
<1>3. /\ source'[n] = Supersede(source[n], q)
      /\ \A m \in Nodes : m # n => source'[m] = source[m]
  BY DEF StateType, JournalType
<1>4. /\ Records(source'[n]) = Records(source[n]) \cup {q}
      /\ Src(n)' = q /\ ToSet(source'[n].hist) = Records(source[n])
  BY <1>2, <1>3 DEF Src
<1>5. ASSUME NEW m \in Nodes, NEW r \in Records(source'[m]) PROVE r = q \/ r \in Records(source[m])
  BY <1>3, <1>4
<1>6. \A m \in Nodes : Records(source[m]) \subseteq Records(source'[m])
  BY <1>3, <1>4
<1>7. GenOnce'
  <2>1. \A m \in Nodes : m # n => Src(m)' = Src(m)
    BY <1>3 DEF Src
  <2>2. \A r \in Records(source[n]) : r.gen # q.gen
    BY DEF UsedGens
  <2>3. \A r, s \in Records(source[n]) : r.gen = s.gen => r = s
    BY OneRecord DEF Core
  <2>4. q # None
    BY <1>1
  <2>5. \A r \in ToSet(source'[n].hist) : Src(n)' # None /\ r.gen # Src(n)'.gen
    BY <1>4, <2>2, <2>4
  <2>6. \A r, s \in ToSet(source'[n].hist) : r.gen = s.gen => r = s
    BY <1>4, <2>3
  <2> QED
    BY <1>3, <2>1, <2>5, <2>6 DEF GenOnce
<1>8. GrantFits'
  BY <1>5 DEF GrantFits
<1>9. CopyInv'
  <2>1. ASSUME NEW g, NEW v, SourceOf(g, v) PROVE SourceOf(g, v)'
    BY <1>6, <2>1 DEF SourceOf
  <2> QED
    BY <2>1 DEF CopyInv
<1>10. ReplayInv'
  BY <1>5 DEF ReplayInv, Lsn
<1>11. BarrierInv'
  BY <1>5, NoneAssumption DEF BarrierInv, Lsn
<1>12. ASSUME NEW v \in VMs, Ungranted(v)' PROVE acked \subseteq Commits(v)
  BY <1>6, <1>12 DEF Ungranted, AckInv
<1>13. ASSUME NEW m \in Nodes, NEW r \in Records(source'[m]), Pending(m, r)'
       PROVE  acked \subseteq Commits(r.vm)
  BY <1>5, <1>13 DEF Pending, AckInv
<1>14. AckInv'
  BY <1>12, <1>13 DEF AckInv, Commits
<1> QED
  BY <1>7, <1>8, <1>9, <1>10, <1>11, <1>14

\* Nothing a commit depends on is written.
LEMMA KeptDurable ==
    ASSUME DurableInv, UNCHANGED <<source, vm, acked>>
    PROVE  DurableInv'
BY DEF DurableInv, CopyCore, GenOnce, GrantFits, CopyInv, SourceOf, ReplayInv, BarrierInv, AckInv,
       Ungranted, Pending, Commits, Lsn, Src

\* A preparation writes a record of a new generation, or none.
LEMMA ProvisionDurable ==
    ASSUME HandoffInv, DurableInv, NEW n \in Nodes, NEW rec \in SourceRecords, NEW reseed,
           Provision(n, rec, reseed), rec.fence = None, rec.grant = None,
           (Src(n) # None /\ Src(n).gen = rec.gen) \/ rec.gen \notin UsedGens
    PROVE  DurableInv'
<1>1. /\ source' = [source EXCEPT ![n] = source_created(source[n], rec)]
      /\ vm' = vm /\ acked' = acked
  BY DEF Provision, guests, tenants
<1>2. CASE Src(n) # None /\ Src(n).gen = rec.gen
  <2>1. source' = source
    BY <1>1, <1>2 DEF source_created, Src, HandoffInv, StateType, JournalType
  <2> QED
    BY <1>1, <2>1, KeptDurable
<1>3. CASE rec.gen \notin UsedGens
  <2>1. ~(Src(n) # None /\ Src(n).gen = rec.gen)
    BY <1>3, RecordTypes DEF UsedGens, HandoffInv
  <2>2. source' = [source EXCEPT ![n] = Supersede(source[n], rec)]
    BY <1>1, <2>1 DEF source_created, Src
  <2> QED
    BY <1>1, <1>3, <2>2, NewDurable
<1> QED
  BY <1>2, <1>3

\* prepare_source and reseed_source.
LEMMA PrepareDurable ==
    ASSUME HandoffInv, DurableInv, NEW n \in Nodes, Prepare(n)
    PROVE  DurableInv'
<1> USE DEF HandoffInv
<1>1. bound[n] \in VMs /\ Lsn(bound[n]) \in Nat
  BY DEF StateType, ServingType, GuestType, GuestState, Lsn
<1>2. ASSUME NEW g \in Gens, prepare_source(n, g) PROVE DurableInv'
  <2> DEFINE p == IF incoming(n) = None THEN None ELSE incoming(n).gen
             rec == SourceRecord(g, p, bound[n], Lsn(bound[n]))
  <2>1. /\ (Src(n) # None /\ Src(n).gen = g) \/ g \notin UsedGens
        /\ Provision(n, rec, FALSE)
    BY <1>2 DEF prepare_source
  <2>2. p \in Gens \cup {None}
    BY RecordTypes DEF incoming, CandidateRecords
  <2> HIDE DEF p
  <2>3. rec \in SourceRecords /\ rec.gen = g /\ rec.fence = None /\ rec.grant = None
    BY <1>1, <2>2, NewSourceRecord
  <2> HIDE DEF rec
  <2> QED
    BY <2>1, <2>3, ProvisionDurable
<1>3. ASSUME NEW g \in Gens, reseed_source(n, g) PROVE DurableInv'
  <2> DEFINE p == IF Src(n).gen = g THEN Src(n).pred ELSE Src(n).gen
             rec == SourceRecord(g, p, bound[n], Lsn(bound[n]))
  <2>1. /\ Src(n) # None /\ (Src(n).gen = g \/ g \notin UsedGens)
        /\ Provision(n, rec, TRUE)
    BY <1>3 DEF reseed_source
  <2>2. p \in Gens \cup {None}
    BY <2>1, RecordTypes DEF SourceRecords
  <2> HIDE DEF p
  <2>3. rec \in SourceRecords /\ rec.gen = g /\ rec.fence = None /\ rec.grant = None
    BY <1>1, <2>2, NewSourceRecord
  <2> HIDE DEF rec
  <2> QED
    BY <2>1, <2>3, ProvisionDurable
<1> QED
  BY <1>2, <1>3 DEF Prepare

\* authorize_handoff and complete_handoff leave fence, barrier and grant alone.
LEMMA SameGrantDurable ==
    ASSUME HandoffInv, DurableInv, NEW n \in Nodes, Src(n) # None, NEW q \in SourceRecords,
           source' = [source EXCEPT ![n] = Update(source[n], q)],
           q.gen = Src(n).gen, q.vm = Src(n).vm, q.fence = Src(n).fence,
           q.barrier = Src(n).barrier, q.grant = Src(n).grant,
           UNCHANGED <<vm, acked>>
    PROVE  DurableInv'
<1>1. Src(n) \in Records(source[n])
  BY RecordTypes DEF HandoffInv
<1>2. q.grant # None => q.grant.cand = q.gen /\ q.grant.barrier = q.barrier
  BY <1>1 DEF DurableInv, CopyCore, GrantFits
<1>3. q.fence = "ready" => \A i \in 1 .. Lsn(q.vm) : vm[q.vm].wal[i] > 0 => i <= q.barrier
  BY <1>1 DEF DurableInv, CopyCore, BarrierInv
<1> QED
  BY <1>2, <1>3, SourceDurable

\* The handoff is authorized, or its answer recorded.
LEMMA AuthorizeDurable ==
    ASSUME HandoffInv, DurableInv, NEW n \in Nodes,
           AuthorizeHandoff(n) \/ \E m \in msgs : HandoffAnswered(n, m)
    PROVE  DurableInv'
<1>1. CASE AuthorizeHandoff(n)
  <2>1. /\ Holds(n, "handoff", "authorize") /\ vm' = vm /\ acked' = acked
        /\ source' = [source EXCEPT ![n] = authorize_handoff(source[n], op[n].req)]
    BY <1>1 DEF AuthorizeHandoff, guests, tenants
  <2>2. op[n].req \in Gens /\ Src(n) # None /\ Src(n) \in SourceRecords
    BY <2>1, RecordTypes DEF HandoffInv, OpInv, NodeOp, HandoffOp, Holds
  <2>3. PICK x \in Gens : x = op[n].req
    BY <2>2
  <2> DEFINE q == [Src(n) EXCEPT !.cand = x]
  <2>4. /\ q \in SourceRecords /\ q.gen = Src(n).gen /\ q.vm = Src(n).vm
        /\ q.fence = Src(n).fence /\ q.barrier = Src(n).barrier /\ q.grant = Src(n).grant
    BY <2>2 DEF SourceRecords
  <2>5. source' = [source EXCEPT ![n] = Update(source[n], q)]
    BY <2>1, <2>3 DEF authorize_handoff, Src
  <2> HIDE DEF q
  <2> QED
    BY <2>1, <2>2, <2>4, <2>5, SameGrantDurable
<1>2. ASSUME NEW m \in msgs, HandoffAnswered(n, m) PROVE DurableInv'
  <2>1. vm' = vm /\ acked' = acked
    BY <1>2 DEF HandoffAnswered, guests, tenants
  <2>2. CASE source' = source
    BY <2>1, <2>2, KeptDurable
  <2>3. CASE /\ complete_handoff_ok(source[n], m.gen, m.cand)
             /\ source' = [source EXCEPT ![n] = complete_handoff(source[n])]
    <3>1. Src(n) # None /\ Src(n) \in SourceRecords
      BY <2>3, RecordTypes DEF complete_handoff_ok, Src, HandoffInv
    <3> DEFINE q == [Src(n) EXCEPT !.complete = TRUE]
    <3>2. /\ q \in SourceRecords /\ q.gen = Src(n).gen /\ q.vm = Src(n).vm
          /\ q.fence = Src(n).fence /\ q.barrier = Src(n).barrier /\ q.grant = Src(n).grant
      BY <3>1 DEF SourceRecords
    <3>3. source' = [source EXCEPT ![n] = Update(source[n], q)]
      BY <2>3 DEF complete_handoff, Src
    <3> HIDE DEF q
    <3> QED
      BY <2>1, <3>1, <3>2, <3>3, SameGrantDurable
  <2> QED
    BY <1>2, <2>2, <2>3 DEF HandoffAnswered
<1> QED
  BY <1>1, <1>2

\* The fence is recorded: a granted record has the barrier of its grant already.
LEMMA FenceDurable ==
    ASSUME HandoffInv, DurableInv, NEW n \in Nodes, FenceSource(n) \/ SourceDrained(n)
    PROVE  DurableInv'
<1> USE DEF HandoffInv
<1>1. op[n].kind = "handoff" /\ vm' = vm /\ acked' = acked
  BY DEF FenceSource, SourceDrained, Holds, guests, tenants
<1>2. /\ Src(n) # None /\ Src(n).vm = bound[n]
      /\ Src(n) \in SourceRecords /\ Src(n) \in Records(source[n])
  BY <1>1, RecordTypes DEF OpInv, NodeOp, HandoffOp
<1>3. Lsn(bound[n]) \in Nat
  BY DEF StateType, ServingType, GuestType, GuestState, Lsn
<1>4. ASSUME NEW f \in {"intent", "ready"}, NEW b \in Nat \cup {None},
             f = "ready" => b = Lsn(bound[n]),
             source_set_fence_ok(source[n], Src(n).gen, f, b),
             source' = [source EXCEPT ![n] = source_set_fence(source[n], f, b)]
      PROVE  DurableInv'
  <2> DEFINE r == [Src(n) EXCEPT !.fence = f]
             q == [r EXCEPT !.barrier = b]
  <2>1. /\ r \in SourceRecords /\ r.gen = Src(n).gen /\ r.vm = Src(n).vm
        /\ r.fence = f /\ r.grant = Src(n).grant
    BY <1>2 DEF SourceRecords
  <2>2. q = [Src(n) EXCEPT !.fence = f, !.barrier = b]
    BY <1>2 DEF SourceRecords
  <2> HIDE DEF r
  <2>3. /\ q \in SourceRecords /\ q.gen = Src(n).gen /\ q.vm = Src(n).vm
        /\ q.fence = f /\ q.grant = Src(n).grant /\ q.barrier = b
    BY <2>1 DEF SourceRecords
  <2>4. source' = [source EXCEPT ![n] = Update(source[n], q)]
    BY <1>4, <2>2 DEF source_set_fence, Src
  <2> HIDE DEF q
  <2>5. q.grant # None => q.grant.cand = q.gen /\ q.grant.barrier = q.barrier
    <3>1. q.grant # None => q.grant.cand = q.gen
      BY <1>2, <2>3 DEF DurableInv, CopyCore, GrantFits
    <3>2. q.grant # None => q.grant.barrier = b
      BY <1>4, <2>3 DEF source_set_fence_ok, Src
    <3> QED
      BY <2>3, <3>1, <3>2
  <2>6. q.fence = "ready" => \A i \in 1 .. Lsn(q.vm) : vm[q.vm].wal[i] > 0 => i <= q.barrier
    BY <1>2, <1>3, <1>4, <2>3
  <2> QED
    BY <1>1, <1>2, <2>3, <2>4, <2>5, <2>6, SourceDurable
<1>5. CASE SourceDrained(n)
  <2>1. /\ source_set_fence_ok(source[n], Src(n).gen, "ready", Lsn(bound[n]))
        /\ source' = [source EXCEPT ![n] = source_set_fence(source[n], "ready", Lsn(bound[n]))]
    BY <1>5 DEF SourceDrained
  <2> QED
    BY <1>3, <1>4, <2>1
<1>6. CASE FenceSource(n)
  <2>1. CASE source' = source
    BY <1>1, <2>1, KeptDurable
  <2>2. CASE source' # source
    <3>1. /\ source_set_fence_ok(source[n], Src(n).gen, "intent", None)
          /\ source' = [source EXCEPT ![n] = source_set_fence(source[n], "intent", None)]
      BY <1>6, <2>2 DEF FenceSource
    <3> QED
      BY <1>4, <3>1
  <2> QED
    BY <2>1, <2>2
<1> QED
  BY <1>5, <1>6

\* The grant is for the generation of its record, at the barrier of its fence.
LEMMA GrantDurable ==
    ASSUME HandoffInv, DurableInv, NEW n \in Nodes, GrantHandoff(n)
    PROVE  DurableInv'
<1> USE DEF HandoffInv
<1> DEFINE x == [cand |-> op[n].req, barrier |-> Src(n).barrier]
<1>1. /\ Holds(n, "handoff", "grant") /\ grant_handoff_ok(source[n], Src(n).gen, x)
      /\ source' = [source EXCEPT ![n] = grant_handoff(source[n], x)]
      /\ vm' = vm /\ acked' = acked
  BY DEF GrantHandoff, guests, tenants
<1>2. /\ op[n].req \in Gens /\ Src(n) # None /\ Src(n).gen = op[n].req
      /\ Src(n) \in SourceRecords /\ Src(n) \in Records(source[n]) /\ Src(n).fence = "ready"
  BY <1>1, RecordTypes DEF OpInv, NodeOp, HandoffOp, Holds
<1>3. Src(n).barrier \in Nat
  BY <1>2 DEF Core, ShutInv
<1>4. x \in Grants /\ x.cand = Src(n).gen /\ x.barrier = Src(n).barrier
  BY <1>2, <1>3 DEF Grants
<1> HIDE DEF x
<1> DEFINE q == [Src(n) EXCEPT !.grant = x]
<1>5. /\ q \in SourceRecords /\ q.gen = Src(n).gen /\ q.vm = Src(n).vm
      /\ q.fence = Src(n).fence /\ q.barrier = Src(n).barrier /\ q.grant = x
  BY <1>2, <1>4 DEF SourceRecords
<1>6. source' = [source EXCEPT ![n] = Update(source[n], q)]
  BY <1>1 DEF grant_handoff, Src
<1> HIDE DEF q
<1>7. Src(n).grant # None => q.grant = Src(n).grant
  BY <1>1, <1>5 DEF grant_handoff_ok, Src
<1>8. q.fence = "ready" => \A i \in 1 .. Lsn(q.vm) : vm[q.vm].wal[i] > 0 => i <= q.barrier
  BY <1>2, <1>5 DEF DurableInv, CopyCore, BarrierInv
<1>9. q.grant # None => q.grant.cand = q.gen /\ q.grant.barrier = q.barrier
  BY <1>4, <1>5
<1> QED
  BY <1>1, <1>2, <1>5, <1>6, <1>7, <1>8, <1>9, SourceDurable

-----------------------------------------------------------------------------
(* Steps of the guests *)

\* The VM that a generation was prepared for is a primary.
LEMMA SourceIsPrimary ==
    ASSUME HandoffInv, NEW g, NEW v, SourceOf(g, v)
    PROVE  v \in VMs /\ vm[v].mode = "primary"
<1>1. PICK n \in Nodes : \E r \in Records(source[n]) : r.gen = g /\ r.vm = v
  BY DEF SourceOf
<1> QED
  BY <1>1, RecordTypes DEF HandoffInv, Core, ShutInv, SourceRecords

\* WALs are sequences of numbers.
LEMMA WalType ==
    ASSUME HandoffInv, NEW v \in VMs
    PROVE  vm[v] \in GuestState /\ vm[v].wal \in Seq(Int) /\ Len(vm[v].wal) \in Nat
BY DEF HandoffInv, StateType, GuestType, GuestState

\* One VM changes: a primary stays one, and its WAL only grows, by no commit when it
\* is shut; a copy is one of the VM its generation was prepared for; and a promotion
\* begins above the barrier.
LEMMA GuestDurable ==
    ASSUME HandoffInv, CopyCore, NEW g \in VMs, NEW x \in GuestState,
           vm' = [vm EXCEPT ![g] = x], source' = source,
           vm[g].mode = "primary" =>
              /\ x.mode = "primary" /\ Prefix(vm[g].wal, x.wal)
              /\ Shut(g) => \A i \in 1 .. Len(x.wal) : i > Len(vm[g].wal) => ~(x.wal[i] > 0),
           g \in Gens /\ x.mode \in {"seeding", "standby"} => SourceOf(g, x.src),
           g \in Gens /\ x.mode = "standby" => Prefix(x.wal, vm[x.src].wal),
           \A n \in Nodes : \A r \in Records(source[n]) :
              r.gen = g /\ r.grant # None /\ x.promo # "none" => Len(x.wal) >= r.barrier
    PROVE  CopyCore'
<1> USE DEF CopyCore
<1>1. vm'[g] = x /\ \A v \in VMs : v # g => vm'[v] = vm[v]
  BY DEF HandoffInv, StateType, GuestType
<1>2. GenOnce' /\ GrantFits'
  BY DEF GenOnce, GrantFits, Src
<1>3. \A h, v : SourceOf(h, v)' <=> SourceOf(h, v)
  BY DEF SourceOf
<1>4. ASSUME NEW h \in Gens, vm'[h].mode \in {"seeding", "standby"}
      PROVE  /\ SourceOf(h, vm'[h].src)
             /\ vm'[h].mode = "standby" => Prefix(vm'[h].wal, vm'[vm'[h].src].wal)
  <2>1. CASE h = g
    <3>1. SourceOf(h, x.src) /\ vm[g].mode # "primary"
      BY <1>1, <1>4, <2>1
    <3>2. x.src \in VMs /\ x.src # g
      BY <3>1, SourceIsPrimary
    <3> QED
      BY <1>1, <2>1, <3>1, <3>2
  <2>2. CASE h # g
    <3>1. vm'[h] = vm[h] /\ h \in VMs
      BY <1>1, <2>2 DEF VMs
    <3>2. SourceOf(h, vm[h].src) /\ (vm[h].mode = "standby" => Prefix(vm[h].wal, vm[vm[h].src].wal))
      BY <1>4, <3>1 DEF CopyInv
    <3>3. vm[h].src \in VMs /\ vm[vm[h].src].mode = "primary"
      BY <3>2, SourceIsPrimary
    <3>4. CASE vm[h].src # g
      BY <1>1, <3>1, <3>2, <3>3, <3>4
    <3>5. CASE vm[h].src = g
      <4>1. Prefix(vm[g].wal, x.wal)
        BY <3>3, <3>5
      <4>2. Len(vm[h].wal) \in Nat /\ Len(vm[g].wal) \in Nat /\ Len(x.wal) \in Nat
        BY <3>1, WalType DEF GuestState
      <4>3. vm[h].mode = "standby" => Prefix(vm[h].wal, x.wal)
        BY <3>2, <3>5, <4>1, <4>2 DEF Prefix
      <4> QED
        BY <1>1, <3>1, <3>2, <3>5, <4>3
    <3> QED
      BY <3>4, <3>5
  <2> QED
    BY <2>1, <2>2
<1>5. CopyInv'
  BY <1>3, <1>4 DEF CopyInv
<1>6. ASSUME NEW n \in Nodes, NEW r \in Records(source[n])
      PROVE  /\ r.grant # None /\ vm'[r.gen].promo # "none" => Len(vm'[r.gen].wal) >= r.barrier
             /\ r.fence = "ready" => \A i \in 1 .. Len(vm'[r.vm].wal) : vm'[r.vm].wal[i] > 0 => i <= r.barrier
  <2>1. r.gen \in VMs /\ r.vm \in VMs
    BY RecordTypes DEF SourceRecords, HandoffInv, VMs
  <2>2. r.grant # None /\ vm'[r.gen].promo # "none" => Len(vm'[r.gen].wal) >= r.barrier
    BY <1>1, <2>1 DEF ReplayInv, Lsn
  <2>3. CASE r.vm # g
    BY <1>1, <2>1, <2>2, <2>3 DEF BarrierInv, Lsn
  <2>4. CASE r.vm = g
    <3>1. ASSUME r.fence = "ready", NEW i \in 1 .. Len(x.wal), x.wal[i] > 0
          PROVE  i <= r.barrier
      <4>1. vm[g].mode = "primary" /\ Shut(g)
        BY <2>4, <3>1 DEF HandoffInv, Core, ShutInv
      <4>2. Len(vm[g].wal) \in Nat /\ Len(x.wal) \in Nat
        BY WalType DEF GuestState
      <4>3. i <= Len(vm[g].wal)
        BY <3>1, <4>1, <4>2
      <4>4. i \in 1 .. Len(vm[g].wal) /\ vm[g].wal[i] > 0
        BY <3>1, <4>1, <4>2, <4>3 DEF Prefix
      <4> QED
        BY <2>4, <3>1, <4>4 DEF BarrierInv, Lsn
    <3> QED
      BY <1>1, <2>2, <2>4, <3>1
  <2> QED
    BY <2>3, <2>4
<1>7. ReplayInv' /\ BarrierInv'
  BY <1>6 DEF ReplayInv, BarrierInv, Lsn
<1> QED
  BY <1>2, <1>5, <1>7

\* What is committed in a prefix is committed in the whole.
LEMMA PrefixCommits ==
    ASSUME HandoffInv, NEW v \in VMs, vm'[v] \in GuestState, Prefix(vm[v].wal, vm'[v].wal)
    PROVE  Commits(v) \subseteq Commits(v)'
<1>1. /\ DOMAIN vm[v].wal = 1 .. Len(vm[v].wal) /\ Len(vm[v].wal) \in Nat
      /\ DOMAIN vm'[v].wal = 1 .. Len(vm'[v].wal) /\ Len(vm'[v].wal) \in Nat
  BY WalType DEF GuestState
<1>2. \A i \in DOMAIN vm[v].wal : i \in DOMAIN vm'[v].wal /\ vm'[v].wal[i] = vm[v].wal[i]
  BY <1>1 DEF Prefix
<1> QED
  BY <1>2 DEF Commits

\* If no VM becomes a primary, and no commit is acknowledged, then what has all
\* commits keeps them.
LEMMA AckKept ==
    ASSUME HandoffInv, AckInv, NEW g \in VMs, NEW x \in GuestState,
           vm' = [vm EXCEPT ![g] = x], source' = source, acked' = acked,
           vm[g].mode = "primary" <=> x.mode = "primary",
           vm[g].mode = "primary" => Prefix(vm[g].wal, x.wal)
    PROVE  AckInv'
<1>1. vm'[g] = x /\ \A v \in VMs : v # g => vm'[v] = vm[v]
  BY DEF HandoffInv, StateType, GuestType
<1>2. ASSUME NEW v \in VMs, vm[v].mode = "primary" PROVE Commits(v) \subseteq Commits(v)'
  <2>1. vm'[v] \in GuestState
    BY <1>1, WalType
  <2>2. Prefix(vm[v].wal, vm'[v].wal)
    <3>1. CASE v = g
      BY <1>1, <1>2, <3>1
    <3>2. CASE v # g
      BY <1>1, <3>2, WalType DEF Prefix
    <3> QED
      BY <3>1, <3>2
  <2> QED
    BY <2>1, <2>2, PrefixCommits
<1>3. \A v \in VMs : vm'[v].mode = "primary" <=> vm[v].mode = "primary"
  BY <1>1
<1>4. ASSUME NEW v \in VMs, Ungranted(v)' PROVE acked' \subseteq Commits(v)'
  <2>1. Ungranted(v) /\ vm[v].mode = "primary"
    BY <1>3, <1>4 DEF Ungranted
  <2> QED
    BY <1>2, <2>1 DEF AckInv
<1>5. ASSUME NEW n \in Nodes, NEW r \in Records(source[n]), Pending(n, r)'
      PROVE  acked' \subseteq Commits(r.vm)'
  <2>1. r.vm \in VMs /\ vm[r.vm].mode = "primary" /\ (r.grant # None => r.grant.cand \in VMs)
    BY RecordTypes, NoneAssumption DEF HandoffInv, Core, ShutInv, SourceRecords, Grants, VMs
  <2>2. Pending(n, r)
    BY <1>3, <1>5, <2>1 DEF Pending
  <2> QED
    BY <1>2, <2>1, <2>2 DEF AckInv
<1> QED
  BY <1>4, <1>5 DEF AckInv

\* A VM changes, and neither a primary nor a promotion is new.
LEMMA GuestMoves ==
    ASSUME HandoffInv, DurableInv, NEW g \in VMs, NEW x \in GuestState,
           vm' = [vm EXCEPT ![g] = x], source' = source, acked' = acked,
           vm[g].mode = "primary" <=> x.mode = "primary",
           vm[g].mode = "primary" =>
              /\ Prefix(vm[g].wal, x.wal)
              /\ Shut(g) => \A i \in 1 .. Len(x.wal) : i > Len(vm[g].wal) => ~(x.wal[i] > 0),
           g \in Gens /\ x.mode \in {"seeding", "standby"} => SourceOf(g, x.src),
           g \in Gens /\ x.mode = "standby" => Prefix(x.wal, vm[x.src].wal),
           x.promo # "none" => vm[g].promo # "none" /\ Len(x.wal) >= Len(vm[g].wal)
    PROVE  DurableInv'
<1>1. ASSUME NEW n \in Nodes, NEW r \in Records(source[n]), r.gen = g, r.grant # None, x.promo # "none"
      PROVE  Len(x.wal) >= r.barrier
  <2>1. r.barrier \in Nat
    BY <1>1 DEF HandoffInv, Core, ShutInv
  <2>2. Len(vm[g].wal) >= r.barrier
    BY <1>1 DEF DurableInv, CopyCore, ReplayInv, Lsn
  <2>3. Len(vm[g].wal) \in Nat /\ Len(x.wal) \in Nat
    BY WalType DEF GuestState
  <2> QED
    BY <1>1, <2>1, <2>2, <2>3
<1>2. CopyCore'
  BY <1>1, GuestDurable DEF DurableInv
<1>3. AckInv'
  BY AckKept DEF DurableInv
<1> QED
  BY <1>2, <1>3 DEF DurableInv

\* Nothing precedes itself by more than itself.
LEMMA PrefixRefl ==
    ASSUME NEW w \in Seq(Int)
    PROVE  Prefix(w, w) /\ \A i \in 1 .. Len(w) : ~(i > Len(w))
BY DEF Prefix

\* A record appended.
LEMMA PrefixAppend ==
    ASSUME NEW w \in Seq(Int), NEW x \in Int
    PROVE  /\ Prefix(w, Append(w, x)) /\ Len(Append(w, x)) = Len(w) + 1
           /\ \A i \in 1 .. Len(Append(w, x)) : i > Len(w) => Append(w, x)[i] = x
BY DEF Prefix

\* An admission change is written to the log of a primary.
LEMMA WriteDurable ==
    ASSUME HandoffInv, DurableInv, NEW v \in VMs, vm[v].mode = "primary",
           NEW x \in Int, ~(x > 0), NEW b \in BOOLEAN, vm' = Write(v, x, b),
           source' = source, acked' = acked
    PROVE  DurableInv'
<1>1. CASE ~b
  <2>1. vm' = vm
    BY <1>1 DEF Write
  <2> QED
    BY <2>1, KeptDurable
<1>2. CASE b
  <2>1. vm[v] \in GuestState /\ vm[v].wal \in Seq(Int) /\ Len(vm[v].wal) \in Nat
    BY WalType
  <2>0. Append(vm[v].wal, x) \in Seq(Int)
    BY <2>1
  <2>2. PICK w \in Seq(Int) : w = Append(vm[v].wal, x)
    BY <2>0
  <2>3. /\ Prefix(vm[v].wal, w) /\ Len(w) = Len(vm[v].wal) + 1
        /\ \A i \in 1 .. Len(w) : i > Len(vm[v].wal) => ~(w[i] > 0)
    BY <2>1, <2>2, PrefixAppend
  <2> DEFINE r == [vm[v] EXCEPT !.wal = w]
  <2>4. vm' = [vm EXCEPT ![v] = r]
    BY <1>2, <2>2 DEF Write, HandoffInv, StateType, GuestType
  <2>5. r \in GuestState /\ r.wal = w /\ r.mode = "primary" /\ r.promo = vm[v].promo
    BY <2>1, GuestFields
  <2> HIDE DEF r
  <2>6. Len(r.wal) >= Len(vm[v].wal)
    BY <2>1, <2>3, <2>5
  <2> QED
    BY <2>3, <2>4, <2>5, <2>6, GuestMoves
<1> QED
  BY <1>1, <1>2

\* The four steps that change the admission of a VM.
LEMMA AdmissionDurable ==
    ASSUME HandoffInv, DurableInv, NEW n \in Nodes,
           CloseSource(n) \/ FenceCloses(n) \/ UnfenceOpens(n) \/ OpenAdmission(n)
    PROVE  DurableInv'
<1> USE DEF HandoffInv
<1>1. source' = source /\ acked' = acked
  BY DEF CloseSource, FenceCloses, UnfenceOpens, OpenAdmission, journals, tenants
<1>2. bound[n] \in VMs
  BY DEF StateType, ServingType
<1>3. /\ Close \in Int /\ ~(Close > 0) /\ Open \in Int /\ ~(Open > 0)
      /\ NoLogin \in Int /\ ~(NoLogin > 0) /\ Login \in Int /\ ~(Login > 0)
  BY DEF Close, Open, NoLogin, Login
<1>4. \A v \in VMs : Allows(v) \in BOOLEAN /\ rolcanlogin(v) \in BOOLEAN
  BY DEF Allows, rolcanlogin, SwitchedOn
<1>5. CASE CloseSource(n)
  <2>1. Holds(n, "handoff", "close") /\ vm' = Write(bound[n], Close, Allows(bound[n]))
    BY <1>5 DEF CloseSource
  <2>2. Src(n) # None /\ Src(n).vm = bound[n] /\ Src(n) \in Records(source[n])
    BY <2>1, RecordTypes DEF OpInv, NodeOp, HandoffOp, Holds
  <2>3. vm[bound[n]].mode = "primary"
    BY <2>2 DEF Core, ShutInv
  <2> QED
    BY <1>1, <1>2, <1>3, <1>4, <2>1, <2>3, WriteDurable
<1>6. CASE FenceCloses(n)
  <2>1. /\ vm[bound[n]].mode = "primary"
        /\ \/ vm' = Write(bound[n], Close, Allows(bound[n]))
           \/ vm' = Write(bound[n], NoLogin, rolcanlogin(bound[n]))
    BY <1>6 DEF FenceCloses
  <2> QED
    BY <1>1, <1>2, <1>3, <1>4, <2>1, WriteDurable
<1>7. CASE UnfenceOpens(n)
  <2>1. /\ vm[bound[n]].mode = "primary"
        /\ \/ vm' = Write(bound[n], Open, ~Allows(bound[n]))
           \/ vm' = Write(bound[n], Login, ~rolcanlogin(bound[n]))
    BY <1>7 DEF UnfenceOpens
  <2>2. (~Allows(bound[n])) \in BOOLEAN /\ (~rolcanlogin(bound[n])) \in BOOLEAN
    OBVIOUS
  <2> QED
    BY <1>1, <1>2, <1>3, <2>1, <2>2, WriteDurable
<1>8. CASE OpenAdmission(n)
  <2>1. /\ Holds(n, "accept", "open") /\ vm[Cand(n).cand].mode = "primary"
        /\ vm' = Write(Cand(n).cand, Open, ~Allows(Cand(n).cand))
    BY <1>8 DEF OpenAdmission
  <2>2. bound[n] = Cand(n).cand
    BY <2>1 DEF OpInv, NodeOp, AcceptOp, Holds
  <2>3. Cand(n).cand \in VMs /\ (~Allows(Cand(n).cand)) \in BOOLEAN
    BY <1>2, <2>2
  <2> QED
    BY <1>1, <1>3, <2>1, <2>3, WriteDurable
<1> QED
  BY <1>5, <1>6, <1>7, <1>8

\* A VM is requested, becomes visible, or is told to copy the source that its
\* generation was prepared for.
LEMMA SeedDurable ==
    ASSUME HandoffInv, DurableInv, NEW g \in VMs, NEW x \in GuestState,
           vm' = [vm EXCEPT ![g] = x], source' = source, acked' = acked,
           vm[g].mode \notin {"standby", "primary"}, x.mode \notin {"standby", "primary"},
           x.mode = "seeding" => SourceOf(g, x.src),
           x.promo = "none"
    PROVE  DurableInv'
BY GuestMoves

\* SeedCreates and VmVisible.
LEMMA CreatesDurable ==
    ASSUME HandoffInv, DurableInv, NEW g \in Gens,
           (\E n \in Nodes : SeedCreates(n) /\ g = op[n].req.gen) \/ VmVisible(g)
    PROVE  DurableInv'
<1>1. g \in VMs /\ source' = source /\ acked' = acked
  BY DEF SeedCreates, VmVisible, journals, tenants, VMs
<1>2. CASE vm' = vm
  BY <1>1, <1>2, KeptDurable
<1>3. CASE vm' # vm
  <2>1. PICK y \in {"pending", "fresh"} :
           vm[g].mode \in {"absent", "pending"} /\ vm' = [vm EXCEPT ![g].mode = y]
    <3>1. CASE VmVisible(g)
      BY <3>1 DEF VmVisible
    <3>2. CASE \E n \in Nodes : SeedCreates(n) /\ g = op[n].req.gen
      <4>1. vm' = [vm EXCEPT ![g].mode = IF vm[g].mode = "absent" THEN "pending" ELSE vm[g].mode]
        BY <3>2 DEF SeedCreates
      <4>2. vm[g].mode = "absent"
        <5>1. [vm EXCEPT ![g].mode = vm[g].mode] = vm
          BY <1>1, WalType DEF HandoffInv, StateType, GuestType, GuestState
        <5> QED
          BY <1>3, <4>1, <5>1
      <4> QED
        BY <4>1, <4>2
    <3> QED
      BY <3>1, <3>2
  <2>2. vm[g].promo = "none" /\ vm[g] \in GuestState
    BY <2>1, NotPromoting
  <2> DEFINE x == [vm[g] EXCEPT !.mode = y]
  <2>3. x \in GuestState /\ x.mode = y /\ x.promo = "none"
    <3>1. y \in VmModes
      BY DEF VmModes
    <3> QED
      BY <2>2, <3>1, GuestFields
  <2>4. vm' = [vm EXCEPT ![g] = x]
    BY <2>1
  <2> HIDE DEF x
  <2>5. vm[g].mode \notin {"standby", "primary"} /\ x.mode \notin {"standby", "primary", "seeding"}
    BY <2>1, <2>3
  <2> QED
    BY <1>1, <2>3, <2>4, <2>5, SeedDurable
<1> QED
  BY <1>2, <1>3

\* The seed runs in the guest: it copies the VM its provision request named.
LEMMA SeedRunsDurable ==
    ASSUME HandoffInv, DurableInv, NEW n \in Nodes, SeedRuns(n)
    PROVE  DurableInv'
<1> USE DEF HandoffInv
<1>1. Holds(n, "seed", "run") /\ source' = source /\ acked' = acked
  BY DEF SeedRuns, tenants
<1>2. CASE vm' = vm
  BY <1>1, <1>2, KeptDurable
<1>3. CASE vm' # vm
  <2>1. /\ op[n].req \in Provisions /\ Cand(n) # None
        /\ Cand(n).gen = op[n].req.gen /\ Cand(n).srcVm = op[n].req.vm
    BY <1>1 DEF OpInv, NodeOp, SeedOp, Holds
  <2>2. PICK g \in Gens, v \in VMs : g = op[n].req.gen /\ v = op[n].req.vm
    BY <2>1 DEF Provisions
  <2>3. g \in VMs /\ vm \in [VMs -> GuestState] /\ vm[g] \in GuestState
    BY DEF VMs, StateType, GuestType
  <2>4. vm' = [vm EXCEPT ![g] = IF vm[g].mode # "fresh" THEN vm[g]
                               ELSE [vm[g] EXCEPT !.mode = "seeding", !.src = v]]
    BY <1>3, <2>2 DEF SeedRuns
  <2>5. vm[g].mode = "fresh" /\ vm' = [vm EXCEPT ![g] = [vm[g] EXCEPT !.mode = "seeding", !.src = v]]
    BY <1>3, <2>3, <2>4
  <2>6. vm[g].promo = "none"
    BY <2>5, NotPromoting
  <2> DEFINE q == [vm[g] EXCEPT !.mode = "seeding"]
             x == [q EXCEPT !.src = v]
  <2>7. q \in GuestState /\ q.mode = "seeding" /\ q.promo = "none"
    BY <2>3, <2>6, GuestFields DEF VmModes
  <2>8. [vm[g] EXCEPT !.mode = "seeding", !.src = v] = x
    BY <2>3 DEF GuestState
  <2> HIDE DEF q
  <2>9. x \in GuestState /\ x.mode = "seeding" /\ x.promo = "none" /\ x.src = v
    BY <2>7, GuestFields
  <2>10. vm' = [vm EXCEPT ![g] = x]
    BY <2>5, <2>8
  <2> HIDE DEF x
  <2>11. SourceOf(g, v)
    <3>1. Cand(n) \in Records(physical[n]) /\ Peer(n) \in Nodes
      BY <2>1, RecordTypes, PeerFacts
    <3>2. Prepared(Peer(n), Cand(n).gen, Cand(n).pred, Cand(n).srcVm)
      BY <3>1 DEF Core, GenInv
    <3> QED
      BY <2>1, <2>2, <3>1, <3>2 DEF Prepared, SourceOf
  <2> QED
    BY <1>1, <2>3, <2>5, <2>9, <2>10, <2>11, SeedDurable
<1> QED
  BY <1>2, <1>3

\* A base backup is the WAL of its source, and replay appends the next record of it.
LEMMA CopyDurable ==
    ASSUME HandoffInv, DurableInv, NEW g \in Gens, SeedCopied(g) \/ Replicate(g)
    PROVE  DurableInv'
<1>1. g \in VMs /\ source' = source /\ acked' = acked /\ vm[g].mode \in {"seeding", "standby"}
  BY DEF SeedCopied, Replicate, journals, tenants, VMs
<1>2. SourceOf(g, vm[g].src)
  BY <1>1 DEF DurableInv, CopyCore, CopyInv
<1>3. PICK v \in VMs : v = vm[g].src
  BY <1>2, SourceIsPrimary
<1>4. /\ vm \in [VMs -> GuestState] /\ vm[g] \in GuestState
      /\ vm[g].wal \in Seq(Int) /\ Len(vm[g].wal) \in Nat
      /\ vm[v].wal \in Seq(Int) /\ Len(vm[v].wal) \in Nat
  BY <1>1, <1>3, WalType DEF HandoffInv, StateType, GuestType
<1>5. CASE SeedCopied(g)
  <2>1. vm[g].mode = "seeding" /\ vm' = [vm EXCEPT ![g].mode = "standby", ![g].wal = vm[v].wal]
    BY <1>3, <1>5 DEF SeedCopied
  <2>2. vm[g].promo = "none"
    BY <2>1, NotPromoting
  <2>3. PICK w \in Seq(Int) : w = vm[v].wal
    BY <1>4
  <2> DEFINE q == [vm[g] EXCEPT !.mode = "standby"]
             x == [q EXCEPT !.wal = w]
  <2>4. q \in GuestState /\ q.mode = "standby" /\ q.promo = "none" /\ q.src = v
    BY <1>3, <1>4, <2>2, GuestFields DEF VmModes
  <2>5. vm' = [vm EXCEPT ![g] = x]
    <3>1. vm' = [vm EXCEPT ![g] = [vm[g] EXCEPT !.mode = "standby", !.wal = w]]
      BY <1>1, <1>4, <2>1, <2>3
    <3>2. [vm[g] EXCEPT !.mode = "standby", !.wal = w] = x
      BY <1>4 DEF GuestState
    <3> QED
      BY <3>1, <3>2
  <2> HIDE DEF q
  <2>6. x \in GuestState /\ x.mode = "standby" /\ x.promo = "none" /\ x.src = v /\ x.wal = w
    BY <2>4, GuestFields
  <2> HIDE DEF x
  <2>7. Prefix(x.wal, vm[x.src].wal) /\ SourceOf(g, x.src)
    BY <1>2, <1>3, <2>3, <2>6, PrefixRefl
  <2>8. vm[g].mode # "primary" /\ x.mode # "primary"
    BY <2>1, <2>6
  <2> QED
    BY <1>1, <2>5, <2>6, <2>7, <2>8, GuestMoves
<1>6. CASE Replicate(g)
  <2>1. /\ vm[g].mode = "standby" /\ Len(vm[g].wal) < Len(vm[v].wal)
        /\ vm' = [vm EXCEPT ![g].wal = Append(vm[g].wal, vm[v].wal[Len(vm[g].wal) + 1])]
    BY <1>3, <1>6 DEF Replicate, Lsn
  <2>2. Prefix(vm[g].wal, vm[v].wal)
    BY <1>3, <2>1 DEF DurableInv, CopyCore, CopyInv
  <2>3. PICK y \in Int : y = vm[v].wal[Len(vm[g].wal) + 1]
    BY <1>4, <2>1
  <2>4. Append(vm[g].wal, y) \in Seq(Int)
    BY <1>4
  <2>5. PICK w \in Seq(Int) : w = Append(vm[g].wal, y)
    BY <2>4
  <2>6. /\ Len(w) = Len(vm[g].wal) + 1 /\ w[Len(vm[g].wal) + 1] = y
        /\ \A i \in 1 .. Len(vm[g].wal) : w[i] = vm[g].wal[i]
    BY <1>4, <2>5
  <2>7. Prefix(w, vm[v].wal)
    <3>1. ASSUME NEW i \in 1 .. Len(w) PROVE w[i] = vm[v].wal[i]
      <4>1. CASE i = Len(vm[g].wal) + 1
        BY <2>3, <2>6, <4>1
      <4>2. CASE i # Len(vm[g].wal) + 1
        <5>1. i \in 1 .. Len(vm[g].wal)
          BY <1>4, <2>6, <4>2
        <5> QED
          BY <2>2, <2>6, <5>1 DEF Prefix
      <4> QED
        BY <4>1, <4>2
    <3>2. Len(w) <= Len(vm[v].wal)
      BY <1>4, <2>1, <2>6
    <3> QED
      BY <3>1, <3>2 DEF Prefix
  <2> DEFINE x == [vm[g] EXCEPT !.wal = w]
  <2>8. x \in GuestState /\ x.mode = "standby" /\ x.promo = vm[g].promo /\ x.src = v /\ x.wal = w
    BY <1>3, <1>4, <2>1, GuestFields
  <2>9. vm' = [vm EXCEPT ![g] = x]
    BY <1>1, <1>4, <2>1, <2>3, <2>5
  <2> HIDE DEF x
  <2>10. /\ Prefix(x.wal, vm[x.src].wal) /\ SourceOf(g, x.src)
         /\ vm[g].mode # "primary" /\ x.mode # "primary" /\ Len(x.wal) >= Len(vm[g].wal)
    BY <1>2, <1>3, <1>4, <2>1, <2>6, <2>7, <2>8
  <2> QED
    BY <1>1, <2>8, <2>9, <2>10, GuestMoves
<1> QED
  BY <1>5, <1>6

\* The guest journals a promotion that has replayed the barrier of its grant.
LEMMA PromotionDurable ==
    ASSUME HandoffInv, DurableInv, NEW n \in Nodes, PreparePromotion(n) \/ LaunchPromote(n)
    PROVE  DurableInv'
<1> USE PeerFacts DEF HandoffInv
<1>1. Holds(n, "accept", "run") /\ source' = source /\ acked' = acked
  BY DEF PreparePromotion, LaunchPromote, journals, tenants
<1>2. CASE vm' = vm
  BY <1>1, <1>2, KeptDurable
<1>3. CASE vm' # vm
  <2>1. Cand(n) # None /\ handoff_started(Cand(n)) /\ Cand(n).phase # "activated"
    BY <1>1 DEF OpInv, NodeOp, AcceptOp, Holds
  <2>2. Cand(n).cand = Cand(n).gen /\ Cand(n).gen \in Gens /\ Cand(n) \in Records(physical[n])
    BY <2>1, RecordTypes DEF Core, CandInv, CandidateRecords, handoff_started, HandoffPhases
  <2>3. PICK g \in Gens : g = Cand(n).cand
    BY <2>2
  <2>4. PICK y \in {"prepared", "promoting"} :
           /\ vm[g].promo \in {"none", "prepared"} /\ (vm[g].promo = "none" => vm[g].mode = "standby")
           /\ Lsn(g) >= Cand(n).barrier /\ vm' = [vm EXCEPT ![g].promo = y]
    BY <1>3, <2>3 DEF PreparePromotion, LaunchPromote, ReplayedFence
  <2>5. g \in VMs /\ vm \in [VMs -> GuestState] /\ vm[g] \in GuestState /\ vm[g].mode = "standby"
    BY <2>4 DEF VMs, StateType, GuestType, Core, PromoteInv
  <2> DEFINE x == [vm[g] EXCEPT !.promo = y]
  <2>6. /\ x \in GuestState /\ x.mode = "standby" /\ x.promo = y /\ x.src = vm[g].src
        /\ x.wal = vm[g].wal
    <3>1. y \in Promotions
      BY DEF Promotions
    <3> QED
      BY <2>5, <3>1, GuestFields
  <2>7. vm' = [vm EXCEPT ![g] = x]
    BY <2>4, <2>5
  <2> HIDE DEF x
  <2>8. SourceOf(g, x.src) /\ Prefix(x.wal, vm[x.src].wal)
    BY <2>5, <2>6 DEF DurableInv, CopyCore, CopyInv
  <2>9. ASSUME NEW m \in Nodes, NEW r \in Records(source[m]), r.gen = g, r.grant # None
        PROVE  Len(x.wal) >= r.barrier
    <3>1. PICK q \in Records(source[Peer(n)]) :
             q.gen = g /\ q.grant # None /\ q.grant.barrier = Cand(n).barrier
      BY <2>1, <2>2, <2>3 DEF Core, PromoteInv, Granted
    <3>2. q = r
      BY <2>9, <3>1, OneRecord DEF DurableInv, CopyCore, Core
    <3>3. r.barrier = Cand(n).barrier
      BY <2>9, <3>1, <3>2 DEF DurableInv, CopyCore, GrantFits
    <3> QED
      BY <2>4, <2>6, <3>3 DEF Lsn
  <2>10. CopyCore'
    BY <1>1, <2>5, <2>6, <2>7, <2>8, <2>9, GuestDurable DEF DurableInv
  <2>11. AckInv'
    BY <1>1, <2>5, <2>6, <2>7, AckKept DEF DurableInv
  <2> QED
    BY <2>10, <2>11 DEF DurableInv
<1> QED
  BY <1>2, <1>3

\* A candidate that becomes a primary holds all commits: it copied the VM that granted
\* it the writer role, up to the barrier, and that VM has none above the barrier.
LEMMA PgPromoteDurable ==
    ASSUME HandoffInv, DurableInv, NEW g \in Gens, PgPromote(g)
    PROVE  DurableInv'
<1> USE PeerFacts DEF HandoffInv
<1>1. /\ vm[g].promo = "promoting" /\ source' = source /\ acked' = acked
      /\ vm' = [vm EXCEPT ![g] = IF vm[g].mode = "standby" THEN [vm[g] EXCEPT !.mode = "primary"]
                                 ELSE [vm[g] EXCEPT !.promo = "promoted"]]
  BY DEF PgPromote, journals, tenants
<1>2. /\ g \in VMs /\ vm \in [VMs -> GuestState] /\ vm[g] \in GuestState
      /\ vm[g].mode \in {"standby", "primary"} /\ vm[g].wal \in Seq(Int) /\ Len(vm[g].wal) \in Nat
  BY <1>1, WalType DEF StateType, GuestType, VMs, Core, PromoteInv
<1>3. CASE vm[g].mode # "standby"
  <2> DEFINE x == [vm[g] EXCEPT !.promo = "promoted"]
  <2>1. /\ x \in GuestState /\ x.mode = "primary" /\ x.promo = "promoted" /\ x.wal = vm[g].wal
    BY <1>2, <1>3, GuestFields DEF Promotions
  <2>2. vm' = [vm EXCEPT ![g] = x]
    BY <1>1, <1>3
  <2> HIDE DEF x
  <2>3. /\ Prefix(vm[g].wal, x.wal) /\ Len(x.wal) >= Len(vm[g].wal)
        /\ \A i \in 1 .. Len(x.wal) : ~(i > Len(vm[g].wal))
    BY <1>2, <2>1, PrefixRefl
  <2>4. vm[g].mode = "primary" /\ vm[g].promo # "none"
    BY <1>1, <1>2, <1>3
  <2> QED
    BY <1>1, <1>2, <2>1, <2>2, <2>3, <2>4, GuestMoves
<1>4. CASE vm[g].mode = "standby"
  <2> DEFINE x == [vm[g] EXCEPT !.mode = "primary"]
  <2>1. /\ x \in GuestState /\ x.mode = "primary" /\ x.promo = vm[g].promo /\ x.wal = vm[g].wal
    BY <1>2, GuestFields DEF VmModes
  <2>2. vm' = [vm EXCEPT ![g] = x]
    BY <1>1, <1>4
  <2> HIDE DEF x
  <2>3. vm'[g] = x /\ \A v \in VMs : v # g => vm'[v] = vm[v]
    BY <1>2, <2>2
  <2>4. CopyCore'
    <3>1. \A m \in Nodes : \A r \in Records(source[m]) :
            r.gen = g /\ r.grant # None /\ x.promo # "none" => Len(x.wal) >= r.barrier
      BY <2>1 DEF DurableInv, CopyCore, ReplayInv, Lsn
    <3> QED
      BY <1>1, <1>2, <1>4, <2>1, <2>2, <3>1, GuestDurable DEF DurableInv
  \* The grant, and the VM that gave it.
  <2>5. PICK n \in Nodes : \E k \in Records(physical[n]) : k.gen = g /\ handoff_started(k)
    BY <1>1 DEF Core, PromoteInv
  <2>6. PICK r \in Records(source[Peer(n)]) : r.gen = g /\ r.grant # None /\ r.grant.cand = g
    BY <2>5 DEF Core, PromoteInv, Granted
  <2>7. acked \subseteq Commits(r.vm)
    BY <1>4, <2>6 DEF DurableInv, AckInv, Pending
  <2>8. vm[g].src = r.vm /\ r.vm \in VMs /\ r.vm # g
    <3>1. PICK m \in Nodes : \E q \in Records(source[m]) : q.gen = g /\ q.vm = vm[g].src
      BY <1>4 DEF DurableInv, CopyCore, CopyInv, SourceOf
    <3>2. vm[g].src = r.vm
      BY <2>6, <3>1, OneRecord DEF DurableInv, CopyCore, Core
    <3>3. r.vm \in VMs /\ vm[r.vm].mode = "primary"
      BY <2>6, RecordTypes DEF Core, ShutInv, SourceRecords
    <3> QED
      BY <1>4, <3>2, <3>3
  <2>9. Prefix(vm[g].wal, vm[r.vm].wal)
    BY <1>4, <2>8 DEF DurableInv, CopyCore, CopyInv
  <2>10. r.fence = "ready" /\ r.barrier \in Nat
    BY <2>6 DEF Core, ShutInv
  <2>11. Len(vm[g].wal) >= r.barrier
    BY <1>1, <2>6 DEF DurableInv, CopyCore, ReplayInv, Lsn
  <2>12. \A i \in 1 .. Len(vm[r.vm].wal) : vm[r.vm].wal[i] > 0 => i <= r.barrier
    BY <2>6, <2>10 DEF DurableInv, CopyCore, BarrierInv, Lsn
  <2>13. Commits(r.vm) \subseteq Commits(g)
    <3>1. /\ DOMAIN vm[r.vm].wal = 1 .. Len(vm[r.vm].wal) /\ Len(vm[r.vm].wal) \in Nat
          /\ DOMAIN vm[g].wal = 1 .. Len(vm[g].wal)
      BY <1>2, <2>8, WalType
    <3>2. ASSUME NEW i \in DOMAIN vm[r.vm].wal, vm[r.vm].wal[i] > 0
          PROVE  i \in DOMAIN vm[g].wal /\ vm[g].wal[i] = vm[r.vm].wal[i]
      BY <1>2, <2>9, <2>10, <2>11, <2>12, <3>1, <3>2 DEF Prefix
    <3> QED
      BY <3>2 DEF Commits
  <2>14. \A v \in VMs : Commits(v)' = Commits(v)
    BY <2>1, <2>3 DEF Commits
  <2>15. ASSUME NEW v \in VMs, Ungranted(v)' PROVE acked' \subseteq Commits(v)'
    <3>1. CASE v = g
      BY <1>1, <1>2, <2>7, <2>13, <2>14, <3>1
    <3>2. CASE v # g
      <4>1. Ungranted(v)
        BY <1>1, <2>3, <2>15, <3>2 DEF Ungranted
      <4> QED
        BY <1>1, <2>14, <4>1 DEF DurableInv, AckInv
    <3> QED
      BY <3>1, <3>2
  <2>16. ASSUME NEW m \in Nodes, NEW q \in Records(source[m]), Pending(m, q)'
         PROVE  acked' \subseteq Commits(q.vm)'
    <3>1. q.vm \in VMs /\ (q.grant # None => q.grant.cand \in VMs)
      BY RecordTypes, NoneAssumption DEF SourceRecords, Grants, VMs
    <3>2. Pending(m, q)
      BY <1>4, <2>1, <2>3, <2>16, <3>1 DEF Pending
    <3> QED
      BY <1>1, <2>14, <3>1, <3>2 DEF DurableInv, AckInv
  <2>17. AckInv'
    BY <1>1, <2>15, <2>16 DEF AckInv
  <2> QED
    BY <2>4, <2>17 DEF DurableInv
<1> QED
  BY <1>3, <1>4

\* A commit is acknowledged by the one primary that was not granted away.
LEMMA CommitDurable ==
    ASSUME HandoffInv, DurableInv, NEW c \in Clients, Commit(c)
    PROVE  DurableInv'
<1> USE DEF HandoffInv
<1> DEFINE x == Cardinality(acked) + 1
<1>1. /\ sess[c].at = "attached" /\ vm[sess[c].vm].mode = "primary"
      /\ vm' = Write(sess[c].vm, x, TRUE) /\ acked' = acked \cup {x} /\ source' = source
  BY DEF Commit, journals
<1>2. PICK v \in VMs : v = sess[c].vm
  BY <1>1 DEF StateType, TenantType
<1>3. x \in Int /\ x > 0
  <2>1. acked \subseteq 1 .. MaxCommits /\ IsFiniteSet(1 .. MaxCommits)
    BY HandoffAssumption, FS_Interval DEF StateType, TenantType
  <2>2. Cardinality(acked) \in Nat
    BY <2>1, FS_Subset, FS_CardinalityType
  <2> QED
    BY <2>2
<1> HIDE DEF x
<1>4. ~Shut(v)
  BY <1>1, <1>2 DEF Shut, Attached
<1>5. Ungranted(v)
  BY <1>1, <1>2, <1>4 DEF Ungranted, Core, ShutInv
<1>6. vm \in [VMs -> GuestState] /\ vm[v] \in GuestState /\ vm[v].wal \in Seq(Int) /\ Len(vm[v].wal) \in Nat
  BY WalType DEF StateType, GuestType
<1>7. Append(vm[v].wal, x) \in Seq(Int)
  BY <1>3, <1>6
<1>8. PICK w \in Seq(Int) : w = Append(vm[v].wal, x)
  BY <1>7
<1>9. Prefix(vm[v].wal, w) /\ Len(w) = Len(vm[v].wal) + 1 /\ w[Len(w)] = x
  BY <1>3, <1>6, <1>8, PrefixAppend
<1> DEFINE r == [vm[v] EXCEPT !.wal = w]
<1>10. r \in GuestState /\ r.wal = w /\ r.mode = "primary" /\ r.promo = vm[v].promo
  BY <1>1, <1>2, <1>6, GuestFields
<1>11. vm' = [vm EXCEPT ![v] = r]
  BY <1>1, <1>2, <1>6, <1>8 DEF Write
<1> HIDE DEF r
<1>12. vm'[v] = r /\ \A u \in VMs : u # v => vm'[u] = vm[u]
  BY <1>6, <1>11
<1>13. CopyCore'
  <2>1. ASSUME NEW n \in Nodes, NEW q \in Records(source[n]), q.gen = v, q.grant # None, r.promo # "none"
        PROVE  Len(r.wal) >= q.barrier
    <3>1. Len(vm[v].wal) >= q.barrier
      BY <1>10, <2>1 DEF DurableInv, CopyCore, ReplayInv, Lsn
    <3>2. q.barrier \in Nat
      BY <2>1 DEF Core, ShutInv
    <3> QED
      BY <1>6, <1>9, <1>10, <3>1, <3>2
  <2> QED
    BY <1>1, <1>2, <1>4, <1>9, <1>10, <1>11, <2>1, GuestDurable DEF DurableInv
<1>14. acked' \subseteq Commits(v)'
  <2>1. Commits(v) \subseteq Commits(v)'
    BY <1>9, <1>10, <1>12, PrefixCommits
  <2>2. x \in Commits(v)'
    <3>1. Len(w) \in DOMAIN w /\ w[Len(w)] > 0
      BY <1>3, <1>6, <1>9
    <3> QED
      BY <1>9, <1>10, <1>12, <3>1 DEF Commits
  <2>3. acked \subseteq Commits(v)
    BY <1>5 DEF DurableInv, AckInv
  <2> QED
    BY <1>1, <2>1, <2>2, <2>3
<1>15. \A u \in VMs : vm'[u].mode = vm[u].mode
  BY <1>1, <1>2, <1>10, <1>12
<1>16. ASSUME NEW u \in VMs, Ungranted(u)' PROVE acked' \subseteq Commits(u)'
  <2>1. Ungranted(u)
    BY <1>1, <1>15, <1>16 DEF Ungranted
  <2>2. u = v
    BY <1>5, <2>1 DEF Core, WriterInv
  <2> QED
    BY <1>14, <2>2
<1>17. ASSUME NEW n \in Nodes, NEW q \in Records(source[n]), Pending(n, q)' PROVE FALSE
  <2>1. q.grant # None => q.grant.cand \in VMs
    BY RecordTypes, NoneAssumption DEF SourceRecords, Grants, VMs
  <2>2. Pending(n, q)
    BY <1>15, <1>17, <2>1 DEF Pending
  <2> QED
    BY <1>5, <2>2 DEF Core, WriterInv
<1>18. AckInv'
  BY <1>1, <1>16, <1>17 DEF AckInv
<1> QED
  BY <1>13, <1>18 DEF DurableInv

-----------------------------------------------------------------------------
(* All steps *)

\* At the start nothing is acknowledged and nothing prepared.
LEMMA InitDurable == Init => DurableInv
<1> SUFFICES ASSUME Init PROVE DurableInv
  OBVIOUS
<1>1. \A n \in Nodes : Records(source[n]) = {} /\ ToSet(source[n].hist) = {}
  BY DEF Init, EmptyJournal, Records, ToSet
<1>2. \A g \in Gens : vm[g].mode = "absent"
  BY HandoffAssumption DEF Init, VMs
<1> QED
  BY <1>1, <1>2 DEF DurableInv, CopyCore, GenOnce, GrantFits, CopyInv, ReplayInv, BarrierInv, AckInv, Init

\* The steps of the operation that holds a mutex.
LEMMA OpStepsDurable ==
    ASSUME HandoffInv, DurableInv, NEW n \in Nodes, OpSteps(n)
    PROVE  DurableInv'
<1> USE DEF journals, serving, guests, control, tenants
<1>1. CASE SeedCreates(n)
  <2>1. op[n].req.gen \in Gens
    BY <1>1 DEF SeedCreates, HandoffInv, OpInv, NodeOp, SeedOp, Holds, Provisions
  <2> QED
    BY <1>1, <2>1, CreatesDurable
<1>2. CASE SeedOwns(n) \/ SeedVerified(n) \/ StandbyVerified(n) \/ StandbyBound(n)
  BY <1>2, KeptDurable DEF SeedOwns, SeedVerified, StandbyVerified, StandbyBound
<1>3. CASE SeedRuns(n)
  BY <1>3, SeedRunsDurable
<1>4. CASE AuthorizeHandoff(n)
  BY <1>4, AuthorizeDurable
<1>5. CASE FenceSource(n) \/ SourceDrained(n)
  BY <1>5, FenceDurable
<1>6. CASE GrantHandoff(n)
  BY <1>6, GrantDurable
<1>7. CASE CloseSource(n) \/ FenceCloses(n) \/ UnfenceOpens(n) \/ OpenAdmission(n)
  BY <1>7, AdmissionDurable
<1>8. CASE GrantConfirmed(n) \/ HandoffAccepted(n) \/ PromotionAcknowledged(n)
  BY <1>8, KeptDurable DEF GrantConfirmed, HandoffAccepted, PromotionAcknowledged
<1>9. CASE PreparePromotion(n) \/ LaunchPromote(n)
  BY <1>9, PromotionDurable
<1>10. CASE BindPromoted(n) \/ RetireLogical(n) \/ Activate(n) \/ FenceReady(n) \/ UnfenceClears(n)
  BY <1>10, KeptDurable DEF BindPromoted, RetireLogical, Activate, FenceReady, UnfenceClears
<1> QED
  BY <1>1, <1>2, <1>3, <1>4, <1>5, <1>6, <1>7, <1>8, <1>9, <1>10 DEF OpSteps

\* Every step preserves the invariant.
LEMMA NextDurable ==
    ASSUME HandoffInv, DurableInv, [Next]_vars
    PROVE  DurableInv'
<1>1. CASE UNCHANGED vars
  BY <1>1, KeptDurable DEF vars, journals, guests, tenants
<1>2. ASSUME NEW n \in Nodes, Prepare(n) PROVE DurableInv'
  BY <1>2, PrepareDurable
<1>3. ASSUME NEW n \in Nodes, bind_standby_source(n) \/ HandoffBegins(n) \/ OperatorFence(n) PROVE DurableInv'
  BY <1>3, KeptDurable DEF bind_standby_source, HandoffBegins, OperatorFence, fence, fence_selective,
                           FenceBegins, unfence, journals, guests, tenants
<1>4. ASSUME NEW n \in Nodes, Recovery(n) \/ Fails(n) \/ SlotsLost(n) \/ Crash(n) \/ Abort(n) PROVE DurableInv'
  BY <1>4, KeptDurable DEF Recovery, ResumeStandbyBind, ResumeHandoff, HandoffBegins, Fails, SlotsLost,
                           Crash, Abort, journals, guests, tenants
<1>5. ASSUME NEW n \in Nodes, NEW m \in msgs,
             \/ accept_candidate(n, m) \/ accept_standby_bind(n, m) \/ accept_handoff(n, m)
             \/ HandoffAnswered(n, m)
      PROVE  DurableInv'
  <2>1. CASE accept_candidate(n, m) \/ accept_standby_bind(n, m) \/ accept_handoff(n, m)
    BY <2>1, KeptDurable DEF accept_candidate, accept_standby_bind, accept_handoff, journals, guests, tenants
  <2>2. CASE HandoffAnswered(n, m)
    BY <2>2, AuthorizeDurable
  <2> QED
    BY <1>5, <2>1, <2>2
<1>6. ASSUME NEW n \in Nodes, NEW m \in seeds[n], SeedBegins(n, m) PROVE DurableInv'
  BY <1>6, KeptDurable DEF SeedBegins, guests, tenants
<1>7. ASSUME NEW n \in Nodes, OpSteps(n) PROVE DurableInv'
  BY <1>7, OpStepsDurable
<1>8. ASSUME NEW g \in Gens, Guest(g) PROVE DurableInv'
  BY <1>8, CreatesDurable, CopyDurable, PgPromoteDurable DEF Guest
<1>9. ASSUME NEW c \in Clients, Tenant(c) PROVE DurableInv'
  <2>1. CASE Commit(c)
    BY <2>1, CommitDurable
  <2>2. CASE \/ \E n \in Doors : Connect(c, n) \/ ConnectToPeer(c, n)
             \/ ClaimVetted(c) \/ checkout(c) \/ SessionStarts(c) \/ Disconnect(c)
    <3>1. UNCHANGED <<source, vm, acked>>
      BY <2>2 DEF Connect, ConnectToPeer, ClaimVetted, checkout, SessionStarts, Disconnect,
                  journals, guests
    <3> QED
      BY <3>1, KeptDurable
  <2> QED
    BY <1>9, <2>1, <2>2 DEF Tenant
<1>10. ASSUME NEW m \in msgs, LoseMessage(m) PROVE DurableInv'
  BY <1>10, KeptDurable DEF LoseMessage, journals, guests, tenants
<1> QED
  BY <1>1, <1>2, <1>3, <1>4, <1>5, <1>6, <1>7, <1>8, <1>9, <1>10
     DEF Next, Deliver, SeedWorker, Fault

\* The invariant of durability holds in every state of every behaviour.
THEOREM DurableInvariant == Spec => []DurableInv
<1>1. Init => DurableInv
  BY InitDurable
<1>2. HandoffInv /\ DurableInv /\ [Next]_vars => DurableInv'
  BY NextDurable
<1> QED
  BY <1>1, <1>2, HandoffInvariant, PTL DEF Spec

\* A VM on which tenants can write holds every commit that was ever acknowledged,
\* however often the writer moved and whatever crashed or was lost on the way.
THEOREM CommitsSurvive == Spec => []AckedSurvive
<1>1. HandoffInv /\ DurableInv => AckedSurvive
  <2> SUFFICES ASSUME HandoffInv, DurableInv, NEW v \in Writable PROVE acked \subseteq Commits(v)
    BY DEF AckedSurvive
  <2>1. v \in VMs /\ vm[v].mode = "primary" /\ (Allows(v) \/ Attached(v) # {})
    BY DEF Writable, Admits
  <2>2. ASSUME NEW n \in Nodes, NEW r \in Records(source[n]), r.vm = v PROVE r.grant = None
    BY <2>1, <2>2 DEF HandoffInv, Core, ShutInv, Shut
  <2>3. Ungranted(v)
    BY <2>1, <2>2 DEF Ungranted
  <2> QED
    BY <2>1, <2>3 DEF DurableInv, AckInv
<1> QED
  BY <1>1, HandoffInvariant, DurableInvariant, PTL

=============================================================================
