------------------------ MODULE PhysicalJournalProofs ------------------------
(***************************************************************************)
(* Machine-checked proofs about the two journals of a node, through any    *)
(* number of handoffs, reseeds, retries and faults: the journals that the  *)
(* steps of the handoff leave are journals that a restarted pooler loads,  *)
(* and a VM that was granted away is found granted by the lookup, which    *)
(* takes the first record that names it.                                   *)
(*                                                                         *)
(* The argument for the lookup.  Several records name one VM only after a  *)
(* reseed, and the last of them is the granted one.  As long as it is the  *)
(* current record it is found first.  It would be hidden by an older one   *)
(* when a successor supersedes it; but a candidate is accepted as the      *)
(* successor of a record that was not reseeded only.                       *)
(***************************************************************************)
EXTENDS PhysicalHandoffProofs

-----------------------------------------------------------------------------
(* The parts of the invariant *)

\* The predecessor of r is a generation of the same node: r replaced it.
Reseeded(n, r) == \E q \in Records(source[n]) : r.pred = q.gen

\* Predecessors are generations that were prepared.
PredInv == \A n \in Nodes : \A r \in Records(source[n]) : r.pred \in UsedGens \cup {None}

\* Two records of one VM: the later one was reseeded.
ReseedInv ==
    \A n \in Nodes : \A r \in ToSet(source[n].hist) : r.vm = Src(n).vm => Reseeded(n, Src(n))

\* A candidate never succeeds a record that was reseeded.
SuccessorInv ==
    \A n \in Nodes : \A k \in Records(physical[n]), r \in Records(source[n]) :
        k.pred = r.gen => ~Reseeded(n, r)

\* A superseded record with a grant is the only one of its VM.
GrantAlone ==
    \A n \in Nodes : \A r \in ToSet(source[n].hist), q \in Records(source[n]) :
        r.grant # None /\ q.vm = r.vm => q = r

LookupInv == PredInv /\ ReseedInv /\ SuccessorInv /\ GrantAlone

JournalInv == JournalsReload /\ LookupInv

-----------------------------------------------------------------------------
(* Journals as they are loaded *)

\* Where the records are in load order.
LEMMA LoadPlaces ==
    ASSUME NEW S, None \notin S, NEW j \in [cur : S \cup {None}, hist : Seq(S)]
    PROVE  /\ LoadOrder(j) \in Seq(S) /\ Len(j.hist) \in Nat
           /\ DOMAIN j.hist = 1 .. Len(j.hist)
           /\ j.cur = None => LoadOrder(j) = j.hist
           /\ j.cur # None => /\ DOMAIN LoadOrder(j) = 1 .. Len(j.hist) + 1
                              /\ LoadOrder(j)[Len(j.hist) + 1] = j.cur
           /\ \A i \in 1 .. Len(j.hist) : LoadOrder(j)[i] = j.hist[i]
           /\ \A r : r \in Records(j) <=> \E i \in DOMAIN LoadOrder(j) : LoadOrder(j)[i] = r
<1>1. j.hist \in Seq(S) /\ j.cur \in S \cup {None}
  OBVIOUS
<1>2. CASE j.cur = None
  BY <1>1, <1>2 DEF LoadOrder, Records, ToSet
<1>3. CASE j.cur # None
  <2>1. /\ LoadOrder(j) = Append(j.hist, j.cur) /\ j.cur \in S
        /\ Records(j) = ToSet(j.hist) \cup {j.cur}
    BY <1>1, <1>3 DEF LoadOrder, Records
  <2>2. /\ DOMAIN j.hist = 1 .. Len(j.hist) /\ Len(j.hist) \in Nat
        /\ DOMAIN LoadOrder(j) = 1 .. Len(j.hist) + 1
        /\ LoadOrder(j)[Len(j.hist) + 1] = j.cur /\ LoadOrder(j) \in Seq(S)
        /\ \A i \in 1 .. Len(j.hist) : LoadOrder(j)[i] = j.hist[i]
    BY <1>1, <2>1
  <2>3. \A r : r \in Records(j) <=> \E i \in DOMAIN LoadOrder(j) : LoadOrder(j)[i] = r
    BY <2>1, <2>2 DEF ToSet
  <2> QED
    BY <1>3, <2>2, <2>3
<1> QED
  BY <1>2, <1>3

\* A method that rewrites the current record changes the last place.
LEMMA UpdatePlaces ==
    ASSUME NEW S, None \notin S, NEW j \in [cur : S \cup {None}, hist : Seq(S)], NEW r \in S,
           j.cur # None
    PROVE  /\ Update(j, r).hist = j.hist /\ Update(j, r).cur = r
           /\ DOMAIN LoadOrder(Update(j, r)) = 1 .. Len(j.hist) + 1
           /\ DOMAIN LoadOrder(j) = 1 .. Len(j.hist) + 1 /\ Len(j.hist) \in Nat
           /\ LoadOrder(j)[Len(j.hist) + 1] = j.cur
           /\ LoadOrder(Update(j, r))[Len(j.hist) + 1] = r
           /\ \A i \in 1 .. Len(j.hist) : LoadOrder(Update(j, r))[i] = LoadOrder(j)[i]
<1>1. /\ Update(j, r) \in [cur : S \cup {None}, hist : Seq(S)]
      /\ Update(j, r).hist = j.hist /\ Update(j, r).cur = r /\ r # None
  BY UpdateRecords
<1> QED
  BY <1>1, LoadPlaces

\* A method that creates a record adds a place.
LEMMA SupersedePlaces ==
    ASSUME NEW S, None \notin S, NEW j \in [cur : S \cup {None}, hist : Seq(S)], NEW r \in S
    PROVE  /\ Supersede(j, r).hist = LoadOrder(j) /\ Supersede(j, r).cur = r
           /\ Len(LoadOrder(j)) \in Nat /\ DOMAIN LoadOrder(j) = 1 .. Len(LoadOrder(j))
           /\ DOMAIN LoadOrder(Supersede(j, r)) = 1 .. Len(LoadOrder(j)) + 1
           /\ LoadOrder(Supersede(j, r))[Len(LoadOrder(j)) + 1] = r
           /\ \A i \in 1 .. Len(LoadOrder(j)) : LoadOrder(Supersede(j, r))[i] = LoadOrder(j)[i]
<1>1. LoadOrder(j) \in Seq(S)
  BY LoadPlaces
<1>2. Supersede(j, r).hist = LoadOrder(j) /\ Supersede(j, r).cur = r
  BY DEF Supersede, LoadOrder
<1>3. Supersede(j, r) \in [cur : S \cup {None}, hist : Seq(S)] /\ r # None
  BY SupersedeRecords
<1> QED
  BY <1>1, <1>2, <1>3, LoadPlaces

-----------------------------------------------------------------------------
(* The source journal *)

\* Rewriting the current source record, with its generation, predecessor and VM,
\* leaves a journal that loads.
LEMMA SourceUpdateLoads ==
    ASSUME NEW j \in SourceJournals, NEW r \in SourceRecords, j.cur # None, source_journal(j),
           r.gen = j.cur.gen, r.pred = j.cur.pred, r.vm = j.cur.vm, validate_source(r)
    PROVE  source_journal(Update(j, r))
<1> DEFINE s == LoadOrder(j)
           t == LoadOrder(Update(j, r))
           l == Len(j.hist) + 1
<1>1. /\ Update(j, r).hist = j.hist /\ Update(j, r).cur = r /\ r # None
      /\ DOMAIN t = 1 .. l /\ DOMAIN s = 1 .. l /\ l \in Nat /\ s[l] = j.cur /\ t[l] = r
      /\ \A i \in 1 .. l - 1 : t[i] = s[i]
      /\ DOMAIN j.hist = 1 .. l - 1
  BY NoneAssumption, UpdatePlaces, LoadPlaces DEF SourceJournals
<1>2. /\ \A i \in DOMAIN s : validate_source(s[i])
      /\ NoDuplicate(s, LAMBDA x : x.gen)
      /\ \A i, k \in DOMAIN s :
            (i < k /\ s[i].vm = s[k].vm /\ \A m \in (i + 1)..(k - 1) : s[m].vm # s[i].vm)
               => source_reseed_follows(s[i], s[k])
      /\ \A i \in DOMAIN j.hist : j.hist[i].grant = None =>
            \E k \in DOMAIN s : k > i /\ source_reseed_follows(s[i], s[k])
  BY DEF source_journal
<1> HIDE DEF s, t, l
<1>3. \A i \in 1 .. l : t[i].gen = s[i].gen /\ t[i].pred = s[i].pred /\ t[i].vm = s[i].vm
  BY <1>1
<1>4. \A i, k \in 1 .. l : i < k => t[i] = s[i]
  BY <1>1
<1>5. \A i, k \in 1 .. l : i < k => (source_reseed_follows(s[i], s[k]) => source_reseed_follows(t[i], t[k]))
  BY <1>3, <1>4 DEF source_reseed_follows
<1>6. \A i \in DOMAIN t : validate_source(t[i])
  BY <1>1, <1>2
<1>7. NoDuplicate(t, LAMBDA x : x.gen)
  BY <1>1, <1>2, <1>3 DEF NoDuplicate
<1>8. ASSUME NEW i \in DOMAIN t, NEW k \in DOMAIN t, i < k, t[i].vm = t[k].vm,
             \A m \in (i + 1)..(k - 1) : t[m].vm # t[i].vm
      PROVE  source_reseed_follows(t[i], t[k])
  <2>1. \A m \in (i + 1)..(k - 1) : m \in 1 .. l
    BY <1>1
  <2>2. s[i].vm = s[k].vm /\ \A m \in (i + 1)..(k - 1) : s[m].vm # s[i].vm
    BY <1>1, <1>3, <1>8, <2>1
  <2> QED
    BY <1>1, <1>2, <1>5, <1>8, <2>2
<1>9. ASSUME NEW i \in DOMAIN j.hist, j.hist[i].grant = None
      PROVE  \E k \in DOMAIN t : k > i /\ source_reseed_follows(t[i], t[k])
  <2>1. PICK k \in DOMAIN s : k > i /\ source_reseed_follows(s[i], s[k])
    BY <1>2, <1>9
  <2> QED
    BY <1>1, <1>5, <2>1
<1>10. /\ \A i, k \in DOMAIN t :
            (i < k /\ t[i].vm = t[k].vm /\ \A m \in (i + 1)..(k - 1) : t[m].vm # t[i].vm)
               => source_reseed_follows(t[i], t[k])
       /\ \A i \in DOMAIN Update(j, r).hist : Update(j, r).hist[i].grant = None =>
            \E k \in DOMAIN t : k > i /\ source_reseed_follows(t[i], t[k])
  BY <1>1, <1>8, <1>9
<1> QED
  BY <1>1, <1>6, <1>7, <1>10 DEF source_journal, t

\* A record of a new VM leaves a journal that loads, when the one it supersedes
\* was granted.
LEMMA SourceSuccessorLoads ==
    ASSUME NEW j \in SourceJournals, NEW r \in SourceRecords, source_journal(j),
           validate_source(r), ensure_source_unique(j, r),
           j.cur # None => j.cur.grant # None
    PROVE  source_journal(Supersede(j, r))
<1> DEFINE s == LoadOrder(j)
           t == LoadOrder(Supersede(j, r))
           l == Len(s) + 1
<1>1. /\ Supersede(j, r).hist = s /\ Supersede(j, r).cur = r /\ r # None
      /\ l \in Nat /\ DOMAIN s = 1 .. l - 1 /\ DOMAIN t = 1 .. l /\ t[l] = r
      /\ \A i \in 1 .. l - 1 : t[i] = s[i]
  BY NoneAssumption, SupersedePlaces DEF SourceJournals
<1>2. /\ \A i \in DOMAIN s : validate_source(s[i])
      /\ NoDuplicate(s, LAMBDA x : x.gen)
      /\ \A i, k \in DOMAIN s :
            (i < k /\ s[i].vm = s[k].vm /\ \A m \in (i + 1)..(k - 1) : s[m].vm # s[i].vm)
               => source_reseed_follows(s[i], s[k])
      /\ \A i \in DOMAIN j.hist : j.hist[i].grant = None =>
            \E k \in DOMAIN s : k > i /\ source_reseed_follows(s[i], s[k])
  BY DEF source_journal
<1>3. /\ \A i \in DOMAIN s : s[i] \in Records(j)
      /\ \A i \in DOMAIN s : s[i].grant = None => i \in DOMAIN j.hist /\ s[i] = j.hist[i]
  <2>1. j.cur = None => s = j.hist
    BY NoneAssumption, LoadPlaces DEF SourceJournals
  <2>2. j.cur # None => /\ DOMAIN s = 1 .. Len(j.hist) + 1 /\ s[Len(j.hist) + 1] = j.cur
                        /\ \A i \in 1 .. Len(j.hist) : s[i] = j.hist[i]
    BY NoneAssumption, LoadPlaces DEF SourceJournals
  <2>3. DOMAIN j.hist = 1 .. Len(j.hist) /\ Len(j.hist) \in Nat
    BY NoneAssumption, LoadPlaces DEF SourceJournals
  <2>4. \A i \in DOMAIN s : s[i] \in Records(j)
    BY NoneAssumption, LoadPlaces DEF SourceJournals
  <2> HIDE DEF s
  <2> QED
    BY <2>1, <2>2, <2>3, <2>4
<1>4. \A i \in DOMAIN s : s[i].gen # r.gen /\ s[i].vm # r.vm
  BY <1>3 DEF ensure_source_unique
<1> HIDE DEF s, t, l
<1>5. \A i \in DOMAIN t : validate_source(t[i])
  BY <1>1, <1>2
<1>6. NoDuplicate(t, LAMBDA x : x.gen)
  BY <1>1, <1>2, <1>4 DEF NoDuplicate
<1>7. ASSUME NEW i \in DOMAIN t, NEW k \in DOMAIN t, i < k, t[i].vm = t[k].vm,
             \A m \in (i + 1)..(k - 1) : t[m].vm # t[i].vm
      PROVE  source_reseed_follows(t[i], t[k])
  <2>1. i \in DOMAIN s /\ k \in DOMAIN s
    BY <1>1, <1>4, <1>7
  <2>2. \A m \in (i + 1)..(k - 1) : m \in 1 .. l - 1
    BY <1>1, <2>1
  <2>3. s[i].vm = s[k].vm /\ \A m \in (i + 1)..(k - 1) : s[m].vm # s[i].vm
    BY <1>1, <1>7, <2>1, <2>2
  <2> QED
    BY <1>1, <1>2, <1>7, <2>1, <2>3
<1>8. ASSUME NEW i \in DOMAIN s, s[i].grant = None
      PROVE  \E k \in DOMAIN t : k > i /\ source_reseed_follows(t[i], t[k])
  <2>1. PICK k \in DOMAIN s : k > i /\ source_reseed_follows(s[i], s[k])
    BY <1>2, <1>3, <1>8
  <2> QED
    BY <1>1, <2>1
<1>9. /\ \A i, k \in DOMAIN t :
            (i < k /\ t[i].vm = t[k].vm /\ \A m \in (i + 1)..(k - 1) : t[m].vm # t[i].vm)
               => source_reseed_follows(t[i], t[k])
      /\ \A i \in DOMAIN Supersede(j, r).hist : Supersede(j, r).hist[i].grant = None =>
            \E k \in DOMAIN t : k > i /\ source_reseed_follows(t[i], t[k])
  BY <1>1, <1>7, <1>8
<1> QED
  BY <1>1, <1>5, <1>6, <1>9 DEF source_journal, t

-----------------------------------------------------------------------------
(* The candidate journal *)

\* Rewriting the current candidate record, with its generation, its predecessor and
\* the VMs it replaces and copies, leaves a journal that loads.
LEMMA CandidateUpdateLoads ==
    ASSUME NEW j \in CandidateJournals, NEW r \in CandidateRecords, j.cur # None, candidate_journal(j),
           r.gen = j.cur.gen, r.pred = j.cur.pred, r.srcVm = j.cur.srcVm, r.prev = j.cur.prev,
           validate_record(r),
           r.cand = j.cur.cand \/ \A q \in Records(j) : q.cand # r.cand
    PROVE  candidate_journal(Update(j, r))
<1> DEFINE s == LoadOrder(j)
           t == LoadOrder(Update(j, r))
           l == Len(j.hist) + 1
<1>1. /\ Update(j, r).hist = j.hist /\ Update(j, r).cur = r /\ r # None
      /\ DOMAIN t = 1 .. l /\ DOMAIN s = 1 .. l /\ l \in Nat /\ s[l] = j.cur /\ t[l] = r
      /\ \A i \in 1 .. l - 1 : t[i] = s[i]
      /\ DOMAIN j.hist = 1 .. l - 1
  BY NoneAssumption, UpdatePlaces, LoadPlaces DEF CandidateJournals
<1>2. /\ \A i \in DOMAIN s : validate_record(s[i])
      /\ NoDuplicate(s, LAMBDA x : x.gen) /\ NoDuplicate(s, LAMBDA x : x.cand)
      /\ \A i \in DOMAIN j.hist : j.hist[i].phase # "activated" =>
            \E k \in DOMAIN s : k > i /\ candidate_reseed_follows(s[i], s[k])
  BY DEF candidate_journal
<1>3. \A i \in DOMAIN s : s[i] \in Records(j)
  BY NoneAssumption, LoadPlaces DEF CandidateJournals
<1> HIDE DEF s, t, l
<1>4. \A i \in 1 .. l : /\ t[i].gen = s[i].gen /\ t[i].pred = s[i].pred
                        /\ t[i].srcVm = s[i].srcVm /\ t[i].prev = s[i].prev
  BY <1>1
<1>5. \A i, k \in 1 .. l : i < k =>
          (candidate_reseed_follows(s[i], s[k]) => candidate_reseed_follows(t[i], t[k]))
  BY <1>1, <1>4 DEF candidate_reseed_follows
<1>6. \A i \in DOMAIN t : validate_record(t[i])
  BY <1>1, <1>2
<1>7. NoDuplicate(t, LAMBDA x : x.gen)
  BY <1>1, <1>2, <1>4 DEF NoDuplicate
<1>8. NoDuplicate(t, LAMBDA x : x.cand)
  <2>1. CASE r.cand = j.cur.cand
    <3>1. \A i \in 1 .. l : t[i].cand = s[i].cand
      BY <1>1, <2>1
    <3> QED
      BY <1>1, <1>2, <3>1 DEF NoDuplicate
  <2>2. CASE \A q \in Records(j) : q.cand # r.cand
    BY <1>1, <1>2, <1>3, <2>2 DEF NoDuplicate
  <2> QED
    BY <2>1, <2>2
<1>9. \A i \in DOMAIN Update(j, r).hist : Update(j, r).hist[i].phase # "activated" =>
            \E k \in DOMAIN t : k > i /\ candidate_reseed_follows(t[i], t[k])
  <2>1. ASSUME NEW i \in DOMAIN j.hist, j.hist[i].phase # "activated"
        PROVE  \E k \in DOMAIN t : k > i /\ candidate_reseed_follows(t[i], t[k])
    <3>1. PICK k \in DOMAIN s : k > i /\ candidate_reseed_follows(s[i], s[k])
      BY <1>2, <2>1
    <3> QED
      BY <1>1, <1>5, <3>1
  <2> QED
    BY <1>1, <2>1
<1> QED
  BY <1>1, <1>6, <1>7, <1>8, <1>9 DEF candidate_journal, t

\* A candidate of a new generation leaves a journal that loads, when the one it
\* supersedes was activated, or when it was reseeded.
LEMMA CandidateCreateLoads ==
    ASSUME NEW j \in CandidateJournals, NEW r \in CandidateRecords, candidate_journal(j),
           validate_record(r), r.cand = None, \A q \in Records(j) : q.gen # r.gen,
           j.cur # None => j.cur.phase = "activated" \/ candidate_reseed_follows(j.cur, r)
    PROVE  candidate_journal(Supersede(j, r))
<1> DEFINE s == LoadOrder(j)
           t == LoadOrder(Supersede(j, r))
           l == Len(s) + 1
<1>1. /\ Supersede(j, r).hist = s /\ Supersede(j, r).cur = r /\ r # None
      /\ l \in Nat /\ DOMAIN s = 1 .. l - 1 /\ DOMAIN t = 1 .. l /\ t[l] = r
      /\ \A i \in 1 .. l - 1 : t[i] = s[i]
  BY NoneAssumption, SupersedePlaces DEF CandidateJournals
<1>2. /\ \A i \in DOMAIN s : validate_record(s[i])
      /\ NoDuplicate(s, LAMBDA x : x.gen) /\ NoDuplicate(s, LAMBDA x : x.cand)
      /\ \A i \in DOMAIN j.hist : j.hist[i].phase # "activated" =>
            \E k \in DOMAIN s : k > i /\ candidate_reseed_follows(s[i], s[k])
  BY DEF candidate_journal
<1>3. /\ \A i \in DOMAIN s : s[i] \in Records(j)
      /\ \A i \in DOMAIN s : \/ i \in DOMAIN j.hist /\ s[i] = j.hist[i]
                             \/ j.cur # None /\ s[i] = j.cur
  <2>1. j.cur = None => s = j.hist
    BY NoneAssumption, LoadPlaces DEF CandidateJournals
  <2>2. j.cur # None => /\ DOMAIN s = 1 .. Len(j.hist) + 1 /\ s[Len(j.hist) + 1] = j.cur
                        /\ \A i \in 1 .. Len(j.hist) : s[i] = j.hist[i]
    BY NoneAssumption, LoadPlaces DEF CandidateJournals
  <2>3. DOMAIN j.hist = 1 .. Len(j.hist) /\ Len(j.hist) \in Nat
    BY NoneAssumption, LoadPlaces DEF CandidateJournals
  <2>4. \A i \in DOMAIN s : s[i] \in Records(j)
    BY NoneAssumption, LoadPlaces DEF CandidateJournals
  <2> HIDE DEF s
  <2> QED
    BY <2>1, <2>2, <2>3, <2>4
<1> HIDE DEF s, t, l
<1>4. \A i \in DOMAIN t : validate_record(t[i])
  BY <1>1, <1>2
<1>5. NoDuplicate(t, LAMBDA x : x.gen)
  BY <1>1, <1>2, <1>3 DEF NoDuplicate
<1>6. NoDuplicate(t, LAMBDA x : x.cand)
  BY <1>1, <1>2 DEF NoDuplicate
<1>7. ASSUME NEW i \in DOMAIN s, s[i].phase # "activated"
      PROVE  \E k \in DOMAIN t : k > i /\ candidate_reseed_follows(t[i], t[k])
  <2>1. CASE i \in DOMAIN j.hist /\ s[i] = j.hist[i]
    <3>1. PICK k \in DOMAIN s : k > i /\ candidate_reseed_follows(s[i], s[k])
      BY <1>2, <1>7, <2>1
    <3> QED
      BY <1>1, <3>1
  <2>2. CASE j.cur # None /\ s[i] = j.cur
    <3>1. candidate_reseed_follows(t[i], t[l])
      BY <1>1, <1>7, <2>2
    <3> QED
      BY <1>1, <3>1
  <2> QED
    BY <1>3, <2>1, <2>2
<1>8. \A i \in DOMAIN Supersede(j, r).hist : Supersede(j, r).hist[i].phase # "activated" =>
            \E k \in DOMAIN t : k > i /\ candidate_reseed_follows(t[i], t[k])
  BY <1>1, <1>7
<1> QED
  BY <1>1, <1>4, <1>5, <1>6, <1>8 DEF candidate_journal, t

-----------------------------------------------------------------------------
(* How a step changes a journal *)

\* The current source record of a node is rewritten.
SourceUpdated(n, r) ==
    /\ Src(n) # None /\ r \in SourceRecords
    /\ source' = [source EXCEPT ![n] = Update(source[n], r)]
    /\ r.gen = Src(n).gen /\ r.pred = Src(n).pred /\ r.vm = Src(n).vm
    /\ validate_source(Src(n)) => validate_source(r)

\* A source record is created: the first, one for the VM that was activated since,
\* or one that replaces a lost preparation.
SourceCreated(n, r) ==
    /\ r \in SourceRecords
    /\ source' = [source EXCEPT ![n] = Supersede(source[n], r)]
    /\ r.gen \notin UsedGens /\ r.pred \in UsedGens \cup {None}
    /\ validate_source(r)
    /\ \/ Src(n) = None
       \/ /\ Src(n) # None /\ Src(n).grant # None
          /\ Cand(n) # None /\ Cand(n).pred = Src(n).gen
          /\ ensure_source_unique(source[n], r)
       \/ /\ Src(n) # None /\ source_reseed_follows(Src(n), r)
          /\ source_journal(Supersede(source[n], r))

\* What is rewritten by the steps of a handoff.
LEMMA HandoffWrites ==
    ASSUME HandoffInv, NEW n \in Nodes,
           \/ AuthorizeHandoff(n) \/ FenceSource(n) \/ SourceDrained(n) \/ GrantHandoff(n)
           \/ \E m \in msgs : HandoffAnswered(n, m)
    PROVE  source' = source \/ \E r \in SourceRecords : SourceUpdated(n, r)
<1> USE DEF HandoffInv
<1>1. ASSUME Src(n) # None PROVE Src(n) \in SourceRecords
  BY <1>1, RecordTypes
<1>2. CASE AuthorizeHandoff(n)
  <2>1. /\ Src(n) # None /\ op[n].req \in Gens
        /\ authorize_handoff_ok(source[n], Src(n).gen, op[n].req)
        /\ source' = [source EXCEPT ![n] = authorize_handoff(source[n], op[n].req)]
    BY <1>2 DEF AuthorizeHandoff, Holds, OpInv, NodeOp, HandoffOp
  <2> DEFINE r == [Src(n) EXCEPT !.cand = op[n].req]
  <2>2. /\ r \in SourceRecords /\ r.gen = Src(n).gen /\ r.pred = Src(n).pred /\ r.vm = Src(n).vm
        /\ r.fence = Src(n).fence /\ r.barrier = Src(n).barrier /\ r.grant = Src(n).grant
        /\ r.complete = Src(n).complete /\ r.cand = op[n].req
    BY <1>1, <2>1 DEF SourceRecords
  <2>3. source' = [source EXCEPT ![n] = Update(source[n], r)]
    BY <2>1 DEF authorize_handoff, Src
  <2>4. /\ Src(n).fence # "unfencing"
        /\ Src(n).grant # None => Src(n).grant.cand = op[n].req
    BY <2>1 DEF authorize_handoff_ok, Src
  <2> HIDE DEF r
  <2>5. validate_source(Src(n)) => validate_source(r)
    BY <2>1, <2>2, <2>4, HandoffAssumption DEF validate_source
  <2> QED
    BY <2>1, <2>2, <2>3, <2>5 DEF SourceUpdated
<1>3. ASSUME NEW phase \in {"intent", "ready"}, NEW b \in Nat \cup {None}, Src(n) # None,
             phase = "ready" <=> b # None,
             source' = [source EXCEPT ![n] = source_set_fence(source[n], phase, b)]
      PROVE  \E r \in SourceRecords : SourceUpdated(n, r)
  <2> DEFINE q == [Src(n) EXCEPT !.fence = phase]
             r == [q EXCEPT !.barrier = b]
  <2>1. /\ q \in SourceRecords /\ q.gen = Src(n).gen /\ q.pred = Src(n).pred /\ q.vm = Src(n).vm
        /\ q.fence = phase /\ q.grant = Src(n).grant
        /\ q.complete = Src(n).complete /\ q.cand = Src(n).cand
    BY <1>1, <1>3 DEF SourceRecords
  <2>2. source_set_fence(source[n], phase, b) = Update(source[n], r)
    BY <1>1, <1>3 DEF source_set_fence, Src, SourceRecords
  <2> HIDE DEF q
  <2>3. /\ r \in SourceRecords /\ r.gen = q.gen /\ r.pred = q.pred /\ r.vm = q.vm
        /\ r.fence = q.fence /\ r.barrier = b /\ r.grant = q.grant
        /\ r.complete = q.complete /\ r.cand = q.cand
    BY <2>1 DEF SourceRecords
  <2> HIDE DEF r
  <2>4. validate_source(Src(n)) => validate_source(r)
    BY <1>3, <2>1, <2>3 DEF validate_source
  <2> QED
    BY <1>3, <2>1, <2>2, <2>3, <2>4 DEF SourceUpdated
<1>4. CASE FenceSource(n)
  <2>1. Src(n) # None
    BY <1>4 DEF FenceSource, Holds, OpInv, NodeOp, HandoffOp
  <2>2. source' = source \/ source' = [source EXCEPT ![n] = source_set_fence(source[n], "intent", None)]
    BY <1>4 DEF FenceSource
  <2> QED
    BY <1>3, <2>1, <2>2
<1>5. CASE SourceDrained(n)
  <2>1. Src(n) # None
    BY <1>5 DEF SourceDrained, Holds, OpInv, NodeOp, HandoffOp
  <2>2. Lsn(bound[n]) \in Nat /\ Lsn(bound[n]) # None
    BY NoneAssumption DEF StateType, ServingType, GuestType, GuestState, Lsn
  <2>3. source' = [source EXCEPT ![n] = source_set_fence(source[n], "ready", Lsn(bound[n]))]
    BY <1>5 DEF SourceDrained
  <2> QED
    BY <1>3, <2>1, <2>2, <2>3
<1>6. CASE GrantHandoff(n)
  <2> DEFINE grant == [cand |-> op[n].req, barrier |-> Src(n).barrier]
  <2>1. /\ Src(n) # None /\ op[n].req \in Gens /\ Src(n).fence = "ready"
        /\ grant_handoff_ok(source[n], Src(n).gen, grant)
        /\ source' = [source EXCEPT ![n] = grant_handoff(source[n], grant)]
    BY <1>6 DEF GrantHandoff, Holds, OpInv, NodeOp, HandoffOp
  <2>2. Src(n).barrier \in Nat
    BY <2>1, RecordTypes DEF Core, ShutInv
  <2>3. grant \in Grants /\ grant # None /\ grant.cand = op[n].req
    BY <2>1, <2>2, NoneAssumption DEF Grants
  <2> HIDE DEF grant
  <2> DEFINE r == [Src(n) EXCEPT !.grant = grant]
  <2>4. /\ r \in SourceRecords /\ r.gen = Src(n).gen /\ r.pred = Src(n).pred /\ r.vm = Src(n).vm
        /\ r.fence = Src(n).fence /\ r.barrier = Src(n).barrier /\ r.grant = grant
        /\ r.complete = Src(n).complete /\ r.cand = Src(n).cand
    BY <1>1, <2>1, <2>3 DEF SourceRecords
  <2>5. source' = [source EXCEPT ![n] = Update(source[n], r)]
    BY <2>1 DEF grant_handoff, Src
  <2>6. Src(n).cand \in {None, grant.cand}
    BY <2>1 DEF grant_handoff_ok, Src
  <2> HIDE DEF r
  <2>7. validate_source(Src(n)) => validate_source(r)
    BY <2>3, <2>4, <2>6 DEF validate_source
  <2> QED
    BY <2>1, <2>4, <2>5, <2>7 DEF SourceUpdated
<1>7. ASSUME NEW m \in msgs, HandoffAnswered(n, m)
      PROVE  source' = source \/ \E r \in SourceRecords : SourceUpdated(n, r)
  <2> SUFFICES ASSUME source' # source PROVE \E r \in SourceRecords : SourceUpdated(n, r)
    OBVIOUS
  <2>1. /\ complete_handoff_ok(source[n], m.gen, m.cand)
        /\ source' = [source EXCEPT ![n] = complete_handoff(source[n])]
    BY <1>7 DEF HandoffAnswered
  <2>2. Src(n) # None /\ Src(n).cand = m.cand /\ Src(n).grant # None /\ m.cand \in Gens
    <3>1. m \in Answers
      BY <1>7, MessageTypes DEF HandoffAnswered
    <3> QED
      BY <2>1, <3>1 DEF complete_handoff_ok, Src, Answers
  <2> DEFINE r == [Src(n) EXCEPT !.complete = TRUE]
  <2>3. /\ r \in SourceRecords /\ r.gen = Src(n).gen /\ r.pred = Src(n).pred /\ r.vm = Src(n).vm
        /\ r.fence = Src(n).fence /\ r.barrier = Src(n).barrier /\ r.grant = Src(n).grant
        /\ r.cand = Src(n).cand
    BY <1>1, <2>2 DEF SourceRecords
  <2>4. source' = [source EXCEPT ![n] = Update(source[n], r)]
    BY <2>1 DEF complete_handoff, Src
  <2> HIDE DEF r
  <2>5. validate_source(Src(n)) => validate_source(r)
    BY <2>2, <2>3, HandoffAssumption DEF validate_source
  <2> QED
    BY <2>2, <2>3, <2>4, <2>5 DEF SourceUpdated
<1> QED
  BY <1>2, <1>4, <1>5, <1>6, <1>7

\* What a preparation writes.
LEMMA PrepareWrites ==
    ASSUME HandoffInv, PredInv, NEW n \in Nodes, Prepare(n)
    PROVE  source' = source \/ \E r \in SourceRecords : SourceCreated(n, r)
<1> USE DEF HandoffInv
<1>0. source[n] \in SourceJournals /\ (Src(n) # None => Src(n) \in SourceRecords /\ Src(n) \in Records(source[n]))
  BY RecordTypes
<1>1. ASSUME NEW r \in SourceRecords, NEW z \in BOOLEAN, Provision(n, r, z), r.pred # r.gen,
             r.fence = None, r.barrier = None, r.cand = None, ~r.complete
      PROVE  /\ validate_source(r)
             /\ Src(n) # None /\ Src(n).gen = r.gen => source' = source
             /\ ~(Src(n) # None /\ Src(n).gen = r.gen) =>
                   source' = [source EXCEPT ![n] = Supersede(source[n], r)]
  <2>1. validate_source(r)
    BY <1>1, NoneAssumption DEF validate_source
  <2>2. source' = [source EXCEPT ![n] = source_created(source[n], r)]
    BY <1>1 DEF Provision
  <2> QED
    BY <2>1, <2>2 DEF source_created, Src, StateType, JournalType
<1>2. \A g \in Gens, p \in Gens \cup {None}, l \in Nat :
         LET r == SourceRecord(g, p, bound[n], l) IN
         /\ r \in SourceRecords /\ r.gen = g /\ r.pred = p /\ r.vm = bound[n] /\ r.fence = None
         /\ r.barrier = None /\ r.cand = None /\ r.grant = None /\ ~r.complete
  <2>1. bound[n] \in VMs
    BY DEF StateType, ServingType
  <2> QED
    BY <2>1, NewSourceRecord DEF SourceRecord
<1>3. Lsn(bound[n]) \in Nat
  BY DEF StateType, ServingType, GuestType, GuestState, Lsn
<1>4. ASSUME NEW g \in Gens, prepare_source(n, g)
      PROVE  source' = source \/ \E r \in SourceRecords : SourceCreated(n, r)
  <2> DEFINE active == incoming(n)
             p == IF active = None THEN None ELSE active.gen
             r == SourceRecord(g, p, bound[n], Lsn(bound[n]))
  <2>1. /\ (Src(n) # None /\ Src(n).gen = g) \/ (g \notin UsedGens /\ (Src(n) # None => active # None))
        /\ IF active = None THEN source_create_ok(source[n], r)
           ELSE source_create_successor_ok(source[n], r, active, bound[n])
        /\ Provision(n, r, FALSE)
    BY <1>4 DEF prepare_source
  <2>2. active # None => active = Cand(n) /\ Cand(n) # None /\ Cand(n) \in CandidateRecords
                         /\ Cand(n) \in Records(physical[n])
    BY RecordTypes DEF incoming
  <2>3. p \in Gens \cup {None} /\ p \in UsedGens \cup {None}
    <3>1. active # None => Prepared(Peer(n), active.gen, active.pred, active.srcVm)
      BY <2>2 DEF Core, GenInv
    <3>2. active # None => active.gen \in UsedGens
      BY <3>1, PeerFacts DEF Prepared, UsedGens
    <3> QED
      BY <2>2, <3>2 DEF CandidateRecords
  <2>4. p = None <=> active = None
    BY <2>2, HandoffAssumption DEF CandidateRecords
  <2> HIDE DEF p
  <2>5. /\ r \in SourceRecords /\ r.gen = g /\ r.pred = p /\ r.vm = bound[n] /\ r.fence = None
        /\ r.barrier = None /\ r.cand = None /\ r.grant = None /\ ~r.complete
    BY <1>2, <1>3, <2>3
  <2> HIDE DEF r, active
  <2>6. CASE Src(n) # None /\ Src(n).gen = g
    <3>1. source' = [source EXCEPT ![n] = source_created(source[n], r)]
      BY <2>1 DEF Provision
    <3> QED
      BY <2>5, <2>6, <3>1 DEF source_created, Src, StateType, JournalType
  <2>7. CASE ~(Src(n) # None /\ Src(n).gen = g)
    <3>1. g \notin UsedGens /\ (Src(n) # None => active # None)
      BY <2>1, <2>7
    <3>2. r.pred # r.gen
      BY <2>3, <2>5, <3>1, HandoffAssumption
    <3>3. validate_source(r) /\ source' = [source EXCEPT ![n] = Supersede(source[n], r)]
      BY <1>1, <2>1, <2>5, <2>7, <3>2
    <3>4. \/ Src(n) = None
          \/ /\ Src(n) # None /\ Src(n).grant # None
             /\ Cand(n) # None /\ Cand(n).pred = Src(n).gen
             /\ ensure_source_unique(source[n], r)
      <4> SUFFICES ASSUME Src(n) # None
                   PROVE  /\ Src(n).grant # None /\ Cand(n) # None /\ Cand(n).pred = Src(n).gen
                          /\ ensure_source_unique(source[n], r)
        OBVIOUS
      <4>1. active = Cand(n) /\ Cand(n) # None /\ source_create_successor_ok(source[n], r, active, bound[n])
        BY <2>1, <2>2, <3>1
      <4>2. ~SourceSuccessorRetry(source[n], r)
        BY <1>0, <2>5, <2>7, RetriedRecord DEF Src
      <4> QED
        BY <4>1, <4>2 DEF source_create_successor_ok, Src
    <3> QED
      BY <2>3, <2>5, <3>1, <3>3, <3>4 DEF SourceCreated
  <2> QED
    BY <2>6, <2>7
<1>5. ASSUME NEW g \in Gens, reseed_source(n, g)
      PROVE  source' = source \/ \E r \in SourceRecords : SourceCreated(n, r)
  <2> DEFINE p == IF Src(n).gen = g THEN Src(n).pred ELSE Src(n).gen
             r == SourceRecord(g, p, bound[n], Lsn(bound[n]))
  <2>1. /\ Src(n) # None /\ (Src(n).gen = g \/ g \notin UsedGens)
        /\ source_create_reseed_ok(source[n], r)
        /\ Provision(n, r, TRUE)
    BY <1>5 DEF reseed_source
  <2>2. p \in Gens \cup {None} /\ p \in UsedGens \cup {None}
    <3>1. Src(n).gen \in UsedGens /\ Src(n).pred \in UsedGens \cup {None}
      BY <1>0, <2>1 DEF UsedGens, PredInv
    <3> QED
      BY <1>0, <2>1, <3>1 DEF SourceRecords
  <2> HIDE DEF p
  <2>3. /\ r \in SourceRecords /\ r.gen = g /\ r.pred = p /\ r.vm = bound[n] /\ r.fence = None
        /\ r.barrier = None /\ r.cand = None /\ r.grant = None /\ ~r.complete
    BY <1>2, <1>3, <2>2
  <2> HIDE DEF r
  <2>4. CASE Src(n).gen = g
    <3>1. source' = [source EXCEPT ![n] = source_created(source[n], r)]
      BY <2>1 DEF Provision
    <3> QED
      BY <2>1, <2>3, <2>4, <3>1 DEF source_created, Src, StateType, JournalType
  <2>5. CASE Src(n).gen # g
    <3>1. g \notin UsedGens /\ r.pred # r.gen
      BY <2>1, <2>2, <2>3, <2>5, HandoffAssumption
    <3>2. validate_source(r) /\ source' = [source EXCEPT ![n] = Supersede(source[n], r)]
      BY <1>1, <2>1, <2>3, <2>5, <3>1
    <3>3. ~SourceCreateRetry(source[n], r)
      BY <1>0, <2>3, <2>5, RetriedRecord DEF Src, SourceCreateRetry
    <3>4. source_reseed_follows(Src(n), r) /\ source_journal(Supersede(source[n], r))
      BY <2>1, <3>3 DEF source_create_reseed_ok, Src
    <3> QED
      BY <2>1, <2>2, <2>3, <3>1, <3>2, <3>4 DEF SourceCreated
  <2> QED
    BY <2>4, <2>5
<1> QED
  BY <1>4, <1>5 DEF Prepare

\* The current candidate record of a node is rewritten.
CandidateUpdated(n, r) ==
    /\ Cand(n) # None /\ r \in CandidateRecords
    /\ physical' = [physical EXCEPT ![n] = Update(physical[n], r)]
    /\ r.gen = Cand(n).gen /\ r.pred = Cand(n).pred
    /\ r.srcVm = Cand(n).srcVm /\ r.prev = Cand(n).prev
    /\ validate_record(Cand(n)) => validate_record(r)
    /\ r.cand = Cand(n).cand \/ \A q \in Records(physical[n]) : q.cand # r.cand

\* A candidate record is created: the first, one that replaces a lost preparation,
\* or one that succeeds the local record whose grant moved the writer away.
CandidateCreated(n, r) ==
    /\ r \in CandidateRecords
    /\ physical' = [physical EXCEPT ![n] = Supersede(physical[n], r)]
    /\ \A q \in Records(physical[n]) : q.gen # r.gen
    /\ r.cand = None /\ (r.pred # r.gen => validate_record(r))
    /\ Prepared(Peer(n), r.gen, r.pred, r.srcVm)
    /\ \/ Cand(n) = None /\ r.pred = None
       \/ Cand(n) # None /\ candidate_reseed_follows(Cand(n), r)
       \/ /\ Src(n) # None /\ r.pred = Src(n).gen
          /\ Cand(n) = None => Src(n).pred = None
          /\ Cand(n) # None => Cand(n).phase = "activated" /\ Src(n).pred = Cand(n).gen

\* What a transition writes.
LEMMA AdvanceWrites ==
    ASSUME HandoffInv, NEW n \in Nodes, NEW from, NEW to, NEW v \in Gens \cup {None},
           Advance(n, from, to, v)
    PROVE  \E r \in CandidateRecords : CandidateUpdated(n, r)
<1> USE DEF HandoffInv
<1>1. /\ Cand(n) # None /\ <<from, to>> \in LegalAdvance
      /\ v # None => ~local_candidate_vm_owned(physical[n], v)
      /\ validate_record([Cand(n) EXCEPT !.phase = to, !.cand = IF v = None THEN @ ELSE v])
      /\ physical' = [physical EXCEPT ![n] = advance(physical[n], to, v)]
  BY DEF Advance, advance_ok, Cand
<1>2. to \in ToSet(Phases)
  BY <1>1, PhaseNames DEF LegalAdvance
<1>3. Cand(n) \in CandidateRecords
  BY <1>1, RecordTypes
<1> DEFINE c == IF v = None THEN Cand(n).cand ELSE v
           p == [Cand(n) EXCEPT !.phase = to]
           r == [p EXCEPT !.cand = c]
<1>4. c \in Gens \cup {None}
  BY <1>3 DEF CandidateRecords
<1>5. /\ advance(physical[n], to, v) = Update(physical[n], r)
      /\ [Cand(n) EXCEPT !.phase = to, !.cand = IF v = None THEN @ ELSE v] = r
  BY <1>3 DEF advance, Cand, CandidateRecords
<1> HIDE DEF c
<1>6. /\ p \in CandidateRecords /\ p.gen = Cand(n).gen /\ p.pred = Cand(n).pred
      /\ p.srcVm = Cand(n).srcVm /\ p.prev = Cand(n).prev
  BY <1>2, <1>3 DEF CandidateRecords
<1> HIDE DEF p
<1>7. /\ r \in CandidateRecords /\ r.gen = p.gen /\ r.pred = p.pred
      /\ r.srcVm = p.srcVm /\ r.prev = p.prev /\ r.cand = c
  BY <1>4, <1>6 DEF CandidateRecords
<1>8. validate_record(r)
  BY <1>1, <1>5
<1> HIDE DEF r
<1>9. r.cand = Cand(n).cand \/ \A q \in Records(physical[n]) : q.cand # r.cand
  BY <1>1, <1>7 DEF c, local_candidate_vm_owned
<1> QED
  BY <1>1, <1>5, <1>6, <1>7, <1>8, <1>9 DEF CandidateUpdated

\* What the acceptance of a handoff and of a standby bind writes.
LEMMA BeginWrites ==
    ASSUME HandoffInv, NEW n \in Nodes,
           HandoffAccepted(n) \/ \E m \in msgs : accept_standby_bind(n, m)
    PROVE  physical' = physical \/ \E r \in CandidateRecords : CandidateUpdated(n, r)
<1> USE DEF HandoffInv
<1>1. ASSUME NEW phase \in {"prepared", "standby_binding"}, NEW b \in Nat \cup {None},
             NEW l \in Nat \cup {None}, Cand(n) # None,
             Cand(n).phase \in {"verified", "standby", "standby_binding"},
             phase = "prepared" => b # None /\ l = None,
             phase = "standby_binding" => b = Cand(n).barrier /\ l # None,
             physical' = [physical EXCEPT ![n] =
                Update(physical[n], [Cand(n) EXCEPT !.phase = phase, !.barrier = b, !.standbyLsn = l])]
      PROVE  \E r \in CandidateRecords : CandidateUpdated(n, r)
  <2>1. Cand(n) \in CandidateRecords /\ phase \in ToSet(Phases)
    BY <1>1, RecordTypes, PhaseNames
  <2> DEFINE p == [Cand(n) EXCEPT !.phase = phase]
             q == [p EXCEPT !.barrier = b]
             r == [q EXCEPT !.standbyLsn = l]
  <2>2. [Cand(n) EXCEPT !.phase = phase, !.barrier = b, !.standbyLsn = l] = r
    BY <2>1 DEF CandidateRecords
  <2>3. /\ p \in CandidateRecords /\ p.gen = Cand(n).gen /\ p.pred = Cand(n).pred
        /\ p.srcVm = Cand(n).srcVm /\ p.prev = Cand(n).prev /\ p.cand = Cand(n).cand /\ p.phase = phase
    BY <2>1 DEF CandidateRecords
  <2> HIDE DEF p
  <2>4. /\ q \in CandidateRecords /\ q.gen = p.gen /\ q.pred = p.pred
        /\ q.srcVm = p.srcVm /\ q.prev = p.prev /\ q.cand = p.cand /\ q.phase = p.phase /\ q.barrier = b
    BY <2>3 DEF CandidateRecords
  <2> HIDE DEF q
  <2>5. /\ r \in CandidateRecords /\ r.gen = q.gen /\ r.pred = q.pred
        /\ r.srcVm = q.srcVm /\ r.prev = q.prev /\ r.cand = q.cand /\ r.phase = q.phase
        /\ r.barrier = q.barrier /\ r.standbyLsn = l
    BY <2>4 DEF CandidateRecords
  <2> HIDE DEF r
  <2>6. validate_record(Cand(n)) => validate_record(r)
    BY <1>1, <2>3, <2>4, <2>5, PhaseNumbers DEF validate_record, handoff_started, HandoffPhases
  <2> QED
    BY <1>1, <2>2, <2>3, <2>4, <2>5, <2>6 DEF CandidateUpdated
<1>2. CASE HandoffAccepted(n)
  <2> DEFINE m == op[n].req
  <2>1. /\ Cand(n) # None /\ Cand(n).phase \in {"verified", "standby"}
        /\ physical' = [physical EXCEPT ![n] = begin_handoff(physical[n], m.barrier)]
        /\ m \in Handoffs
    BY <1>2 DEF HandoffAccepted, begin_handoff_ok, Cand, Holds, OpInv, NodeOp, AcceptOp
  <2>2. m.barrier \in Nat /\ m.barrier # None
    BY <2>1, NoneAssumption DEF Handoffs
  <2> QED
    BY <1>1, <2>1, <2>2 DEF begin_handoff, Cand
<1>3. ASSUME NEW m \in msgs, accept_standby_bind(n, m)
      PROVE  physical' = physical \/ \E r \in CandidateRecords : CandidateUpdated(n, r)
  <2> SUFFICES ASSUME physical' # physical PROVE \E r \in CandidateRecords : CandidateUpdated(n, r)
    OBVIOUS
  <2>1. /\ Cand(n) # None /\ Cand(n).phase \in {"verified", "standby_binding"}
        /\ physical' = [physical EXCEPT ![n] = begin_standby_binding(physical[n], m.lsn)]
        /\ m \in Binds
    BY <1>3, MessageTypes DEF accept_standby_bind, begin_standby_binding_ok, Cand
  <2>2. m.lsn \in Nat /\ m.lsn # None
    BY <2>1, NoneAssumption DEF Binds
  <2>3. Cand(n) \in CandidateRecords /\ Cand(n).barrier \in Nat \cup {None}
    BY <2>1, RecordTypes DEF CandidateRecords
  <2>4. [Cand(n) EXCEPT !.phase = "standby_binding", !.standbyLsn = m.lsn]
        = [Cand(n) EXCEPT !.phase = "standby_binding", !.barrier = Cand(n).barrier, !.standbyLsn = m.lsn]
    BY <2>3 DEF CandidateRecords
  <2> QED
    BY <1>1, <2>1, <2>2, <2>3, <2>4 DEF begin_standby_binding, Cand
<1> QED
  BY <1>2, <1>3

\* What the acceptance of a candidate writes.
LEMMA AcceptWrites ==
    ASSUME HandoffInv, NEW n \in Nodes, NEW m \in msgs, accept_candidate(n, m)
    PROVE  physical' = physical \/ \E r \in CandidateRecords : CandidateCreated(n, r)
<1> USE DEF HandoffInv
<1> DEFINE r == CandidateRecord(m.gen, m.pred, bound[n], m.vm)
<1> SUFFICES ASSUME physical' # physical PROVE CandidateCreated(n, r) /\ r \in CandidateRecords
  OBVIOUS
<1>1. /\ m.to = n /\ m.kind = "provision" /\ AcceptsCandidate(n, m, r)
      /\ physical' = [physical EXCEPT ![n] = candidate_created(physical[n], r)]
  BY DEF accept_candidate, Request
<1>2. m \in Provisions /\ Prepared(Peer(n), m.gen, m.pred, m.vm)
  BY <1>1, MessageTypes DEF Core, GenInv
<1>3. m.gen \in Gens /\ m.pred \in Gens \cup {None} /\ m.vm \in VMs /\ bound[n] \in VMs
  BY <1>2 DEF Provisions, StateType, ServingType
<1>4. /\ r \in CandidateRecords /\ r.gen = m.gen /\ r.pred = m.pred /\ r.srcVm = m.vm
      /\ r.phase = "intent" /\ r.cand = None /\ r.barrier = None /\ r.standbyLsn = None
  BY <1>3, NewCandidateRecord DEF CandidateRecord
<1> HIDE DEF r
<1>5. ~(Cand(n) # None /\ Cand(n).gen = m.gen)
  BY <1>1, <1>4 DEF candidate_created, Cand, StateType, JournalType
<1>6. physical' = [physical EXCEPT ![n] = Supersede(physical[n], r)]
  BY <1>1, <1>4, <1>5 DEF candidate_created, Cand
<1>7. \A q \in Records(physical[n]) : q.gen # m.gen
  BY <1>1, <1>2, <1>4, <1>5, AcceptedIsNew
<1>8. r.pred # r.gen => validate_record(r)
  BY <1>4, PhaseNumbers DEF validate_record, handoff_started, HandoffPhases
<1>9. /\ ~CandidateCreateRetry(physical[n], r) /\ ~CandidateSuccessorRetry(physical[n], r)
      /\ ~CandidateReseedRetry(physical[n], r)
  <2>1. Cand(n) # None => Cand(n) \in CandidateRecords
    BY RecordTypes
  <2> QED
    BY <1>4, <1>5, <2>1 DEF CandidateCreateRetry, CandidateSuccessorRetry, CandidateReseedRetry,
                            CandidateRecords, Cand
<1>10. \/ Cand(n) = None /\ r.pred = None
       \/ Cand(n) # None /\ candidate_reseed_follows(Cand(n), r)
       \/ /\ Src(n) # None /\ r.pred = Src(n).gen
          /\ Cand(n) = None => Src(n).pred = None
          /\ Cand(n) # None => Cand(n).phase = "activated" /\ Src(n).pred = Cand(n).gen
  <2>1. CASE m.reseed
    BY <1>1, <1>9, <2>1 DEF AcceptsCandidate, candidate_create_reseed_ok, Cand
  <2>2. CASE ~m.reseed /\ m.pred # None
    BY <1>1, <1>9, <2>2 DEF AcceptsCandidate, candidate_create_successor_ok, Cand
  <2>3. CASE ~m.reseed /\ m.pred = None
    BY <1>1, <1>9, <2>3 DEF AcceptsCandidate, candidate_create_ok, Cand
  <2> QED
    BY <2>1, <2>2, <2>3
<1> QED
  BY <1>2, <1>4, <1>6, <1>7, <1>8, <1>10 DEF CandidateCreated

-----------------------------------------------------------------------------
(* Steps keep the invariant *)

\* The records of a node have different generations.
LEMMA OneGeneration ==
    ASSUME StateType, JournalsReload, NEW n \in Nodes,
           NEW r \in Records(source[n]), NEW q \in Records(source[n]), r.gen = q.gen
    PROVE  r = q
<1> DEFINE s == LoadOrder(source[n])
<1>1. (\E i \in DOMAIN s : s[i] = r) /\ (\E i \in DOMAIN s : s[i] = q)
  BY RecordTypes, NoneAssumption, LoadPlaces DEF SourceJournals
<1>2. NoDuplicate(s, LAMBDA x : x.gen)
  BY DEF JournalsReload, source_journal
<1>3. r.gen # None
  BY RecordTypes, HandoffAssumption DEF SourceRecords
<1> HIDE DEF s
<1> QED
  BY <1>1, <1>2, <1>3 DEF NoDuplicate

\* All records of a journal that loads are valid.
LEMMA ValidRecords ==
    ASSUME StateType, JournalsReload, NEW n \in Nodes
    PROVE  /\ \A r \in Records(source[n]) : validate_source(r)
           /\ \A r \in Records(physical[n]) : validate_record(r)
<1>1. \A r \in Records(source[n]) : \E i \in DOMAIN LoadOrder(source[n]) : LoadOrder(source[n])[i] = r
  BY RecordTypes, NoneAssumption, LoadPlaces DEF SourceJournals
<1>2. \A r \in Records(physical[n]) : \E i \in DOMAIN LoadOrder(physical[n]) : LoadOrder(physical[n])[i] = r
  BY RecordTypes, NoneAssumption, LoadPlaces DEF CandidateJournals
<1> QED
  BY <1>1, <1>2 DEF JournalsReload, source_journal, candidate_journal

\* The parts of the invariant that depend on which generations there are.
LEMMA GensKept ==
    ASSUME StateType, JournalInv, UNCHANGED physical,
           \A m \in Nodes : {q.gen : q \in Records(source[m])'} = {q.gen : q \in Records(source[m])},
           \A m \in Nodes : \A r \in Records(source[m])' : \E q \in Records(source[m]) :
               r.gen = q.gen /\ r.pred = q.pred
    PROVE  /\ PredInv' /\ SuccessorInv'
           /\ \A m \in Nodes : \A r, q : r.pred = q.pred => (Reseeded(m, r)' <=> Reseeded(m, q))
<1>1. UsedGens' = UsedGens
  BY DEF UsedGens
<1>2. PredInv'
  BY <1>1 DEF PredInv, JournalInv, LookupInv
<1>3. \A m \in Nodes : \A r, q : r.pred = q.pred => (Reseeded(m, r)' <=> Reseeded(m, q))
  <2>1. ASSUME NEW m \in Nodes, NEW r PROVE Reseeded(m, r) <=> r.pred \in {q.gen : q \in Records(source[m])}
    BY DEF Reseeded
  <2>2. ASSUME NEW m \in Nodes, NEW r PROVE Reseeded(m, r)' <=> r.pred \in {q.gen : q \in Records(source[m])'}
    BY DEF Reseeded
  <2> QED
    BY <2>1, <2>2
<1>4. SuccessorInv'
  <2>1. ASSUME NEW m \in Nodes, NEW k \in Records(physical[m]), NEW r \in Records(source[m])',
               k.pred = r.gen, Reseeded(m, r)'
        PROVE  FALSE
    <3>1. PICK q \in Records(source[m]) : r.gen = q.gen /\ r.pred = q.pred
      OBVIOUS
    <3>2. Reseeded(m, q)
      BY <1>3, <2>1, <3>1
    <3> QED
      BY <2>1, <3>1, <3>2 DEF SuccessorInv, JournalInv, LookupInv
  <2> QED
    BY <2>1 DEF SuccessorInv
<1> QED
  BY <1>2, <1>3, <1>4

\* Rewriting a source record.
LEMMA SourceUpdateKeeps ==
    ASSUME HandoffInv, JournalInv, NEW n \in Nodes, NEW r \in SourceRecords, SourceUpdated(n, r),
           UNCHANGED physical
    PROVE  JournalInv'
<1> USE DEF HandoffInv, JournalInv, LookupInv
<1>1. /\ source[n] \in SourceJournals /\ None \notin SourceRecords /\ Src(n) # None
      /\ Src(n) \in Records(source[n]) /\ Records(source[n]) = ToSet(source[n].hist) \cup {Src(n)}
      /\ ToSet(source[n].hist) \subseteq Records(source[n])
      /\ r.gen = Src(n).gen /\ r.pred = Src(n).pred /\ r.vm = Src(n).vm
  BY RecordTypes, NoneAssumption DEF SourceUpdated
<1>2. /\ Update(source[n], r).cur = r /\ Update(source[n], r).hist = source[n].hist
      /\ Records(Update(source[n], r)) = ToSet(source[n].hist) \cup {r}
  BY <1>1, UpdateRecords DEF SourceJournals
<1>3. source'[n] = Update(source[n], r) /\ \A m \in Nodes : m # n => source'[m] = source[m]
  BY DEF SourceUpdated, StateType, JournalType
<1>4. /\ Src(n)' = r /\ source'[n].hist = source[n].hist
      /\ Records(source[n])' = ToSet(source[n].hist) \cup {r}
      /\ \A m \in Nodes : m # n => Records(source[m])' = Records(source[m]) /\ Src(m)' = Src(m)
  BY <1>2, <1>3 DEF Src
<1>5. \A m \in Nodes : \A q \in Records(source[m])' : \E p \in Records(source[m]) :
         q.gen = p.gen /\ q.pred = p.pred
  BY <1>1, <1>4
<1>6. \A m \in Nodes : {q.gen : q \in Records(source[m])'} = {q.gen : q \in Records(source[m])}
  BY <1>1, <1>4
<1>7. /\ PredInv' /\ SuccessorInv'
      /\ \A m \in Nodes : \A x, y : x.pred = y.pred => (Reseeded(m, x)' <=> Reseeded(m, y))
  BY <1>5, <1>6, GensKept
<1>8. ReseedInv'
  <2>1. ASSUME NEW q \in ToSet(source[n].hist), q.vm = r.vm PROVE Reseeded(n, r)'
    BY <1>1, <1>7, <2>1 DEF ReseedInv
  <2>2. ASSUME NEW m \in Nodes, m # n, NEW q \in ToSet(source[m].hist), q.vm = Src(m).vm
        PROVE  Reseeded(m, Src(m))'
    <3>1. Src(m)' = Src(m) /\ Reseeded(m, Src(m))
      BY <1>4, <2>2 DEF ReseedInv
    <3>2. \A x : Reseeded(m, x) => Reseeded(m, x)'
      BY <1>7
    <3> QED
      BY <1>4, <2>2, <3>1, <3>2 DEF Reseeded
  <2> QED
    BY <1>3, <1>4, <2>1, <2>2 DEF ReseedInv
<1>9. GrantAlone'
  <2>1. ASSUME NEW q \in ToSet(source[n].hist), q.grant # None, q.vm = r.vm PROVE FALSE
    BY <1>1, <2>1 DEF Core, BoundInv
  <2>2. \A q \in ToSet(source[n].hist), p \in Records(source[n])' :
           q.grant # None /\ p.vm = q.vm => p = q
    BY <1>1, <1>4, <2>1 DEF GrantAlone
  <2>3. \A m \in Nodes : m # n => ToSet(source'[m].hist) = ToSet(source[m].hist)
    BY <1>3
  <2> QED
    BY <1>4, <2>2, <2>3 DEF GrantAlone
<1>10. JournalsReload'
  <2>1. validate_source(Src(n))
    BY <1>1, ValidRecords
  <2>2. source_journal(Update(source[n], r))
    BY <1>1, <2>1, SourceUpdateLoads DEF SourceUpdated, Src, JournalsReload
  <2> QED
    BY <1>3, <2>2 DEF JournalsReload
<1> QED
  BY <1>7, <1>8, <1>9, <1>10

\* Creating a source record.
LEMMA SourceCreateKeeps ==
    ASSUME HandoffInv, JournalInv, NEW n \in Nodes, NEW r \in SourceRecords, SourceCreated(n, r),
           UNCHANGED physical
    PROVE  JournalInv'
<1> USE DEF HandoffInv, JournalInv, LookupInv
<1>1. /\ source[n] \in SourceJournals /\ None \notin SourceRecords
      /\ ToSet(source[n].hist) \subseteq Records(source[n])
      /\ Src(n) # None => /\ Src(n) \in Records(source[n])
                          /\ Records(source[n]) = ToSet(source[n].hist) \cup {Src(n)}
      /\ Src(n) = None => Records(source[n]) = {}
  <2>1. Src(n) = None => ToSet(source[n].hist) = {}
    BY DEF Core, BoundInv
  <2> QED
    BY <2>1, RecordTypes, NoneAssumption DEF Records, Src
<1>2. /\ Supersede(source[n], r).cur = r /\ ToSet(Supersede(source[n], r).hist) = Records(source[n])
      /\ Records(Supersede(source[n], r)) = Records(source[n]) \cup {r}
  BY <1>1, SupersedeRecords DEF SourceJournals
<1>3. source'[n] = Supersede(source[n], r) /\ \A m \in Nodes : m # n => source'[m] = source[m]
  BY DEF SourceCreated, StateType, JournalType
<1>4. /\ Src(n)' = r /\ ToSet(source'[n].hist) = Records(source[n])
      /\ Records(source[n])' = Records(source[n]) \cup {r}
      /\ \A m \in Nodes : m # n => /\ Records(source[m])' = Records(source[m]) /\ Src(m)' = Src(m)
                                   /\ ToSet(source'[m].hist) = ToSet(source[m].hist)
  BY <1>2, <1>3 DEF Src
<1>5. /\ r.gen \notin UsedGens /\ r.pred \in UsedGens \cup {None}
      /\ UsedGens' = UsedGens \cup {r.gen}
      /\ \A m \in Nodes : \A q \in Records(source[m]) : q.gen \in UsedGens
  BY <1>4 DEF SourceCreated, UsedGens
<1>6. PredInv'
  BY <1>4, <1>5 DEF PredInv
<1>7. \A m \in Nodes : \A q \in Records(source[m]) : Reseeded(m, q)' <=> Reseeded(m, q)
  <2>1. \A m \in Nodes : \A q \in Records(source[m]) : q.pred # r.gen
    <3>1. r.gen # None
      BY HandoffAssumption DEF SourceRecords
    <3> QED
      BY <1>5, <3>1 DEF PredInv
  <2> QED
    BY <1>4, <2>1 DEF Reseeded
<1>8. SuccessorInv'
  <2>1. ASSUME NEW m \in Nodes, NEW k \in Records(physical[m]) PROVE k.pred # r.gen
    <3>1. PICK q \in Records(source[Peer(m)]) : q.pred = k.pred
      BY <2>1 DEF Core, GenInv, Prepared
    <3>2. k.pred \in UsedGens \cup {None}
      BY <3>1, PeerFacts DEF PredInv
    <3> QED
      BY <1>5, <3>2, HandoffAssumption DEF SourceRecords
  <2>2. ASSUME NEW m \in Nodes, NEW k \in Records(physical[m]), NEW q \in Records(source[m])',
               k.pred = q.gen
        PROVE  ~Reseeded(m, q)'
    <3>1. q \in Records(source[m])
      BY <1>4, <2>1, <2>2
    <3> QED
      BY <1>7, <2>2, <3>1 DEF SuccessorInv
  <2> QED
    BY <2>2 DEF SuccessorInv
<1>9. CASE Src(n) = None
  <2>1. Records(source[n]) = {}
    BY <1>1, <1>9
  <2>2. ReseedInv'
    BY <1>4, <1>7, <2>1, RecordTypes DEF ReseedInv, Core, BoundInv
  <2>3. GrantAlone'
    BY <1>4, <2>1 DEF GrantAlone
  <2>4. source_journal(Supersede(source[n], r))
    BY <1>1, <1>9, <2>1, SourceSuccessorLoads
       DEF SourceCreated, ensure_source_unique, JournalsReload, Src
  <2>5. JournalsReload'
    BY <1>3, <2>4 DEF JournalsReload
  <2> QED
    BY <1>6, <1>8, <2>2, <2>3, <2>5
<1>10. CASE /\ Src(n) # None /\ Src(n).grant # None
            /\ Cand(n) # None /\ Cand(n).pred = Src(n).gen
            /\ ensure_source_unique(source[n], r)
  <2>1. \A q \in Records(source[n]) : q.vm # r.vm
    BY <1>10 DEF ensure_source_unique
  <2>2. \A q \in ToSet(source[n].hist) : q.vm # Src(n).vm
    <3>1. Cand(n) \in Records(physical[n])
      BY <1>10, RecordTypes
    <3>2. ~Reseeded(n, Src(n))
      BY <1>1, <1>10, <3>1 DEF SuccessorInv
    <3> QED
      BY <3>2 DEF ReseedInv
  <2>3. ReseedInv'
    BY <1>4, <1>7, <2>1, RecordTypes DEF ReseedInv, Core, BoundInv
  <2>4. GrantAlone'
    <3>1. \A q \in Records(source[n]), p \in Records(source[n])' : q.grant # None /\ p.vm = q.vm => p = q
      BY <1>1, <1>4, <1>10, <2>1, <2>2 DEF GrantAlone
    <3> QED
      BY <1>4, <3>1 DEF GrantAlone
  <2>5. source_journal(Supersede(source[n], r))
    BY <1>1, <1>10, SourceSuccessorLoads DEF SourceCreated, JournalsReload, Src
  <2>6. JournalsReload'
    BY <1>3, <2>5 DEF JournalsReload
  <2> QED
    BY <1>6, <1>8, <2>3, <2>4, <2>6
<1>11. CASE /\ Src(n) # None /\ source_reseed_follows(Src(n), r)
            /\ source_journal(Supersede(source[n], r))
  <2>1. r.pred = Src(n).gen /\ r.vm = Src(n).vm /\ Src(n).grant = None
    BY <1>11 DEF source_reseed_follows
  <2>2. ReseedInv'
    <3>1. Reseeded(n, Src(n))'
      BY <1>1, <1>4, <1>11, <2>1 DEF Reseeded
    <3> QED
      BY <1>4, <1>7, <3>1, RecordTypes DEF ReseedInv, Core, BoundInv
  <2>3. GrantAlone'
    <3>1. ASSUME NEW q \in Records(source[n]), NEW p \in Records(source[n])', q.grant # None, p.vm = q.vm
          PROVE  p = q
      <4>1. q \in ToSet(source[n].hist)
        BY <1>1, <1>11, <2>1, <3>1
      <4>2. q.vm # Src(n).vm
        BY <3>1, <4>1 DEF Core, BoundInv
      <4> QED
        BY <1>4, <2>1, <3>1, <4>1, <4>2 DEF GrantAlone
    <3> QED
      BY <1>4, <3>1 DEF GrantAlone
  <2>4. JournalsReload'
    BY <1>3, <1>11 DEF JournalsReload
  <2> QED
    BY <1>6, <1>8, <2>2, <2>3, <2>4
<1> QED
  BY <1>9, <1>10, <1>11 DEF SourceCreated

\* Rewriting a candidate record.
LEMMA CandidateUpdateKeeps ==
    ASSUME HandoffInv, JournalInv, NEW n \in Nodes, NEW r \in CandidateRecords, CandidateUpdated(n, r),
           UNCHANGED source
    PROVE  JournalInv'
<1> USE DEF HandoffInv, JournalInv, LookupInv
<1>1. /\ physical[n] \in CandidateJournals /\ None \notin CandidateRecords /\ Cand(n) # None
      /\ Cand(n) \in Records(physical[n]) /\ Records(physical[n]) = ToSet(physical[n].hist) \cup {Cand(n)}
  BY RecordTypes, NoneAssumption DEF CandidateUpdated
<1>2. Records(Update(physical[n], r)) = ToSet(physical[n].hist) \cup {r}
  BY <1>1, UpdateRecords DEF CandidateJournals
<1>3. physical'[n] = Update(physical[n], r) /\ \A m \in Nodes : m # n => physical'[m] = physical[m]
  BY DEF CandidateUpdated, StateType, JournalType
<1>4. PredInv' /\ ReseedInv' /\ GrantAlone'
  BY DEF PredInv, UsedGens, ReseedInv, Reseeded, GrantAlone, Src
<1>5. SuccessorInv'
  <2>1. \A m \in Nodes : \A k \in Records(physical[m])' : \E q \in Records(physical[m]) : k.pred = q.pred
    BY <1>1, <1>2, <1>3 DEF CandidateUpdated
  <2> QED
    BY <2>1 DEF SuccessorInv, Reseeded
<1>6. JournalsReload'
  <2>1. validate_record(Cand(n))
    BY <1>1, ValidRecords
  <2>2. candidate_journal(Update(physical[n], r))
    BY <1>1, <2>1, CandidateUpdateLoads DEF CandidateUpdated, Cand, JournalsReload
  <2> QED
    BY <1>3, <2>2 DEF JournalsReload
<1> QED
  BY <1>4, <1>5, <1>6

\* Creating a candidate record: it succeeds no record that was reseeded.
LEMMA CandidateCreateKeeps ==
    ASSUME HandoffInv, JournalInv, NEW n \in Nodes, NEW r \in CandidateRecords, CandidateCreated(n, r),
           UNCHANGED source
    PROVE  JournalInv'
<1> USE DEF HandoffInv, JournalInv, LookupInv
<1>1. /\ physical[n] \in CandidateJournals /\ None \notin CandidateRecords
      /\ Cand(n) # None => Cand(n) \in Records(physical[n])
  BY RecordTypes, NoneAssumption
<1>2. Records(Supersede(physical[n], r)) = Records(physical[n]) \cup {r}
  BY <1>1, SupersedeRecords DEF CandidateJournals
<1>3. physical'[n] = Supersede(physical[n], r) /\ \A m \in Nodes : m # n => physical'[m] = physical[m]
  BY DEF CandidateCreated, StateType, JournalType
<1>4. PredInv' /\ ReseedInv' /\ GrantAlone'
  BY DEF PredInv, UsedGens, ReseedInv, Reseeded, GrantAlone, Src
<1>5. ASSUME NEW s \in Records(source[n]), r.pred = s.gen PROVE ~Reseeded(n, s)
  <2>1. s.gen \in Gens /\ s.gen # None /\ \A q \in Records(source[n]) : q.gen # None
    BY RecordTypes, HandoffAssumption DEF SourceRecords
  <2>2. \A k \in Records(physical[n]) : \A q \in Records(source[n]) : k.gen # q.gen
    <3>1. \A k \in Records(physical[n]) : \E p \in Records(source[Peer(n)]) : p.gen = k.gen
      BY DEF Core, GenInv, Prepared
    <3> QED
      BY <3>1, PeerFacts DEF Core, GenInv
  <2>3. CASE Cand(n) = None /\ r.pred = None
    BY <1>5, <2>1, <2>3
  <2>4. CASE Cand(n) # None /\ candidate_reseed_follows(Cand(n), r)
    <3>1. r.pred = Cand(n).gen
      BY <2>4 DEF candidate_reseed_follows
    <3> QED
      BY <1>1, <1>5, <2>2, <2>4, <3>1
  <2>5. CASE /\ Src(n) # None /\ r.pred = Src(n).gen
             /\ Cand(n) = None => Src(n).pred = None
             /\ Cand(n) # None => Cand(n).phase = "activated" /\ Src(n).pred = Cand(n).gen
    <3>1. s = Src(n)
      BY <1>5, <2>5, RecordTypes, OneGeneration
    <3> QED
      BY <1>1, <2>1, <2>2, <2>5, <3>1 DEF Reseeded
  <2> QED
    BY <2>3, <2>4, <2>5 DEF CandidateCreated
<1>6. SuccessorInv'
  BY <1>2, <1>3, <1>5 DEF SuccessorInv, Reseeded
<1>7. JournalsReload'
  <2>1. r.pred # r.gen
    <3>1. PICK q \in Records(source[Peer(n)]) : q.gen = r.gen /\ q.pred = r.pred
      BY DEF CandidateCreated, Prepared
    <3> QED
      BY <3>1, PeerFacts, ValidRecords DEF validate_source
  <2>2. candidate_journal(Supersede(physical[n], r))
    BY <1>1, <2>1, CandidateCreateLoads DEF CandidateCreated, Cand, JournalsReload
  <2> QED
    BY <1>3, <2>2 DEF JournalsReload
<1> QED
  BY <1>4, <1>6, <1>7

\* The invariant holds at first, when the journals are empty.
LEMMA InitJournals == Init => JournalInv
<1> SUFFICES ASSUME Init PROVE JournalInv
  OBVIOUS
<1>1. \A n \in Nodes : source[n] = EmptyJournal /\ physical[n] = EmptyJournal
  BY DEF Init
<1>2. /\ LoadOrder(EmptyJournal) = << >> /\ Records(EmptyJournal) = {}
      /\ EmptyJournal.hist = << >> /\ EmptyJournal.cur = None
  BY DEF EmptyJournal, LoadOrder, Records, ToSet
<1>3. source_journal(EmptyJournal) /\ candidate_journal(EmptyJournal)
  BY <1>2 DEF source_journal, candidate_journal, NoDuplicate
<1>4. ToSet(<< >>) = {}
  BY DEF ToSet
<1> QED
  BY <1>1, <1>2, <1>3, <1>4 DEF JournalInv, JournalsReload, LookupInv, PredInv, ReseedInv, SuccessorInv, GrantAlone

\* Every step keeps it.
LEMMA NextJournals ==
    ASSUME HandoffInv, JournalInv, [Next]_vars
    PROVE  JournalInv'
<1>1. CASE source' = source /\ physical' = physical
  BY <1>1 DEF JournalInv, JournalsReload, LookupInv, PredInv, UsedGens, ReseedInv, Reseeded, SuccessorInv,
              GrantAlone, Src
<1>2. ASSUME NEW n \in Nodes, WritesSource(n) PROVE JournalInv'
  <2>1. physical' = physical
    BY <1>2 DEF WritesSource, Prepare, prepare_source, reseed_source, Provision, AuthorizeHandoff,
                FenceSource, SourceDrained, GrantHandoff, HandoffAnswered
  <2>2. \/ source' = source
        \/ \E r \in SourceRecords : SourceUpdated(n, r) \/ SourceCreated(n, r)
    BY <1>2, HandoffWrites, PrepareWrites DEF WritesSource, JournalInv, LookupInv
  <2> QED
    BY <1>1, <2>1, <2>2, SourceUpdateKeeps, SourceCreateKeeps
<1>3. ASSUME source' = source, NEW n \in Nodes, WritesCandidate(n) PROVE JournalInv'
  <2>1. \/ physical' = physical
        \/ \E r \in CandidateRecords : CandidateUpdated(n, r) \/ CandidateCreated(n, r)
    BY <1>3, AdvanceWrites, BeginWrites, AcceptWrites DEF WritesCandidate
  <2> QED
    BY <1>1, <1>3, <2>1, CandidateUpdateKeeps, CandidateCreateKeeps
<1> QED
  BY <1>1, <1>2, <1>3, JournalWrites

-----------------------------------------------------------------------------
(* Theorems *)

\* JournalInv is an invariant of the handoff.
THEOREM JournalInvariant == Spec => []JournalInv
<1>1. Init => JournalInv
  BY InitJournals
<1>2. HandoffInv /\ JournalInv /\ [Next]_vars => JournalInv'
  BY NextJournals
<1> QED
  BY <1>1, <1>2, HandoffInvariant, PTL DEF Spec

\* A pooler that restarts in any state accepts both of its journals: the checks of
\* PhysicalSourceStore::load and PhysicalStore::load never refuse what the methods
\* of the stores wrote.
THEOREM JournalsAlwaysLoad == Spec => []JournalsReload
<1>1. JournalInv => JournalsReload
  BY DEF JournalInv
<1> QED
  BY <1>1, JournalInvariant, PTL

\* The lookup of a grant finds every VM that was granted away, although it stops at
\* the first record that names the VM.
THEOREM GrantsFound == Spec => []GrantLookupComplete
<1>1. HandoffInv /\ JournalInv => GrantLookupComplete
  <2> SUFFICES ASSUME HandoffInv, JournalInv, NEW n \in Nodes, NEW r \in Records(source[n]), r.grant # None
               PROVE  grant_for_source_vm(source[n], r.vm) = r.grant
    BY DEF GrantLookupComplete
  <2> USE DEF HandoffInv, JournalInv, LookupInv
  <2> DEFINE h == source[n].hist
             s == IF Src(n) = None THEN h ELSE <<Src(n)>> \o h
             named == {i \in DOMAIN s : s[i].vm = r.vm}
  <2>1. /\ h \in Seq(SourceRecords) /\ Src(n) # None /\ Src(n) \in SourceRecords
        /\ Records(source[n]) = ToSet(h) \cup {Src(n)}
    <3>1. Src(n) # None
      BY RecordTypes DEF Core, BoundInv, Records, Src
    <3> QED
      BY <3>1, RecordTypes DEF SourceJournals
  <2>2. /\ DOMAIN s = 1 .. Len(h) + 1 /\ Len(h) \in Nat /\ s[1] = Src(n)
        /\ \A i \in 1 .. Len(h) : s[i + 1] = h[i]
        /\ DOMAIN h = 1 .. Len(h)
    BY <2>1
  <2>3. grant_for_source_vm(source[n], r.vm) = IF named = {} THEN None ELSE s[Min(named)].grant
    BY DEF grant_for_source_vm, FirstGrant, Src
  <2> HIDE DEF s
  <2>4. CASE r = Src(n)
    <3>1. 1 \in named /\ \A i \in named : 1 <= i
      BY <2>2, <2>4
    <3>2. Min(named) = 1
      BY <2>2, <3>1 DEF Min
    <3> QED
      BY <2>2, <2>3, <2>4, <3>1, <3>2
  <2>5. CASE r # Src(n)
    <3>1. r \in ToSet(h)
      BY <2>1, <2>5
    <3>2. PICK i \in DOMAIN h : h[i] = r
      BY <3>1 DEF ToSet
    <3>3. i + 1 \in named
      BY <2>2, <3>2
    <3>4. \A k \in named : s[k] = r
      <4>1. ASSUME NEW k \in DOMAIN s PROVE s[k] \in Records(source[n])
        <5>1. k = 1 \/ (k - 1 \in 1 .. Len(h) /\ s[k] = h[k - 1])
          BY <2>2, <4>1
        <5> QED
          BY <2>1, <2>2, <5>1 DEF ToSet
      <4> QED
        BY <3>1, <4>1 DEF GrantAlone
    <3>5. \A k \in DOMAIN h : h[k] = r => k = i
      <4> DEFINE t == LoadOrder(source[n])
      <4>1. t = Append(h, Src(n))
        BY <2>1 DEF LoadOrder, Src
      <4>2. \A k \in DOMAIN h : k \in DOMAIN t /\ t[k] = h[k]
        BY <2>1, <4>1
      <4>3. NoDuplicate(t, LAMBDA x : x.gen)
        BY DEF JournalsReload, source_journal
      <4>4. r.gen # None
        BY RecordTypes, HandoffAssumption DEF SourceRecords
      <4> HIDE DEF t
      <4> QED
        BY <3>2, <4>2, <4>3, <4>4 DEF NoDuplicate
    <3>6. named = {i + 1}
      <4>1. ASSUME NEW k \in named PROVE k = i + 1
        <5>1. k # 1 /\ k \in 1 .. Len(h) + 1 /\ s[k] = r
          BY <2>2, <2>5, <3>4
        <5>2. k - 1 \in DOMAIN h /\ h[k - 1] = r
          BY <2>2, <5>1
        <5> QED
          BY <2>2, <3>2, <3>5, <5>1, <5>2
      <4> QED
        BY <3>3, <4>1
    <3>7. Min(named) = i + 1
      BY <2>2, <3>2, <3>6 DEF Min
    <3> QED
      BY <2>3, <3>3, <3>4, <3>7
  <2> QED
    BY <2>4, <2>5
<1> QED
  BY <1>1, HandoffInvariant, JournalInvariant, PTL

=============================================================================
