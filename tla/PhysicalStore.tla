---------------------------- MODULE PhysicalStore ----------------------------
(***************************************************************************)
(* The two durable journals of a pg-fc node, as pure operators: what each  *)
(* method of PhysicalSourceStore and PhysicalStore accepts and what it     *)
(* leaves.  Code: pg-fc/src/replication/physical_store.rs.                 *)
(*                                                                         *)
(* A journal is the current record of the one database modelled and the    *)
(* records it superseded, oldest first; None stands for an absent record   *)
(* or field.  Every method writes the whole journal with an atomic rename  *)
(* before it changes the memory copy, so a method is one step.  For each   *)
(* method there is a predicate (the call succeeds) and the journal after   *)
(* it.  A retry that is recognised returns the journal unchanged.          *)
(*                                                                         *)
(* Left out: fields that never differ between the records of one database  *)
(* (name, system identifier, PostgreSQL version, credential), the peer and *)
(* the slot (both functions of the other fields), error texts, and the     *)
(* syntactic checks on identifiers.                                        *)
(***************************************************************************)
EXTENDS Integers, Sequences, SequencesExt

CONSTANTS
    None            \* an absent value

\* A candidate's phases, in the order of phase_number.
Phases == <<"intent", "creating", "candidate", "seeding", "verified",
            "standby_binding", "standby", "prepared", "promoting", "promoted",
            "binding", "activated">>

phase_number(p) == CHOOSE i \in DOMAIN Phases : Phases[i] = p

HandoffPhases == {"prepared", "promoting", "promoted", "binding", "activated"}
handoff_started(r) == r.phase \in HandoffPhases

SourceRecord(gen, pred, vm, lsn) ==
    [gen |-> gen, pred |-> pred, vm |-> vm, lsn |-> lsn, fence |-> None,
     barrier |-> None, cand |-> None, grant |-> None, complete |-> FALSE]

CandidateRecord(gen, pred, prev, srcVm) ==
    [gen |-> gen, pred |-> pred, cand |-> None, prev |-> prev, srcVm |-> srcVm,
     phase |-> "intent", barrier |-> None, standbyLsn |-> None]

EmptyJournal == [cur |-> None, hist |-> << >>]

\* Every record a journal holds, as the code chains them.
Records(j) == ToSet(j.hist) \cup (IF j.cur = None THEN {} ELSE {j.cur})

\* insert the new current record and push the old one on the history.
Supersede(j, r) ==
    [cur |-> r, hist |-> IF j.cur = None THEN j.hist ELSE Append(j.hist, j.cur)]

Update(j, r) == [j EXCEPT !.cur = r]

-----------------------------------------------------------------------------
(* Validation: what a record and a journal must satisfy to be loaded. *)

validate_source(r) ==
    /\ r.pred # r.gen
    /\ r.fence = "ready" <=> r.barrier # None
    /\ r.cand # None => /\ r.grant # None => r.grant.cand = r.cand
                        /\ r.fence # "unfencing"
    /\ r.complete => r.cand # None /\ r.grant # None

validate_record(r) ==
    /\ r.pred # r.gen
    /\ handoff_started(r) <=> r.barrier # None
    /\ r.phase \in {"standby_binding", "standby"} <=> r.standbyLsn # None
    /\ r.cand # None => r.cand # r.prev
    /\ phase_number(r.phase) >= phase_number("candidate") <=> r.cand # None

source_reseed_follows(old, new) ==
    /\ new.pred = old.gen
    /\ new.vm = old.vm
    /\ old.fence = None /\ old.grant = None /\ old.cand = None

candidate_reseed_follows(old, new) ==
    /\ new.pred = old.gen
    /\ new.srcVm = old.srcVm
    /\ new.prev = old.prev
    /\ ~handoff_started(old)
    /\ old.phase \notin {"standby_binding", "standby"}

\* History and current in load order, and the positions of the history in it.
LoadOrder(j) == IF j.cur = None THEN j.hist ELSE Append(j.hist, j.cur)

NoDuplicate(s, Key(_)) ==
    \A i, k \in DOMAIN s : i # k /\ Key(s[i]) # None => Key(s[i]) # Key(s[k])

\* source_journal: what PhysicalSourceStore::load demands of the file.
source_journal(j) ==
    LET s == LoadOrder(j) IN
    /\ \A i \in DOMAIN s : validate_source(s[i])
    /\ NoDuplicate(s, LAMBDA r : r.gen)
    /\ \A i, k \in DOMAIN s :
          (/\ i < k
           /\ s[i].vm = s[k].vm
           /\ \A m \in (i + 1)..(k - 1) : s[m].vm # s[i].vm)
             => source_reseed_follows(s[i], s[k])
    /\ \A i \in DOMAIN j.hist :
          j.hist[i].grant = None =>
             \E k \in DOMAIN s : k > i /\ source_reseed_follows(s[i], s[k])
    /\ j.hist # << >> => j.cur # None

\* candidate_journal: what PhysicalStore::load demands of the file.
candidate_journal(j) ==
    LET s == LoadOrder(j) IN
    /\ \A i \in DOMAIN s : validate_record(s[i])
    /\ NoDuplicate(s, LAMBDA r : r.gen)
    /\ NoDuplicate(s, LAMBDA r : r.cand)
    /\ \A i \in DOMAIN j.hist :
          j.hist[i].phase # "activated" =>
             \E k \in DOMAIN s : k > i /\ candidate_reseed_follows(s[i], s[k])
    /\ j.hist # << >> => j.cur # None

ensure_source_unique(j, r) ==
    \A o \in Records(j) : o.gen # r.gen /\ o.vm # r.vm

ensure_candidate_unique(j, r) == \A o \in Records(j) : o.gen # r.gen

-----------------------------------------------------------------------------
(* PhysicalSourceStore *)

\* The grant of the first record in s that names VM v.
FirstGrant(s, v) ==
    LET named == {i \in DOMAIN s : s[i].vm = v}
    IN  IF named = {} THEN None ELSE s[Min(named)].grant

\* As grant_for_source_vm, but the history is searched before the current record.
grant_from_oldest(j, v) == FirstGrant(LoadOrder(j), v)

\* The current record is searched first, then the history from the oldest.
grant_for_source_vm(j, v) ==
    FirstGrant(IF j.cur = None THEN j.hist ELSE <<j.cur>> \o j.hist, v)

\* A retry of create may differ in the LSN observed, and in nothing else.
SourceCreateRetry(j, r) == j.cur # None /\ [r EXCEPT !.lsn = j.cur.lsn] = j.cur

source_create_ok(j, r) ==
    /\ r.pred = None
    /\ SourceCreateRetry(j, r) \/ (j.cur = None /\ ensure_source_unique(j, r))

source_create_reseed_ok(j, r) ==
    /\ j.cur # None
    /\ \/ SourceCreateRetry(j, r)
       \/ /\ j.cur.gen # r.gen
          /\ source_reseed_follows(j.cur, r)
          /\ source_journal(Supersede(j, r))

\* A retried successor intent, whatever its handoff has reached since.
SourceSuccessorRetry(j, r) ==
    /\ j.cur # None
    /\ r = [j.cur EXCEPT !.lsn = r.lsn, !.grant = None, !.cand = None, !.complete = FALSE]

\* incoming is the local candidate whose activation made the source VM current.
source_create_successor_ok(j, r, incoming, binding) ==
    /\ incoming.phase = "activated"
    /\ incoming.cand = binding /\ r.vm = binding
    /\ r.pred = incoming.gen
    /\ \/ SourceSuccessorRetry(j, r)
       \/ /\ j.cur # None => /\ j.cur.gen # r.gen
                             /\ j.cur.grant # None
                             /\ incoming.pred = j.cur.gen
                             /\ j.cur.grant.cand = incoming.srcVm
          /\ ensure_source_unique(j, r)

\* The journal after any of the three creates.
source_created(j, r) ==
    IF j.cur # None /\ j.cur.gen = r.gen THEN j ELSE Supersede(j, r)

authorize_handoff_ok(j, g, c) ==
    /\ j.cur # None /\ j.cur.gen = g
    /\ j.cur.fence # "unfencing"
    /\ j.cur.grant # None => j.cur.grant.cand = c
    /\ j.cur.cand \in {None, c}

authorize_handoff(j, c) == Update(j, [j.cur EXCEPT !.cand = c])

\* An authorized source is not unfenced and a granted barrier does not move.
source_set_fence_ok(j, g, phase, barrier) ==
    /\ j.cur # None /\ j.cur.gen = g
    /\ phase = "unfencing" => j.cur.cand = None
    /\ j.cur.grant # None => phase = "ready" /\ barrier = j.cur.grant.barrier

source_set_fence(j, phase, barrier) ==
    Update(j, [j.cur EXCEPT !.fence = phase, !.barrier = barrier])

grant_handoff_ok(j, g, grant) ==
    /\ j.cur # None /\ j.cur.gen = g
    /\ j.cur.cand \in {None, grant.cand}
    /\ j.cur.grant \in {None, grant}

grant_handoff(j, grant) == Update(j, [j.cur EXCEPT !.grant = grant])

complete_handoff_ok(j, g, c) ==
    /\ j.cur # None /\ j.cur.gen = g
    /\ j.cur.cand = c
    /\ j.cur.grant # None /\ j.cur.grant.cand = c

\* As complete_handoff, but the grant is cleared with the finished handoff.
complete_handoff_clears(j) ==
    Update(j, [j.cur EXCEPT !.complete = TRUE, !.grant = None])

complete_handoff(j) == Update(j, [j.cur EXCEPT !.complete = TRUE])

pending_handoff(j) == j.cur # None /\ j.cur.cand # None /\ ~j.cur.complete

-----------------------------------------------------------------------------
(* PhysicalStore *)

CandidateCreateRetry(j, r) ==
    j.cur # None /\ r = [j.cur EXCEPT !.phase = "intent", !.cand = None]

candidate_create_ok(j, r) ==
    /\ r.pred = None
    /\ CandidateCreateRetry(j, r) \/ (j.cur = None /\ ensure_candidate_unique(j, r))

CandidateSuccessorRetry(j, r) ==
    /\ j.cur # None
    /\ r = [j.cur EXCEPT !.phase = "intent", !.cand = None, !.barrier = None]

\* preceding is the local source record whose grant moved the writer away.
candidate_create_successor_ok(j, r, preceding, binding) ==
    /\ preceding.grant # None
    /\ r.pred = preceding.gen
    /\ r.srcVm = preceding.grant.cand
    /\ preceding.vm = binding /\ r.prev = binding
    /\ \/ CandidateSuccessorRetry(j, r)
       \/ /\ j.cur # None
          /\ j.cur.gen # r.gen
          /\ j.cur.phase = "activated"
          /\ j.cur.cand = binding
          /\ preceding.pred = j.cur.gen
          /\ ensure_candidate_unique(j, r)
       \/ /\ j.cur = None
          /\ preceding.pred = None
          /\ ensure_candidate_unique(j, r)

CandidateReseedRetry(j, r) ==
    /\ j.cur # None
    /\ r = [j.cur EXCEPT !.phase = "intent", !.cand = None, !.standbyLsn = None]

candidate_create_reseed_ok(j, r, binding) ==
    /\ j.cur # None
    /\ r.prev = binding
    /\ \/ CandidateReseedRetry(j, r)
       \/ /\ j.cur.gen # r.gen
          /\ candidate_reseed_follows(j.cur, r)
          /\ ensure_candidate_unique(j, r)

\* The journal after any of the three creates.
candidate_created(j, r) ==
    IF j.cur # None /\ j.cur.gen = r.gen THEN j ELSE Supersede(j, r)

LegalAdvance ==
    {<<"intent", "creating">>, <<"creating", "candidate">>, <<"candidate", "seeding">>,
     <<"seeding", "verified">>, <<"standby_binding", "standby">>,
     <<"prepared", "promoting">>, <<"promoting", "promoted">>,
     <<"promoted", "binding">>, <<"binding", "activated">>}

local_candidate_vm_owned(j, v) == \E r \in Records(j) : v \in {r.cand, r.prev}

\* advance, with the VM that the step binds to the record (None: none).
advance_ok(j, g, from, to, v) ==
    /\ j.cur # None /\ j.cur.gen = g
    /\ j.cur.phase = from /\ <<from, to>> \in LegalAdvance
    /\ v # None => ~local_candidate_vm_owned(j, v) /\ j.cur.cand = None
    /\ validate_record([j.cur EXCEPT !.phase = to, !.cand = IF v = None THEN @ ELSE v])

advance(j, to, v) ==
    Update(j, [j.cur EXCEPT !.phase = to, !.cand = IF v = None THEN @ ELSE v])

\* As begin_standby_binding_ok, but any owned candidate may be bound.
begin_standby_binding_any(j, g, lsn) ==
    j.cur # None /\ j.cur.gen = g /\ j.cur.cand # None

begin_standby_binding_ok(j, g, lsn) ==
    /\ j.cur # None /\ j.cur.gen = g
    /\ \/ j.cur.phase = "standby_binding" /\ j.cur.standbyLsn = lsn
       \/ j.cur.phase = "verified"

begin_standby_binding(j, lsn) ==
    Update(j, [j.cur EXCEPT !.phase = "standby_binding", !.standbyLsn = lsn])

\* accept_handoff calls it in these phases only; later ones resume.
begin_handoff_ok(j, g) ==
    /\ j.cur # None /\ j.cur.gen = g
    /\ j.cur.phase \in {"verified", "standby"}

\* As begin_handoff, but the LSN of an earlier standby binding is kept.
begin_handoff_keeps_standby(j, barrier) ==
    Update(j, [j.cur EXCEPT !.phase = "prepared", !.barrier = barrier])

begin_handoff(j, barrier) ==
    Update(j, [j.cur EXCEPT !.phase = "prepared", !.barrier = barrier, !.standbyLsn = None])

=============================================================================
