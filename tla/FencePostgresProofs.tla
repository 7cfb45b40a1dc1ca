------------------------- MODULE FencePostgresProofs -------------------------
(***************************************************************************)
(* Machine-checked proofs about FencePostgres, for every set of clients    *)
(* and every bound on the WAL.                                             *)
(*                                                                         *)
(* FenceInv is inductive.  The facts FenceProgress carries from statement  *)
(* to statement are stable because admission is closed from the ALTER on:  *)
(* StartBackend can no longer produce a starting backend, so once the      *)
(* starting ones are gone no attached one appears, once those are gone     *)
(* nothing prepares or commits, and the barrier read after that is final.  *)
(***************************************************************************)
EXTENDS FencePostgres, TLAPS

\* Next as one disjunction over the single steps, in the order of the proofs.
LEMMA NextCases ==
    Next <=>
        \/ \E c \in Clients :
              \/ Route(c) \/ StartBackend(c) \/ FinishStartup(c) \/ Commit(c)
              \/ PrepareTransaction(c) \/ Leave(c)
              \/ \E p \in prepared : CommitPrepared(c, p)
        \/ BeginFence \/ BeginFenceSelective \/ BeginUnfence
        \/ CloseAdmission \/ AlterAdmission \/ DrainStartups \/ StartupsDrained
        \/ NoPreparedBeforeDrain \/ TerminateSessions \/ SessionsDrained
        \/ NoPreparedAfterDrain \/ CaptureBarrier \/ Checkpoint \/ PersistReady
        \/ FenceRefused \/ Reopen \/ ClearFence
        \/ OperationFails \/ Flush \/ PostgresCrash \/ ControllerCrash
BY DEF Next, TenantStep, OperatorRequest, ControllerStep

\* The starting state satisfies the invariant.
LEMMA InitInv == Init => FenceInv
BY DEF Init, FenceInv, TypeOK, FenceProgress, ReadyBarrierCovers, ReadyIsClosed,
       FencePhases, Modes, NoFence, SessionStates, FenceSteps, UnfenceSteps,
       AfterAlter, AfterStartups, AfterSessions, AfterPrepared, AfterCapture

\* Every step of the tenant, the operator, the controller or the environment
\* keeps the type invariant.
LEMMA NextType == ASSUME TypeOK, [Next]_vars PROVE TypeOK'
<1> USE MaxLsnAssumption
        DEF TypeOK, FencePhases, Modes, NoFence, SessionStates, FenceSteps,
            UnfenceSteps, record, wal
<1>1. ASSUME NEW c \in Clients, Route(c) PROVE TypeOK'
  BY <1>1 DEF Route
<1>2. ASSUME NEW c \in Clients, StartBackend(c) PROVE TypeOK'
  BY <1>2 DEF StartBackend
<1>3. ASSUME NEW c \in Clients, FinishStartup(c) PROVE TypeOK'
  BY <1>3 DEF FinishStartup
<1>4. ASSUME NEW c \in Clients, Commit(c) PROVE TypeOK'
  BY <1>4 DEF Commit
<1>5. ASSUME NEW c \in Clients, PrepareTransaction(c) PROVE TypeOK'
  BY <1>5 DEF PrepareTransaction
<1>6. ASSUME NEW c \in Clients, NEW p \in prepared, CommitPrepared(c, p) PROVE TypeOK'
  BY <1>6 DEF CommitPrepared
<1>7. ASSUME NEW c \in Clients, Leave(c) PROVE TypeOK'
  BY <1>7 DEF Leave
<1>8. CASE BeginFence
  BY <1>8 DEF BeginFence
<1>9. CASE BeginUnfence
  BY <1>9 DEF BeginUnfence
<1>10. CASE BeginFenceSelective
  BY <1>10 DEF BeginFenceSelective
<1>11. CASE CloseAdmission \/ DrainStartups \/ StartupsDrained
  BY <1>11 DEF CloseAdmission, DrainStartups, StartupsDrained
<1>12. CASE AlterAdmission
  BY <1>12 DEF AlterAdmission
<1>13. CASE NoPreparedBeforeDrain \/ SessionsDrained \/ NoPreparedAfterDrain
  BY <1>13 DEF NoPreparedBeforeDrain, SessionsDrained, NoPreparedAfterDrain
<1>14. CASE TerminateSessions
  BY <1>14 DEF TerminateSessions
<1>15. CASE CaptureBarrier \/ Checkpoint \/ PersistReady
  BY <1>15 DEF CaptureBarrier, Checkpoint, PersistReady
<1>16. CASE FenceRefused \/ OperationFails
  BY <1>16 DEF FenceRefused, OperationFails, RecordError
<1>17. CASE Reopen
  BY <1>17 DEF Reopen
<1>18. CASE ClearFence
  BY <1>18 DEF ClearFence
<1>19. CASE Flush \/ ControllerCrash
  BY <1>19 DEF Flush, ControllerCrash
<1>20. CASE PostgresCrash
  BY <1>20 DEF PostgresCrash, RecordError
<1>21. CASE UNCHANGED vars
  BY <1>21 DEF vars
<1> QED
  BY <1>1, <1>2, <1>3, <1>4, <1>5, <1>6, <1>7, <1>8, <1>9, <1>10, <1>11,
     <1>12, <1>13, <1>14, <1>15, <1>16, <1>17, <1>18, <1>19, <1>20, <1>21,
     NextCases

\* Every step keeps the facts the fence has established so far and, when the
\* record is ready, the coverage of its barrier and the closed admission.
LEMMA NextInv == ASSUME FenceInv, [Next]_vars PROVE FenceInv'
<1> SUFFICES (FenceProgress /\ ReadyBarrierCovers /\ ReadyIsClosed)'
  BY NextType DEF FenceInv
<1>a. TypeOK'
  BY NextType DEF FenceInv
<1> DEFINE Goal == (FenceProgress /\ ReadyBarrierCovers /\ ReadyIsClosed)'
<1> USE <1>a
        DEF FenceInv, TypeOK, FenceProgress, ReadyBarrierCovers, ReadyIsClosed,
            Writers, TenantAdmissible, NoFence, Modes, SessionStates, FenceSteps,
            UnfenceSteps, AfterAlter, AfterStartups, AfterSessions,
            AfterPrepared, AfterCapture, record, wal
<1>1. ASSUME NEW c \in Clients, Route(c) PROVE Goal
  BY <1>1 DEF Route
<1>2. ASSUME NEW c \in Clients, StartBackend(c) PROVE Goal
  BY <1>2 DEF StartBackend
<1>3. ASSUME NEW c \in Clients, FinishStartup(c) PROVE Goal
  BY <1>3 DEF FinishStartup
<1>4. ASSUME NEW c \in Clients, Commit(c) PROVE Goal
  BY <1>4 DEF Commit
<1>5. ASSUME NEW c \in Clients, PrepareTransaction(c) PROVE Goal
  BY <1>5 DEF PrepareTransaction
<1>6. ASSUME NEW c \in Clients, NEW p \in prepared, CommitPrepared(c, p) PROVE Goal
  BY <1>6 DEF CommitPrepared
<1>7. ASSUME NEW c \in Clients, Leave(c) PROVE Goal
  BY <1>7 DEF Leave
<1>8. CASE BeginFence
  BY <1>8 DEF BeginFence
<1>9. CASE BeginFenceSelective
  BY <1>9 DEF BeginFenceSelective
<1>10. CASE BeginUnfence
  BY <1>10 DEF BeginUnfence
<1>11. CASE CloseAdmission
  BY <1>11 DEF CloseAdmission
<1>12. CASE AlterAdmission
  <2>1. run # "unfence" /\ fence # "ready"
    BY <1>12 DEF AlterAdmission
  <2>2. ~TenantAdmissible'
    <3>1. CASE run = "hard"
      <4>1. allow' = FALSE
        BY <1>12, <3>1 DEF AlterAdmission
      <4> QED
        BY ONLY <4>1 DEF TenantAdmissible
    <3>2. CASE run = "selective"
      <4>1. login' = FALSE
        BY <1>12, <3>2 DEF AlterAdmission
      <4> QED
        BY ONLY <4>1 DEF TenantAdmissible
    <3> QED
      BY <2>1, <3>1, <3>2
  <2>3. /\ pc' = "altered" /\ fence' = fence /\ run' = run /\ flushed' = insert
        /\ insert' = insert /\ commits' = commits
    BY <1>12 DEF AlterAdmission
  <2> HIDE DEF TenantAdmissible
  <2> QED
    BY <2>1, <2>2, <2>3
<1>13. CASE DrainStartups
  BY <1>13 DEF DrainStartups
<1>14. CASE StartupsDrained
  BY <1>14 DEF StartupsDrained
<1>15. CASE NoPreparedBeforeDrain
  BY <1>15 DEF NoPreparedBeforeDrain
<1>16. CASE TerminateSessions
  BY <1>16 DEF TerminateSessions
<1>17. CASE SessionsDrained
  BY <1>17 DEF SessionsDrained
<1>18. CASE NoPreparedAfterDrain
  BY <1>18 DEF NoPreparedAfterDrain
<1>19. CASE CaptureBarrier
  BY <1>19 DEF CaptureBarrier
<1>20. CASE Checkpoint
  BY <1>20 DEF Checkpoint
<1>21. CASE PersistReady
  BY <1>21 DEF PersistReady
<1>22. CASE FenceRefused
  BY <1>22 DEF FenceRefused, RecordError
<1>23. CASE OperationFails
  BY <1>23 DEF OperationFails, RecordError
<1>24. CASE Reopen
  BY <1>24 DEF Reopen
<1>25. CASE ClearFence
  BY <1>25 DEF ClearFence
<1>26. CASE Flush
  BY <1>26 DEF Flush
<1>27. CASE PostgresCrash
  BY <1>27 DEF PostgresCrash, RecordError
<1>28. CASE ControllerCrash
  BY <1>28 DEF ControllerCrash
<1>29. CASE UNCHANGED vars
  BY <1>29 DEF vars
<1> QED
  BY <1>1, <1>2, <1>3, <1>4, <1>5, <1>6, <1>7, <1>8, <1>9, <1>10, <1>11,
     <1>12, <1>13, <1>14, <1>15, <1>16, <1>17, <1>18, <1>19, <1>20, <1>21,
     <1>22, <1>23, <1>24, <1>25, <1>26, <1>27, <1>28, <1>29, NextCases

-----------------------------------------------------------------------------

\* The type invariant of the fence record, the guest and the operation holds in
\* every state the fence protocol reaches.
THEOREM TypeCorrect == Spec => []TypeOK
<1>1. Init => TypeOK
  BY InitInv DEF FenceInv
<1>2. TypeOK /\ [Next]_vars => TypeOK'
  BY NextType
<1> QED
  BY <1>1, <1>2, PTL DEF Spec

\* fence_locked, fence_selective and unfence keep the inductive invariant,
\* whatever the tenant's backends, crashes and failing statements do between
\* two of their statements.
THEOREM FenceInvariant == Spec => []FenceInv
<1>1. FenceInv /\ [Next]_vars => FenceInv'
  BY NextInv
<1> QED
  BY InitInv, <1>1, PTL DEF Spec

\* The promise a handoff relies on: a ready record's barrier covers every tenant
\* commit, is flushed, and no backend or prepared transaction can add another.
THEOREM BarrierCovers == Spec => []ReadyBarrierCovers
<1>1. FenceInv => ReadyBarrierCovers
  BY DEF FenceInv
<1> QED
  BY FenceInvariant, <1>1, PTL

\* Neither a crash nor a failed clear leaves an open database marked ready.
THEOREM ReadyNeverOpen == Spec => []ReadyIsClosed
<1>1. FenceInv => ReadyIsClosed
  BY DEF FenceInv
<1> QED
  BY FenceInvariant, <1>1, PTL

\* Every stage of fence_postgres leaves behind what the next one relies on: closed
\* admission, no startup, no session, no prepared transaction, a barrier at the end
\* of the WAL (fence_postgres, fence_selective_postgres).
THEOREM StagesEstablish == Spec => []FenceProgress
<1>1. FenceInv => FenceProgress
  BY DEF FenceInv
<1> QED
  BY FenceInvariant, <1>1, PTL

\* A step from a ready state takes the barrier and the commits it covers as they
\* are, or begins an unfence.
LEMMA ReadyStep ==
    ASSUME FenceInv, [Next]_vars, fence = "ready"
    PROVE  KeepsBarrier /\ UNCHANGED commits
<1> USE DEF FenceInv, TypeOK, FenceProgress, ReadyBarrierCovers, Writers,
            KeepsBarrier, FenceSteps, UnfenceSteps, NoFence, record, wal
<1>1. ASSUME NEW c \in Clients, Commit(c) PROVE FALSE
  BY <1>1 DEF Commit
<1>2. ASSUME NEW c \in Clients, NEW p \in prepared, CommitPrepared(c, p) PROVE FALSE
  BY <1>2
<1>3. ASSUME NEW c \in Clients,
             \/ Route(c) \/ StartBackend(c) \/ FinishStartup(c)
             \/ PrepareTransaction(c) \/ Leave(c)
      PROVE  KeepsBarrier /\ UNCHANGED commits
  BY <1>3 DEF Route, StartBackend, FinishStartup, PrepareTransaction, Leave
<1>4. CASE BeginFence \/ BeginUnfence
  BY <1>4 DEF BeginFence, BeginUnfence
<1>5. CASE BeginFenceSelective
  BY <1>5 DEF BeginFenceSelective
<1>6. CASE \/ CloseAdmission \/ AlterAdmission \/ DrainStartups \/ StartupsDrained
           \/ NoPreparedBeforeDrain \/ TerminateSessions \/ SessionsDrained
           \/ NoPreparedAfterDrain \/ CaptureBarrier \/ Checkpoint \/ PersistReady
           \/ FenceRefused \/ Reopen \/ ClearFence \/ OperationFails
           \/ ControllerCrash
  BY <1>6 DEF CloseAdmission, AlterAdmission, DrainStartups, StartupsDrained,
              NoPreparedBeforeDrain, TerminateSessions, SessionsDrained,
              NoPreparedAfterDrain, CaptureBarrier, Checkpoint, PersistReady,
              FenceRefused, Reopen, ClearFence, OperationFails, ControllerCrash
<1>7. CASE Flush
  BY <1>7 DEF Flush
<1>8. CASE PostgresCrash
  <2>1. \A l \in commits : l <= flushed
    OBVIOUS
  <2> QED
    BY <1>8, <2>1 DEF PostgresCrash
<1>9. CASE UNCHANGED vars
  BY <1>9 DEF vars
<1> QED
  BY <1>1, <1>2, <1>3, <1>4, <1>5, <1>6, <1>7, <1>8, <1>9, NextCases

\* Only unfence ends a ready fence; retried fences and PostgreSQL restarts never
\* move its barrier or change the committed history below it.
THEOREM BarrierFixed == Spec => ReadyBarrierFixed
<1>1. FenceInv /\ [Next]_vars
        => [fence = "ready" => KeepsBarrier /\ UNCHANGED commits]_vars
  BY ReadyStep
<1> QED
  BY FenceInvariant, <1>1, PTL DEF Spec, ReadyBarrierFixed

=============================================================================
