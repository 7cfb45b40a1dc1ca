----------------------------- MODULE CiJobsProofs -----------------------------
(***************************************************************************)
(* Machine-checked proofs about CiJobs, for any number of jobs, processes, *)
(* workers, maintenance operations and deliveries, and every set of        *)
(* faults.                                                                 *)
(*                                                                         *)
(* The argument rests on one fact: a job that has left "pending" and       *)
(* "queued" never returns there, whoever writes its row.  So it is claimed *)
(* at most once, the worker that claimed it is the only one that ever acts *)
(* on it, and the obligation the claim wrote stands as long as that worker *)
(* acts or the VM it made is there.                                        *)
(***************************************************************************)
EXTENDS CiJobs, FiniteSetTheorems, TLAPS

Statuses == Terminal \cup {"pending", "queued", "running"}

\* A job nobody has claimed and nobody has settled.
Waiting(j) == job[j].status \in {"pending", "queued"}

JobRow   == [status : Statuses, boot : Boots \cup {None}, attempt : 0 .. MaxDeliveries,
             fails : 0 .. MaxFailures]
Message  == [at : {"none", "ready", "out", "acked"}, delivered : 0 .. MaxDeliveries]
BootRow  == [alive : BOOLEAN, draining : BOOLEAN, retired : BOOLEAN, paused : BOOLEAN]
Delivery == [pc : {"idle", "got", "picked", "prepare", "execute", "acquired", "steps", "ack",
                   "drop", "advance"},
             job : Jobs \cup {None}, attempt : 0 .. MaxDeliveries]
Pass     == [pc : {"idle", "wave", "publish", "unqueue", "advance"}, ready : SUBSET Jobs,
             skip : SUBSET Jobs, changed : BOOLEAN, cur : Jobs \cup {None}]

WkType ==
    /\ wk \in [Workers -> Delivery]
    /\ \A w \in Workers : wk[w].pc # "idle" => wk[w].job \in Jobs

SchedType ==
    /\ sched \in [Boots -> Pass]
    /\ \A b \in Boots : sched[b].pc \in {"publish", "unqueue"} => sched[b].cur \in Jobs

\* The types of all variables, and where an index is not None.
StateType ==
    /\ run \in RunTerminal \cup {"queued", "running"}
    /\ job \in [Jobs -> JobRow]
    /\ work \in [Jobs -> {None, "preparing", "execution", "detached_preparation"}]
    /\ cleanup \subseteq Jobs
    /\ vm \subseteq Jobs
    /\ msg \in [Jobs -> Message]
    /\ boot \in [Boots -> BootRow]
    /\ retiring \in [Boots -> {"no", "draining", "checked", "safe"}]
    /\ cordon \in Cordons \cup {None}
    /\ WkType
    /\ SchedType
    /\ reap \in [Boots -> Jobs \cup {None}]
    /\ execs \in [Jobs -> Nat]

\* A job that may still be claimed has failures left, owes nothing and has not run.
WaitInv ==
    \A j \in Jobs : Waiting(j) => /\ job[j].fails < MaxFailures
                                  /\ work[j] = None /\ j \notin cleanup /\ execs[j] = 0

\* A job in preparation has not run, and no job ran twice.
ExecInv == \A j \in Jobs : execs[j] <= 1 /\ (work[j] = "preparing" => execs[j] = 0)

\* The worker that acts on a job is the only one; the obligation says how far it
\* is, and the job is neither waiting nor handed to the cleanup.  A VM is there
\* only under the obligation of an execution.
ActInv ==
    /\ \A w \in Workers : Acting(w) =>
          /\ work[wk[w].job] = (IF wk[w].pc = "prepare" THEN "preparing" ELSE "execution")
          /\ ~Waiting(wk[w].job)
          /\ wk[w].job \notin cleanup
    /\ \A v, w \in Workers : Acting(v) /\ Acting(w) /\ wk[v].job = wk[w].job => v = w
    /\ \A j \in vm : work[j] = "execution"

\* A boot that is found ready to retire is quiet, and stays quiet.
Quiet(b) ==
    /\ \A w \in Workers : BootOf[w] = b => wk[w].pc = "idle"
    /\ ~has_work(b)

RetireInv ==
    /\ \A b \in Boots : boot[b].retired \/ retiring[b] = "checked" => Quiet(b)
    /\ \A b \in Boots : retiring[b] # "no" => boot[b].draining
    /\ Boots # {} => \E b \in Boots : retiring[b] \in {"no", "draining"}

CiInv == StateType /\ WaitInv /\ ExecInv /\ ActInv /\ RetireInv

-----------------------------------------------------------------------------
(* What the steps do to the job rows *)

\* A step settles a job, not as a success, or leaves it in its place: it takes no job back to those
\* that wait, claims none, and lets none wait that has no failures left.
Settles(j) ==
    /\ job'[j].boot = job[j].boot
    /\ \/ job'[j].status \in Terminal \ {"success"}
       \/ job'[j].status = job[j].status /\ job'[j].fails = job[j].fails
       \/ Waiting(j) /\ job'[j].status \in {"pending", "queued"} /\ job'[j].fails < MaxFailures

\* What was cancelled is not turned into a success.
CancelKept == \A j \in Jobs : job[j].status = "cancelled" => job'[j].status # "success"

\* The starting state satisfies the invariant.
LEMMA InitInv == Init => CiInv
<1> SUFFICES ASSUME Init PROVE CiInv
  OBVIOUS
<1> USE CiAssumption DEF Init
<1>1. IdleWorker \in Delivery /\ IdleSched \in Pass
  BY DEF IdleWorker, IdleSched, Delivery, Pass
<1>2. StateType
  BY <1>1 DEF StateType, WkType, SchedType, JobRow, Message, BootRow, Statuses, IdleWorker, IdleSched, RunTerminal
<1>3. WaitInv /\ ExecInv
  BY DEF WaitInv, ExecInv
<1>4. ActInv /\ RetireInv
  BY DEF ActInv, RetireInv, Acting, IdleWorker
<1> QED
  BY <1>2, <1>3, <1>4 DEF CiInv

\* SetJob writes the status of one row and nothing else.
LEMMA SetJobEffect ==
    ASSUME StateType, NEW j \in Jobs, NEW s \in Statuses, SetJob(j, s)
    PROVE  /\ job' \in [Jobs -> JobRow]
           /\ \A i \in Jobs : /\ job'[i].boot = job[i].boot
                              /\ job'[i].fails = job[i].fails
                              /\ job'[i].status = IF i = j THEN s ELSE job[i].status
<1>1. job' = [job EXCEPT ![j].status = s] /\ job \in [Jobs -> JobRow]
  BY DEF SetJob, StateType
<1> QED
  BY <1>1 DEF JobRow

\* A failed attempt at a job that waits is counted, and the last one fails it.
LEMMA ErrorJob ==
    ASSUME StateType, WaitInv, NEW w \in Workers, NEW j \in Jobs, wk[w].job = j,
           record_unclaimed_job_error(w)
    PROVE  job' \in [Jobs -> JobRow] /\ \A i \in Jobs : Settles(i)
<1> DEFINE fails == job[j].fails + 1
           s == IF fails >= MaxFailures THEN "failure" ELSE job[j].status
<1>0. job \in [Jobs -> JobRow] /\ MaxFailures \in Nat /\ MaxFailures > 0
  BY CiAssumption DEF StateType
<1>1. CASE job' = job
  BY <1>0, <1>1 DEF Settles
<1>2. CASE /\ Waiting(j)
           /\ job' = [job EXCEPT ![j].fails = fails, ![j].status = s]
  <2>1. job[j].fails \in Nat /\ job[j].fails < MaxFailures /\ job[j].status \in Statuses
    BY <1>0, <1>2 DEF WaitInv, JobRow
  <2>2. fails \in 0 .. MaxFailures /\ s \in Statuses
    BY <1>0, <2>1 DEF Statuses, Terminal
  <2> HIDE DEF s, fails
  <2>3. job' \in [Jobs -> JobRow]
    BY <1>0, <1>2, <2>2 DEF JobRow
  <2>4. /\ job'[j].fails = fails /\ job'[j].status = s /\ job'[j].boot = job[j].boot
        /\ \A i \in Jobs : i # j => job'[i] = job[i]
    BY <1>0, <1>2 DEF JobRow
  <2>5. s = "failure" \/ (fails < MaxFailures /\ s = job[j].status)
    BY <1>0, <2>1 DEF s, fails
  <2>6. Settles(j)
    BY <1>2, <2>4, <2>5 DEF Settles, Waiting, Terminal
  <2> QED
    BY <2>3, <2>4, <2>6 DEF Settles
<1> QED
  BY <1>1, <1>2 DEF record_unclaimed_job_error, Waiting

-----------------------------------------------------------------------------
(* What the steps do to the deliveries *)

\* A step lets the workers go on as they are or stop acting; one that is idle takes
\* a delivery only if its boot admits work.
Rests(w) ==
    \/ wk'[w] = wk[w]
    \/ ~Acting(w)' /\ (wk[w].pc = "idle" => Admitted(BootOf[w]))

\* A worker that goes on keeps its delivery, and the other workers theirs.
LEMMA GotoEffect ==
    ASSUME StateType, NEW w \in Workers, wk[w].pc # "idle",
           NEW pc \in {"got", "picked", "prepare", "execute", "acquired", "steps", "ack", "drop", "advance"},
           Goto(w, pc)
    PROVE  /\ WkType'
           /\ wk'[w].pc = pc /\ wk'[w].job = wk[w].job
           /\ \A v \in Workers : v # w => wk'[v] = wk[v]
<1>1. /\ wk' = [wk EXCEPT ![w].pc = pc] /\ wk \in [Workers -> Delivery]
      /\ \A v \in Workers : wk[v].pc # "idle" => wk[v].job \in Jobs
  BY DEF Goto, StateType, WkType
<1>2. wk' \in [Workers -> Delivery]
  BY <1>1 DEF Delivery
<1>3. /\ wk'[w].pc = pc /\ wk'[w].job = wk[w].job
      /\ \A v \in Workers : v # w => wk'[v] = wk[v]
  BY <1>1 DEF Delivery
<1> QED
  BY <1>1, <1>2, <1>3 DEF WkType

\* A worker that gives its delivery back stops acting.
LEMMA NakEffect ==
    ASSUME StateType, NEW w \in Workers, wk[w].pc # "idle", NakDelivery(w)
    PROVE  msg' \in [Jobs -> Message] /\ WkType' /\ \A v \in Workers : Rests(v)
<1>1. PICK j \in Jobs : j = wk[w].job
  BY DEF StateType, WkType
<1>2. msg' = [msg EXCEPT ![j].at = IF msg[j].at = "out" THEN "ready" ELSE msg[j].at]
  BY <1>1 DEF NakDelivery
<1>3. msg' \in [Jobs -> Message]
  BY <1>2 DEF StateType, Message
<1>4. WkType' /\ wk'[w].pc = "advance" /\ \A v \in Workers : v # w => wk'[v] = wk[v]
  BY GotoEffect DEF NakDelivery
<1> QED
  BY <1>3, <1>4 DEF Rests, Acting

\* A worker that runs into an error drops what it does.
LEMMA ErrorEffect ==
    ASSUME StateType, WaitInv, NEW w \in Workers, wk[w].pc # "idle", JobError(w)
    PROVE  /\ job' \in [Jobs -> JobRow] /\ msg' \in [Jobs -> Message] /\ WkType'
           /\ \A j \in Jobs : Settles(j)
           /\ \A v \in Workers : Rests(v)
<1>1. PICK j \in Jobs : j = wk[w].job
  BY DEF StateType, WkType
<1>2. CASE record_unclaimed_job_error(w)
  <2>1. job' \in [Jobs -> JobRow] /\ \A i \in Jobs : Settles(i)
    BY <1>1, <1>2, ErrorJob
  <2>2. CASE NakDelivery(w)
    BY <2>1, <2>2, NakEffect
  <2>3. CASE Goto(w, "drop") /\ UNCHANGED msg
    BY <2>1, <2>3, GotoEffect DEF StateType, Rests, Acting
  <2>4. CASE Goto(w, "ack") /\ UNCHANGED msg
    BY <2>1, <2>4, GotoEffect DEF StateType, Rests, Acting
  <2> QED
    BY <1>2, <2>2, <2>3, <2>4 DEF record_unclaimed_job_error
<1>3. CASE wk' = [wk EXCEPT ![w] = IdleWorker] /\ UNCHANGED <<job, msg>>
  <2>1. IdleWorker \in Delivery /\ IdleWorker.pc = "idle"
    BY CiAssumption DEF IdleWorker, Delivery
  <2> QED
    BY <1>3, <2>1 DEF StateType, WkType, Rests, Acting, Settles
<1> QED
  BY <1>2, <1>3 DEF JobError

-----------------------------------------------------------------------------
(* The steps that claim, begin and hand over nothing *)

\* Whatever such a step does, it keeps the obligations, and it makes a VM only
\* under the obligation of an execution.
Settling ==
    /\ UNCHANGED <<work, cleanup, boot, retiring, execs>>
    /\ \A j \in Jobs : Settles(j)
    /\ \A w \in Workers : Rests(w)
    /\ \A j \in vm' : j \in vm \/ work[j] = "execution"

\* Such a step keeps the invariant: what was claimed stays claimed, who acts acted
\* before, and a quiet boot takes no delivery.
LEMMA SettlingInv ==
    ASSUME CiInv, StateType', Settling
    PROVE  CiInv' /\ CancelKept
<1> USE DEF CiInv
<1>1. \A j \in Jobs : Waiting(j)' => Waiting(j) /\ job'[j].fails < MaxFailures
  BY DEF Settling, Settles, Waiting, Terminal, WaitInv
<1>2. WaitInv' /\ ExecInv'
  BY <1>1 DEF Settling, WaitInv, ExecInv
<1>3. \A w \in Workers : Acting(w)' => wk'[w] = wk[w] /\ Acting(w)
  BY DEF Settling, Rests, Acting
<1>4. \A w \in Workers : Acting(w) => wk[w].job \in Jobs
  BY DEF StateType, WkType, Acting
<1>5. ActInv'
  <2>1. ASSUME NEW w \in Workers, Acting(w)'
        PROVE  /\ work'[wk'[w].job] = (IF wk'[w].pc = "prepare" THEN "preparing" ELSE "execution")
               /\ ~Waiting(wk[w].job)'
               /\ wk'[w].job \notin cleanup'
    <3>1. PICK j \in Jobs : j = wk[w].job /\ j = wk'[w].job
      BY <1>3, <1>4, <2>1
    <3>2. ~Waiting(j)
      BY <1>3, <2>1, <3>1 DEF ActInv
    <3>3. ~Waiting(j)'
      BY <1>1, <3>2
    <3> QED
      BY <1>3, <2>1, <3>1, <3>3 DEF ActInv, Settling, Waiting
  <2>2. \A v, w \in Workers : Acting(v)' /\ Acting(w)' /\ wk'[v].job = wk'[w].job => v = w
    BY <1>3 DEF ActInv
  <2>3. \A j \in vm' : work'[j] = "execution"
    BY DEF ActInv, Settling
  <2> QED
    BY <2>1, <2>2, <2>3 DEF ActInv
<1>6. ASSUME NEW b \in Boots, boot[b].retired \/ retiring[b] = "checked"
      PROVE  Quiet(b)'
  <2>1. Quiet(b)
    BY <1>6 DEF RetireInv
  <2>2. ~Admitted(b)
    BY <1>6 DEF Admitted, Permit
  <2>3. \A w \in Workers : BootOf[w] = b => wk'[w].pc = "idle"
    BY <2>1, <2>2 DEF Quiet, Settling, Rests
  <2>4. \A j \in Jobs : job'[j].status = "running" => job[j].status = "running"
    BY DEF Settling, Settles, Terminal
  <2>5. ~has_work(b)'
    BY <2>1, <2>4 DEF Quiet, has_work, Settling, Settles
  <2> QED
    BY <2>3, <2>5 DEF Quiet
<1>7. RetireInv'
  BY <1>6 DEF RetireInv, Settling
<1>8. CancelKept
  BY DEF CancelKept, Settling, Settles, Waiting
<1> QED
  BY <1>2, <1>5, <1>7, <1>8

\* A pass is left well formed by the updates of the scheduler.
LEMMA PassUpdates ==
    ASSUME SchedType, NEW b \in Boots, NEW R \in SUBSET Jobs, NEW S \in SUBSET Jobs,
           NEW c \in Jobs \cup {None},
           \/ sched' = [sched EXCEPT ![b].ready = R, ![b].skip = S, ![b].changed = TRUE]
           \/ sched' = [sched EXCEPT ![b].ready = R]
           \/ c # None /\ sched' = [sched EXCEPT ![b].ready = R, ![b].cur = c, ![b].pc = "publish"]
           \/ sched' = [sched EXCEPT ![b].pc = "wave", ![b].cur = None]
           \/ sched[b].cur \in Jobs /\ sched' = [sched EXCEPT ![b].pc = "unqueue"]
           \/ sched' = [sched EXCEPT ![b].pc = "advance"]
    PROVE  SchedType'
<1>0. sched \in [Boots -> Pass]
  BY DEF SchedType
<1>1. CASE sched' = [sched EXCEPT ![b].ready = R, ![b].skip = S, ![b].changed = TRUE]
  <2> DEFINE f == [sched EXCEPT ![b].ready = R]
             g == [f EXCEPT ![b].skip = S]
  <2>1. f \in [Boots -> Pass]
    BY <1>0 DEF Pass
  <2> HIDE DEF f
  <2>2. g \in [Boots -> Pass]
    BY <2>1 DEF Pass
  <2> HIDE DEF g
  <2>3. sched' = [g EXCEPT ![b].changed = TRUE]
    BY <1>1 DEF f, g
  <2>4. sched' \in [Boots -> Pass]
    BY <2>2, <2>3 DEF Pass
  <2>5. \A a \in Boots : sched'[a].pc = sched[a].pc /\ sched'[a].cur = sched[a].cur
    BY <1>0, <1>1 DEF Pass
  <2> QED
    BY <2>4, <2>5 DEF SchedType
<1>2. CASE sched' = [sched EXCEPT ![b].ready = R]
  BY <1>0, <1>2 DEF SchedType, Pass
<1>3. CASE c # None /\ sched' = [sched EXCEPT ![b].ready = R, ![b].cur = c, ![b].pc = "publish"]
  <2> DEFINE f == [sched EXCEPT ![b].ready = R]
             g == [f EXCEPT ![b].cur = c]
  <2>1. f \in [Boots -> Pass]
    BY <1>0 DEF Pass
  <2> HIDE DEF f
  <2>2. g \in [Boots -> Pass]
    BY <2>1 DEF Pass
  <2> HIDE DEF g
  <2>3. sched' = [g EXCEPT ![b].pc = "publish"]
    BY <1>3 DEF f, g
  <2>4. sched' \in [Boots -> Pass]
    BY <2>2, <2>3 DEF Pass
  <2>5. /\ sched'[b].cur = c
        /\ \A a \in Boots : a # b => sched'[a] = sched[a]
    BY <1>0, <1>3 DEF Pass
  <2> QED
    BY <1>3, <2>4, <2>5 DEF SchedType
<1>4. CASE sched' = [sched EXCEPT ![b].pc = "wave", ![b].cur = None]
  <2> DEFINE f == [sched EXCEPT ![b].pc = "wave"]
  <2>1. f \in [Boots -> Pass]
    BY <1>0 DEF Pass
  <2> HIDE DEF f
  <2>2. sched' = [f EXCEPT ![b].cur = None]
    BY <1>4 DEF f
  <2>3. sched' \in [Boots -> Pass]
    BY <2>1, <2>2 DEF Pass
  <2>4. /\ sched'[b].pc = "wave"
        /\ \A a \in Boots : a # b => sched'[a] = sched[a]
    BY <1>0, <1>4 DEF Pass
  <2> QED
    BY <2>3, <2>4 DEF SchedType
<1>5. CASE sched[b].cur \in Jobs /\ sched' = [sched EXCEPT ![b].pc = "unqueue"]
  BY <1>0, <1>5 DEF SchedType, Pass
<1>6. CASE sched' = [sched EXCEPT ![b].pc = "advance"]
  BY <1>0, <1>6 DEF SchedType, Pass
<1> QED
  BY <1>1, <1>2, <1>3, <1>4, <1>5, <1>6

\* The wave a scheduler reads is well formed.
LEMMA ReadWaveType == ASSUME SchedType, NEW b \in Boots, ReadWave(b) PROVE SchedType'
<1> DEFINE considered == {j \in Jobs : job[j].status = "pending"
                                        /\ \A n \in Needs[j] : job[n].status \in Terminal}
           runnable   == {j \in considered : \A n \in Needs[j] : job[n].status = "success"}
           r == [pc |-> "wave", ready |-> runnable, skip |-> considered \ runnable,
                 changed |-> FALSE, cur |-> None]
<1>1. sched' = [sched EXCEPT ![b] = r]
  BY DEF ReadWave
<1>2. r \in Pass /\ r.pc = "wave"
  BY DEF Pass
<1> HIDE DEF r
<1> QED
  BY <1>1, <1>2 DEF SchedType

\* The scheduler settles jobs or moves them between the two states of waiting.
LEMMA SchedulerStep ==
    ASSUME CiInv, NEW b \in Boots, Scheduler(b)
    PROVE  StateType' /\ Settling
<1> USE DEF CiInv
<1>t. StateType /\ SchedType /\ job \in [Jobs -> JobRow]
  BY DEF StateType
<1>r. ASSUME UNCHANGED wk PROVE \A w \in Workers : Rests(w)
  BY <1>r DEF Rests
<1>s. ASSUME UNCHANGED job PROVE \A j \in Jobs : Settles(j)
  BY <1>s DEF Settles
<1>1. CASE nudge_stalled_runs(b) \/ NextWave(b)
  <2>1. SchedType'
    BY <1>t, <1>1, ReadWaveType DEF nudge_stalled_runs, NextWave, StartPass
  <2> QED
    BY <1>1, <1>r, <1>s, <2>1
    DEF nudge_stalled_runs, NextWave, StateType, Settling, db, WkType
<1>2. ASSUME NEW j \in Jobs, SettleUnrunnable(b, j) PROVE StateType' /\ Settling
  <2>1. PICK s \in {"skipped", "failure"} : SetJob(j, s)
    BY <1>2 DEF SettleUnrunnable, set_job_status
  <2>2. /\ job' \in [Jobs -> JobRow]
        /\ \A i \in Jobs : /\ job'[i].boot = job[i].boot /\ job'[i].fails = job[i].fails
                           /\ job'[i].status = IF i = j THEN s ELSE job[i].status
    BY <1>t, <2>1, SetJobEffect DEF Statuses, Terminal
  <2>3. \A i \in Jobs : Settles(i)
    BY <2>2 DEF Settles, Terminal
  <2>4. SchedType'
    <3>1. sched[b].ready \ {j} \in SUBSET Jobs /\ sched[b].skip \ {j} \in SUBSET Jobs
      BY <1>t DEF SchedType, Pass
    <3>2. sched' = [sched EXCEPT ![b].ready = sched[b].ready \ {j},
                                 ![b].skip = sched[b].skip \ {j}, ![b].changed = TRUE]
      BY <1>2, <1>t DEF SettleUnrunnable, SchedType, Pass
    <3> QED
      BY <1>t, <3>1, <3>2, PassUpdates
  <2> QED
    BY <1>2, <1>r, <2>2, <2>3, <2>4 DEF SettleUnrunnable, StateType, Settling, WkType
<1>3. ASSUME NEW j \in Jobs, queue_job(b, j) PROVE StateType' /\ Settling
  <2>0. sched[b].ready \ {j} \in SUBSET Jobs
    BY <1>t DEF SchedType, Pass
  <2>1. CASE job[j].status = "pending"
    <3>1. SetJob(j, "queued")
      BY <1>3, <2>1 DEF queue_job
    <3>2. /\ job' \in [Jobs -> JobRow]
          /\ \A i \in Jobs : /\ job'[i].boot = job[i].boot /\ job'[i].fails = job[i].fails
                             /\ job'[i].status = IF i = j THEN "queued" ELSE job[i].status
      BY <1>t, <3>1, SetJobEffect DEF Statuses
    <3>3. \A i \in Jobs : Settles(i)
      BY <2>1, <3>2 DEF Settles, Waiting, WaitInv
    <3>4. sched' = [sched EXCEPT ![b].ready = sched[b].ready \ {j}, ![b].cur = j, ![b].pc = "publish"]
      BY <1>3, <2>1 DEF queue_job
    <3>5. SchedType'
      BY <1>t, <2>0, <3>4, PassUpdates, CiAssumption
    <3> QED
      BY <1>3, <1>r, <3>2, <3>3, <3>5 DEF queue_job, StateType, Settling, WkType
  <2>2. CASE job[j].status # "pending"
    <3>1. sched' = [sched EXCEPT ![b].ready = sched[b].ready \ {j}]
      BY <1>3, <2>2 DEF queue_job
    <3>2. SchedType'
      BY <1>t, <2>0, <3>1, PassUpdates
    <3>3. UNCHANGED job
      BY <1>3, <2>2 DEF queue_job
    <3> QED
      BY <1>3, <1>r, <1>s, <3>2, <3>3 DEF queue_job, StateType, Settling, WkType
  <2> QED
    BY <2>1, <2>2
<1>4. CASE publish_job(b) \/ PublishFails(b)
  <2>0. PICK j \in Jobs : j = sched[b].cur
    BY <1>4 DEF publish_job, PublishFails, StateType, SchedType
  <2>1. Stored(j) \in [Jobs -> Message]
    BY DEF Stored, StateType, Message
  <2>2. msg' \in [Jobs -> Message]
    BY <1>4, <2>0, <2>1 DEF publish_job, PublishFails, StateType
  <2>3. SchedType'
    BY <1>4, <1>t, <2>0, PassUpdates DEF publish_job, PublishFails
  <2> QED
    BY <1>4, <1>r, <1>s, <2>2, <2>3
    DEF publish_job, PublishFails, StateType, Settling, db, WkType
<1>5. CASE unqueue_job(b)
  <2>0. PICK j \in Jobs : j = sched[b].cur
    BY <1>5 DEF unqueue_job, StateType, SchedType
  <2>1. SchedType'
    BY <1>5, <1>t, PassUpdates DEF unqueue_job
  <2>2. CASE job[j].status = "queued"
    <3>1. SetJob(j, "pending")
      BY <1>5, <2>0, <2>2 DEF unqueue_job
    <3>2. /\ job' \in [Jobs -> JobRow]
          /\ \A i \in Jobs : /\ job'[i].boot = job[i].boot /\ job'[i].fails = job[i].fails
                             /\ job'[i].status = IF i = j THEN "pending" ELSE job[i].status
      BY <1>t, <3>1, SetJobEffect DEF Statuses
    <3>3. \A i \in Jobs : Settles(i)
      BY <2>2, <3>2 DEF Settles, Waiting, WaitInv
    <3> QED
      BY <1>5, <1>r, <2>1, <3>2, <3>3 DEF unqueue_job, StateType, Settling, WkType
  <2>3. CASE job[j].status # "queued"
    BY <1>5, <1>r, <1>s, <2>0, <2>1, <2>3 DEF unqueue_job, StateType, Settling, WkType
  <2> QED
    BY <2>2, <2>3
<1>6. CASE roll_up_run(b)
  <2>1. IdleSched \in Pass /\ IdleSched.pc = "idle"
    BY DEF IdleSched, Pass
  <2>2. SchedType'
    BY <1>6, <1>t, <2>1 DEF roll_up_run, SchedType
  <2>3. RollUp \in RunTerminal \cup {"queued", "running"}
    BY DEF RollUp, RunTerminal
  <2> QED
    BY <1>6, <1>r, <1>s, <2>2, <2>3 DEF roll_up_run, StateType, Settling, WkType
<1> QED
  BY <1>1, <1>2, <1>3, <1>4, <1>5, <1>6 DEF Scheduler

\* The reaper settles jobs, whatever became of them since it read their rows.
LEMMA ReaperStep ==
    ASSUME CiInv, NEW b \in Boots, Reaper(b)
    PROVE  StateType' /\ Settling
<1> USE DEF CiInv
<1>t. StateType /\ SchedType /\ reap \in [Boots -> Jobs \cup {None}]
  BY DEF StateType
<1>r. ASSUME UNCHANGED wk PROVE \A w \in Workers : Rests(w)
  BY <1>r DEF Rests
<1>s. ASSUME UNCHANGED job PROVE \A j \in Jobs : Settles(j)
  BY <1>s DEF Settles
<1>1. ASSUME NEW j \in Jobs, ReapRead(b, j) PROVE StateType' /\ Settling
  <2>1. reap' \in [Boots -> Jobs \cup {None}]
    BY <1>1, <1>t DEF ReapRead
  <2> QED
    BY <1>1, <1>r, <1>s, <2>1 DEF ReapRead, StateType, Settling, db, WkType, SchedType
<1>2. CASE ReapWrite(b)
  <2>0. PICK j \in Jobs : j = reap[b]
    BY <1>2, <1>t DEF ReapWrite
  <2>1. SetJob(j, "failure")
    BY <1>2, <2>0 DEF ReapWrite, set_job_status
  <2>2. /\ job' \in [Jobs -> JobRow]
        /\ \A i \in Jobs : /\ job'[i].boot = job[i].boot /\ job'[i].fails = job[i].fails
                           /\ job'[i].status = IF i = j THEN "failure" ELSE job[i].status
    BY <1>t, <2>1, SetJobEffect DEF Statuses, Terminal
  <2>3. \A i \in Jobs : Settles(i)
    BY <2>2 DEF Settles, Terminal
  <2>4. SchedType'
    BY <1>2, <1>t, PassUpdates DEF ReapWrite
  <2>5. reap' \in [Boots -> Jobs \cup {None}]
    BY <1>2, <1>t DEF ReapWrite
  <2> QED
    BY <1>2, <1>r, <2>2, <2>3, <2>4, <2>5 DEF ReapWrite, StateType, Settling, WkType
<1>3. CASE ReapAdvance(b)
  <2>1. SchedType'
    BY <1>3, <1>t, ReadWaveType DEF ReapAdvance
  <2> QED
    BY <1>3, <1>r, <1>s, <2>1 DEF ReapAdvance, StateType, Settling, db, WkType
<1>4. CASE ReapSpares(b)
  <2>1. reap' \in [Boots -> Jobs \cup {None}]
    BY <1>4, <1>t DEF ReapSpares
  <2> QED
    BY <1>4, <1>r, <1>s, <2>1 DEF ReapSpares, StateType, Settling, db, WkType, SchedType
<1> QED
  BY <1>1, <1>2, <1>3, <1>4 DEF Reaper

\* Cancellation, redelivery, the cordon and a cleanup that is interrupted.
LEMMA EnvironmentStep ==
    ASSUME CiInv,
           \/ cancel_run
           \/ \E j \in Jobs : Redeliver(j)
           \/ \E o \in Cordons : runner_drain(o)
           \/ \E b \in Boots, j \in Jobs : CleanupInterrupted(b, j)
    PROVE  StateType' /\ Settling
<1> USE DEF CiInv
<1>r. ASSUME UNCHANGED wk PROVE \A w \in Workers : Rests(w)
  BY <1>r DEF Rests
<1>s. ASSUME UNCHANGED job PROVE \A j \in Jobs : Settles(j)
  BY <1>s DEF Settles
<1>1. CASE cancel_run
  <2>0. job \in [Jobs -> JobRow]
    BY DEF StateType
  <2>1. \A j \in Jobs : [job[j] EXCEPT !.status = "cancelled"] \in JobRow
    BY <2>0 DEF JobRow, Statuses, Terminal
  <2>2. job' \in [Jobs -> JobRow]
    BY <1>1, <2>0, <2>1 DEF cancel_run
  <2>3. \A j \in Jobs : job'[j] = job[j] \/ (job'[j].status = "cancelled" /\ job'[j].boot = job[j].boot)
    BY <1>1, <2>0 DEF cancel_run, JobRow
  <2>4. \A j \in Jobs : Settles(j)
    BY <2>3 DEF Settles, Terminal
  <2> QED
    BY <1>1, <1>r, <2>2, <2>4
    DEF cancel_run, StateType, Settling, procs, WkType, SchedType, RunTerminal
<1>2. ASSUME NEW j \in Jobs, Redeliver(j) PROVE StateType' /\ Settling
  <2>1. msg' \in [Jobs -> Message]
    BY <1>2 DEF Redeliver, StateType, Message
  <2> QED
    BY <1>2, <1>r, <1>s, <2>1 DEF Redeliver, StateType, Settling, db, procs, WkType, SchedType
<1>3. ASSUME NEW o \in Cordons, runner_drain(o) PROVE StateType' /\ Settling
  BY <1>3, <1>r, <1>s DEF runner_drain, StateType, Settling, db, procs, WkType, SchedType
<1>4. ASSUME NEW b \in Boots, NEW j \in Jobs, CleanupInterrupted(b, j) PROVE StateType' /\ Settling
  BY <1>4, <1>r, <1>s DEF CleanupInterrupted, StateType, Settling, db, procs, WkType, SchedType
<1> QED
  BY <1>1, <1>2, <1>3, <1>4

\* The steps of a delivery before the claim, after the handoff and in between when
\* something fails.
LEMMA DeliveryStep ==
    ASSUME CiInv, NEW w \in Workers,
           \/ \E j \in Jobs : Deliver(w, j)
           \/ run_job(w) \/ JobTimeout(w) \/ Ack(w) \/ Advance(w)
    PROVE  StateType' /\ Settling
<1> USE DEF CiInv
<1>t. StateType /\ WkType /\ SchedType /\ BootOf[w] \in Boots
  BY CiAssumption DEF StateType
<1>s. ASSUME UNCHANGED job PROVE \A j \in Jobs : Settles(j)
  BY <1>s DEF Settles
<1>1. ASSUME NEW j \in Jobs, Deliver(w, j) PROVE StateType' /\ Settling
  <2> DEFINE d == [pc |-> "got", job |-> j, attempt |-> msg[j].delivered + 1]
             m == [at |-> "out", delivered |-> msg[j].delivered + 1]
  <2>1. msg[j].delivered \in Nat /\ msg[j].delivered < MaxDeliveries /\ MaxDeliveries \in Nat
    BY <1>1, CiAssumption DEF Deliver, StateType, Message
  <2>2. d \in Delivery /\ m \in Message /\ d.pc = "got" /\ d.job = j
    BY <2>1 DEF Delivery, Message
  <2>3. wk' = [wk EXCEPT ![w] = d] /\ msg' = [msg EXCEPT ![j] = m]
    BY <1>1 DEF Deliver
  <2> HIDE DEF d, m
  <2>4. msg' \in [Jobs -> Message]
    BY <2>2, <2>3 DEF StateType
  <2>5. WkType' /\ \A v \in Workers : Rests(v)
    BY <1>1, <1>t, <2>2, <2>3 DEF WkType, Rests, Acting, Deliver
  <2> QED
    BY <1>1, <1>s, <2>4, <2>5 DEF Deliver, StateType, Settling, db, SchedType
<1>2. CASE run_job(w)
  <2>0. wk[w].pc # "idle"
    BY <1>2 DEF run_job
  <2>1. CASE NakDelivery(w) /\ UNCHANGED job
    BY <1>2, <1>s, <1>t, <2>0, <2>1, NakEffect DEF run_job, StateType, Settling, SchedType
  <2>2. CASE Goto(w, "ack") /\ UNCHANGED <<job, msg>>
    <3>1. WkType' /\ \A v \in Workers : Rests(v)
      BY <1>t, <2>0, <2>2, GotoEffect DEF Rests, Acting
    <3> QED
      BY <1>2, <1>s, <2>2, <3>1 DEF run_job, StateType, Settling, SchedType
  <2>3. CASE Goto(w, "picked") /\ UNCHANGED <<job, msg>>
    <3>1. WkType' /\ \A v \in Workers : Rests(v)
      BY <1>t, <2>0, <2>3, GotoEffect DEF Rests, Acting
    <3> QED
      BY <1>2, <1>s, <2>3, <3>1 DEF run_job, StateType, Settling, SchedType
  <2>4. CASE JobError(w)
    BY <1>2, <2>0, <2>4, ErrorEffect DEF run_job, StateType, Settling, SchedType
  <2> QED
    BY <1>2, <2>1, <2>2, <2>3, <2>4 DEF run_job
<1>3. CASE JobTimeout(w)
  <2>0. wk[w].pc # "idle"
    BY <1>3 DEF JobTimeout
  <2> QED
    BY <1>3, <2>0, ErrorEffect DEF JobTimeout, StateType, Settling, SchedType
<1>i. IdleWorker \in Delivery /\ IdleWorker.pc = "idle"
  BY CiAssumption DEF IdleWorker, Delivery
<1>4. CASE Ack(w)
  <2>0. PICK j \in Jobs : j = wk[w].job
    BY <1>4, <1>t DEF Ack, WkType
  <2>1. msg' = [msg EXCEPT ![j].at = "acked"]
    BY <1>4, <2>0 DEF Ack
  <2>2. msg' \in [Jobs -> Message]
    BY <2>1 DEF StateType, Message
  <2> DEFINE d == [wk[w] EXCEPT !.pc = "advance"]
  <2>3. d \in Delivery /\ d.pc = "advance" /\ d.job = j
    BY <1>t, <2>0 DEF WkType, Delivery
  <2>4. wk' = [wk EXCEPT ![w] = IdleWorker] \/ wk' = [wk EXCEPT ![w] = d]
    BY <1>4 DEF Ack
  <2> HIDE DEF d
  <2>5. WkType' /\ \A v \in Workers : Rests(v)
    BY <1>4, <1>i, <1>t, <2>3, <2>4 DEF WkType, Rests, Acting, Ack
  <2> QED
    BY <1>4, <1>s, <2>2, <2>5 DEF Ack, StateType, Settling, db, SchedType
<1>5. CASE Advance(w)
  <2>1. SchedType'
    BY <1>5, <1>t, ReadWaveType DEF Advance, StartPass
  <2>2. WkType' /\ \A v \in Workers : Rests(v)
    BY <1>5, <1>i, <1>t DEF WkType, Rests, Acting, Advance
  <2> QED
    BY <1>5, <1>s, <2>1, <2>2 DEF Advance, StateType, Settling, db
<1> QED
  BY <1>1, <1>2, <1>3, <1>4, <1>5

-----------------------------------------------------------------------------
(* The steps of the worker that owns a job *)

\* A step of one worker on its own job keeps the invariant if nobody else acts on
\* the job, the job does not wait afterwards, and the obligations say what the
\* worker goes on to do.
LEMMA OwnerInv ==
    ASSUME CiInv, StateType', NEW w \in Workers, NEW j \in Jobs,
           wk[w].pc # "idle", wk'[w].job = j,
           \A v \in Workers : v # w => wk'[v] = wk[v] /\ ~(Acting(v) /\ wk[v].job = j),
           UNCHANGED <<boot, retiring>>,
           \A i \in Jobs : i # j => /\ job'[i] = job[i] /\ work'[i] = work[i] /\ execs'[i] = execs[i]
                                   /\ (i \in cleanup' <=> i \in cleanup)
                                   /\ (i \in vm' => i \in vm),
           ~Waiting(j)',
           execs'[j] <= 1 /\ (work'[j] = "preparing" => execs'[j] = 0),
           j \in vm' => work'[j] = "execution",
           Acting(w)' => /\ work'[j] = (IF wk'[w].pc = "prepare" THEN "preparing" ELSE "execution")
                         /\ j \notin cleanup',
           \/ job'[j].boot \in {BootOf[w], None}
           \/ UNCHANGED <<job, work, cleanup>>
    PROVE  CiInv'
<1> USE DEF CiInv
<1>1. WaitInv' /\ ExecInv'
  BY DEF WaitInv, ExecInv, Waiting
<1>2. \A v \in Workers : v # w => (Acting(v)' <=> Acting(v))
  BY DEF Acting
<1>3. \A v \in Workers : Acting(v) => wk[v].job \in Jobs
  BY DEF StateType, WkType, Acting
<1>4. ActInv'
  <2>1. ASSUME NEW v \in Workers, Acting(v)'
        PROVE  /\ work'[wk'[v].job] = (IF wk'[v].pc = "prepare" THEN "preparing" ELSE "execution")
               /\ ~Waiting(wk[v].job)'
               /\ wk'[v].job \notin cleanup'
    <3>1. CASE v = w
      BY <2>1, <3>1 DEF Waiting
    <3>2. CASE v # w
      <4>1. PICK i \in Jobs : i = wk[v].job /\ i = wk'[v].job /\ i # j
        BY <1>2, <1>3, <2>1, <3>2
      <4>2. work[i] = (IF wk[v].pc = "prepare" THEN "preparing" ELSE "execution")
            /\ ~Waiting(i) /\ i \notin cleanup
        BY <1>2, <2>1, <3>2, <4>1 DEF ActInv
      <4> QED
        BY <3>2, <4>1, <4>2 DEF Waiting
    <3> QED
      BY <3>1, <3>2
  <2>2. \A u, v \in Workers : Acting(u)' /\ Acting(v)' /\ wk'[u].job = wk'[v].job => u = v
    BY <1>2 DEF ActInv
  <2>3. \A i \in vm' : work'[i] = "execution"
    <3>1. ASSUME NEW i \in vm' PROVE work'[i] = "execution"
      <4>1. i \in Jobs
        BY <3>1 DEF StateType
      <4>2. CASE i = j
        BY <3>1, <4>2
      <4>3. CASE i # j
        BY <3>1, <4>1, <4>3 DEF ActInv
      <4> QED
        BY <4>2, <4>3
    <3> QED
      BY <3>1
  <2> QED
    BY <2>1, <2>2, <2>3 DEF ActInv
<1>5. ASSUME NEW b \in Boots, boot[b].retired \/ retiring[b] = "checked"
      PROVE  Quiet(b)'
  <2>1. Quiet(b)
    BY <1>5 DEF RetireInv
  <2>2. BootOf[w] # b
    BY <2>1 DEF Quiet
  <2>3. \A v \in Workers : BootOf[v] = b => wk'[v].pc = "idle"
    BY <2>1, <2>2 DEF Quiet
  <2>4. CASE UNCHANGED <<job, work, cleanup>>
    BY <2>1, <2>3, <2>4 DEF Quiet, has_work
  <2>5. CASE job'[j].boot \in {BootOf[w], None}
    <3>1. job'[j].boot # b
      BY <2>2, <2>5, CiAssumption
    <3>2. ~has_work(b)'
      BY <2>1, <3>1 DEF Quiet, has_work
    <3> QED
      BY <2>3, <3>2 DEF Quiet
  <2> QED
    BY <2>4, <2>5
<1>6. RetireInv'
  BY <1>5 DEF RetireInv
<1> QED
  BY <1>1, <1>4, <1>6

\* The claim: a job that waits is nobody's, so that the worker that takes it is the
\* only one that acts on it.
LEMMA ClaimStep ==
    ASSUME CiInv, NEW w \in Workers, claim_job_for_boot(w)
    PROVE  CiInv' /\ CancelKept
<1> USE DEF CiInv
<1>0. /\ StateType /\ wk[w].pc # "idle" /\ ~Acting(w) /\ BootOf[w] \in Boots
      /\ wk[w].attempt \in 0 .. MaxDeliveries
      /\ UNCHANGED <<run, cleanup, vm, boot, retiring, cordon, sched, reap, execs>>
  BY CiAssumption DEF claim_job_for_boot, Acting, StateType, WkType, Delivery
<1>j. PICK j \in Jobs : j = wk[w].job
  BY <1>0 DEF StateType, WkType
<1>1. CASE /\ Waiting(j)
           /\ job' = [job EXCEPT ![j].status = "running", ![j].boot = BootOf[w],
                                 ![j].attempt = wk[w].attempt]
           /\ work' = [work EXCEPT ![j] = "preparing"]
           /\ Goto(w, "prepare") /\ UNCHANGED msg
  <2> DEFINE f == [job EXCEPT ![j].status = "running"]
             g == [f EXCEPT ![j].boot = BootOf[w]]
  <2>1. job \in [Jobs -> JobRow] /\ work \in [Jobs -> {None, "preparing", "execution", "detached_preparation"}]
    BY DEF StateType
  <2>2. f \in [Jobs -> JobRow]
    BY <2>1 DEF JobRow, Statuses
  <2> HIDE DEF f
  <2>3. g \in [Jobs -> JobRow]
    BY <1>0, <2>2 DEF JobRow
  <2> HIDE DEF g
  <2>4. job' = [g EXCEPT ![j].attempt = wk[w].attempt]
    BY <1>1 DEF f, g
  <2>5. job' \in [Jobs -> JobRow]
    BY <1>0, <2>3, <2>4 DEF JobRow
  <2>6. /\ job'[j].status = "running" /\ job'[j].boot = BootOf[w]
        /\ \A i \in Jobs : i # j => job'[i] = job[i]
    BY <1>1, <2>1 DEF JobRow
  <2>7. /\ work' \in [Jobs -> {None, "preparing", "execution", "detached_preparation"}]
        /\ work'[j] = "preparing" /\ \A i \in Jobs : i # j => work'[i] = work[i]
    BY <1>1, <2>1
  <2>8. WkType' /\ wk'[w].pc = "prepare" /\ wk'[w].job = j /\ \A v \in Workers : v # w => wk'[v] = wk[v]
    BY <1>0, <1>1, <1>j, GotoEffect
  <2>9. StateType'
    BY <1>0, <1>1, <2>5, <2>7, <2>8 DEF StateType, SchedType
  <2>10. \A v \in Workers : ~(Acting(v) /\ wk[v].job = j)
    BY <1>1 DEF ActInv
  <2>11. execs[j] = 0 /\ j \notin cleanup /\ j \notin vm
    BY <1>1, <2>1, CiAssumption DEF WaitInv, ActInv
  <2>12. ~Waiting(j)'
    BY <2>6 DEF Waiting
  <2>13. CancelKept
    BY <2>6 DEF CancelKept
  <2> QED
    BY <1>0, <2>6, <2>7, <2>8, <2>9, <2>10, <2>11, <2>12, <2>13, OwnerInv
<1>2. CASE /\ UNCHANGED <<job, work>>
           /\ \/ NakDelivery(w)
              \/ UNCHANGED msg /\ (Goto(w, "got") \/ Goto(w, "ack"))
  <2>1. WkType' /\ \A v \in Workers : Rests(v)
    BY <1>0, <1>2, NakEffect, GotoEffect DEF Rests, Acting
  <2>2. msg' \in [Jobs -> Message]
    BY <1>0, <1>2, NakEffect DEF StateType
  <2>3. StateType' /\ Settling
    BY <1>0, <1>2, <2>1, <2>2 DEF StateType, Settling, Settles, SchedType
  <2> QED
    BY <2>3, SettlingInv
<1> QED
  BY <1>1, <1>2, <1>j DEF claim_job_for_boot, Waiting

\* The preparation ends, and with it what the worker does about the job.
LEMMA PreparationStep ==
    ASSUME CiInv, NEW w \in Workers, finish_job_preparation(w)
    PROVE  CiInv' /\ CancelKept
<1> USE DEF CiInv
<1>0. /\ StateType /\ wk[w].pc = "prepare" /\ Acting(w)
      /\ UNCHANGED <<run, cleanup, vm, boot, retiring, cordon, sched, reap, execs>>
  BY DEF finish_job_preparation, Acting
<1>j. PICK j \in Jobs : j = wk[w].job
  BY <1>0 DEF StateType, WkType
<1>1. CASE Mine(w) /\ work[j] = "preparing"
  <2> DEFINE s == IF job[j].status \in Terminal THEN job[j].status ELSE "failure"
             f == [job EXCEPT ![j].boot = None]
  <2>1. job \in [Jobs -> JobRow] /\ work \in [Jobs -> {None, "preparing", "execution", "detached_preparation"}]
    BY DEF StateType
  <2>2. s \in Terminal /\ s \in Statuses
    BY DEF Terminal, Statuses
  <2>3. f \in [Jobs -> JobRow]
    BY <2>1 DEF JobRow
  <2>4. PICK o \in {None, "detached_preparation"} : work' = [work EXCEPT ![j] = o]
    BY <1>1, <1>j DEF finish_job_preparation
  <2>5. job' = [job EXCEPT ![j].boot = None, ![j].status = s]
    BY <1>1, <1>j, <2>1 DEF finish_job_preparation, JobRow
  <2>6. Goto(w, "ack") /\ UNCHANGED msg
    BY <1>1, <1>j DEF finish_job_preparation
  <2> HIDE DEF s, f
  <2>7. job' = [f EXCEPT ![j].status = s]
    BY <2>5 DEF f
  <2>8. job' \in [Jobs -> JobRow]
    BY <2>2, <2>3, <2>7 DEF JobRow
  <2>9. /\ job'[j].status = s /\ job'[j].boot = None
        /\ \A i \in Jobs : i # j => job'[i] = job[i]
    BY <2>1, <2>5 DEF JobRow
  <2>10. /\ work' \in [Jobs -> {None, "preparing", "execution", "detached_preparation"}]
         /\ work'[j] = o /\ \A i \in Jobs : i # j => work'[i] = work[i]
    BY <2>1, <2>4
  <2>11. WkType' /\ wk'[w].pc = "ack" /\ wk'[w].job = j /\ \A v \in Workers : v # w => wk'[v] = wk[v]
    BY <1>0, <1>j, <2>6, GotoEffect
  <2>12. StateType'
    BY <1>0, <2>6, <2>8, <2>10, <2>11 DEF StateType, SchedType
  <2>13. \A v \in Workers : v # w => ~(Acting(v) /\ wk[v].job = j)
    BY <1>0, <1>j DEF ActInv
  <2>14. execs[j] = 0 /\ j \notin vm
    BY <1>1 DEF ExecInv, ActInv
  <2>15. ~Waiting(j)' /\ ~Acting(w)'
    BY <2>2, <2>9, <2>11 DEF Waiting, Terminal, Acting
  <2>16. CancelKept
    BY <2>9 DEF CancelKept, s, Terminal
  <2> QED
    BY <1>0, <2>9, <2>10, <2>11, <2>12, <2>13, <2>14, <2>15, <2>16, OwnerInv
<1>2. CASE JobError(w) /\ UNCHANGED work
  <2>1. StateType' /\ Settling
    BY <1>0, <1>2, ErrorEffect DEF StateType, Settling, SchedType
  <2> QED
    BY <2>1, SettlingInv
<1> QED
  BY <1>1, <1>2, <1>j DEF finish_job_preparation

\* The execution begins: only once, since the obligation still said "preparing".
LEMMA BeginStep ==
    ASSUME CiInv, NEW w \in Workers, begin_job_execution(w)
    PROVE  CiInv' /\ CancelKept
<1> USE DEF CiInv
<1>0. /\ StateType /\ wk[w].pc = "prepare" /\ Acting(w)
      /\ Goto(w, "execute")
      /\ UNCHANGED <<run, job, cleanup, vm, msg, boot, retiring, cordon, sched, reap>>
  BY DEF begin_job_execution, Acting
<1>j. PICK j \in Jobs : j = wk[w].job
  BY <1>0 DEF StateType, WkType
<1>1. /\ job[j].boot = BootOf[w] /\ job[j].status = "running" /\ work[j] = "preparing"
      /\ work' = [work EXCEPT ![j] = "execution"]
      /\ execs' = [execs EXCEPT ![j] = execs[j] + 1]
  BY <1>j DEF begin_job_execution, Mine
<1>2. execs[j] = 0 /\ j \notin vm /\ j \notin cleanup
  BY <1>0, <1>1, <1>j DEF ExecInv, ActInv
<1>3. /\ work' \in [Jobs -> {None, "preparing", "execution", "detached_preparation"}]
      /\ work'[j] = "execution" /\ \A i \in Jobs : i # j => work'[i] = work[i]
  BY <1>1 DEF StateType
<1>4. execs' \in [Jobs -> Nat] /\ execs'[j] = 1 /\ \A i \in Jobs : i # j => execs'[i] = execs[i]
  BY <1>1, <1>2 DEF StateType
<1>5. WkType' /\ wk'[w].pc = "execute" /\ wk'[w].job = j /\ \A v \in Workers : v # w => wk'[v] = wk[v]
  BY <1>0, <1>j, GotoEffect
<1>6. StateType'
  BY <1>0, <1>3, <1>4, <1>5 DEF StateType, SchedType
<1>7. \A v \in Workers : v # w => ~(Acting(v) /\ wk[v].job = j)
  BY <1>0, <1>j DEF ActInv
<1>8. ~Waiting(j)'
  BY <1>0, <1>1 DEF Waiting
<1>9. CancelKept
  BY <1>0 DEF CancelKept
<1> QED
  BY <1>0, <1>1, <1>2, <1>3, <1>4, <1>5, <1>6, <1>7, <1>8, <1>9, OwnerInv

\* The VM is made under the obligation of the execution, answered or not.
LEMMA AcquireStep ==
    ASSUME CiInv, NEW w \in Workers, acquire_vm(w)
    PROVE  CiInv' /\ CancelKept
<1> USE DEF CiInv
<1>0. /\ StateType /\ wk[w].pc = "execute" /\ Acting(w)
      /\ UNCHANGED <<run, work, cleanup, boot, retiring, cordon, sched, reap, execs>>
  BY DEF acquire_vm, Acting
<1>j. PICK j \in Jobs : j = wk[w].job
  BY <1>0 DEF StateType, WkType
<1>1. work[j] = "execution" /\ ~Waiting(j) /\ j \notin cleanup
  BY <1>0, <1>j DEF ActInv
<1>2. CASE vm' = vm \cup {j} /\ Goto(w, "acquired") /\ UNCHANGED <<job, msg>>
  <2>1. WkType' /\ wk'[w].pc = "acquired" /\ wk'[w].job = j /\ \A v \in Workers : v # w => wk'[v] = wk[v]
    BY <1>0, <1>2, <1>j, GotoEffect
  <2>2. StateType'
    BY <1>0, <1>2, <2>1 DEF StateType, SchedType
  <2>3. \A v \in Workers : v # w => ~(Acting(v) /\ wk[v].job = j)
    BY <1>0, <1>j DEF ActInv
  <2>4. ~Waiting(j)' /\ execs'[j] <= 1 /\ work'[j] = "execution"
    BY <1>0, <1>1, <1>2 DEF Waiting, ExecInv
  <2>5. CancelKept
    BY <1>2 DEF CancelKept
  <2> QED
    BY <1>0, <1>1, <1>2, <2>1, <2>2, <2>3, <2>4, <2>5, OwnerInv
<1>3. CASE vm' \in {vm, vm \cup {j}} /\ JobError(w)
  <2>1. \A i \in vm' : i \in vm \/ work[i] = "execution"
    BY <1>1, <1>3
  <2>2. vm' \subseteq Jobs
    BY <1>0, <1>3 DEF StateType
  <2>3. StateType' /\ Settling
    BY <1>0, <1>3, <2>1, <2>2, ErrorEffect DEF StateType, Settling, SchedType
  <2> QED
    BY <2>3, SettlingInv
<1> QED
  BY <1>2, <1>3, <1>j DEF acquire_vm

\* The handoff: the job has an outcome from now on, and the worker is done with it.
LEMMA HandoffStep ==
    ASSUME CiInv, NEW w \in Workers, NEW s \in Terminal,
           wk[w].pc \in {"acquired", "steps"}, Handoff(w, s),
           UNCHANGED <<run, work, vm, msg, boot, retiring, cordon, sched, reap, execs>>
    PROVE  CiInv' /\ CancelKept
<1> USE DEF CiInv
<1>0. StateType /\ Acting(w)
  BY DEF Acting
<1>j. PICK j \in Jobs : j = wk[w].job
  BY <1>0 DEF StateType, WkType
<1> DEFINE t == IF job[j].status \in Terminal THEN job[j].status ELSE s
<1>1. t \in Terminal /\ t \in Statuses
  BY DEF Statuses
<1>2. /\ job' = [job EXCEPT ![j].status = t] /\ job \in [Jobs -> JobRow]
      /\ job[j].boot = BootOf[w] /\ cleanup' = cleanup \cup {j} /\ Goto(w, "ack")
  BY <1>0, <1>j DEF Handoff, Mine, StateType, JobRow
<1> HIDE DEF t
<1>3. /\ job' \in [Jobs -> JobRow] /\ job'[j].status = t /\ job'[j].boot = BootOf[w]
      /\ \A i \in Jobs : i # j => job'[i] = job[i]
  BY <1>1, <1>2 DEF JobRow
<1>4. WkType' /\ wk'[w].pc = "ack" /\ wk'[w].job = j /\ \A v \in Workers : v # w => wk'[v] = wk[v]
  BY <1>0, <1>2, <1>j, GotoEffect
<1>5. StateType'
  BY <1>0, <1>2, <1>3, <1>4 DEF StateType, SchedType
<1>6. \A v \in Workers : v # w => ~(Acting(v) /\ wk[v].job = j)
  BY <1>0, <1>j DEF ActInv
<1>7. ~Waiting(j)' /\ ~Acting(w)'
  BY <1>1, <1>3, <1>4 DEF Waiting, Terminal, Acting
<1>8. execs[j] <= 1 /\ work[j] = "execution"
  BY <1>0, <1>j DEF ExecInv, ActInv
<1>9. CancelKept
  BY <1>3 DEF CancelKept, t, Terminal
<1> QED
  BY <1>0, <1>2, <1>3, <1>4, <1>5, <1>6, <1>7, <1>8, <1>9, OwnerInv

\* From the VM to the handoff.
LEMMA StepsStep ==
    ASSUME CiInv, NEW w \in Workers, start_job_for_boot(w) \/ run_steps(w)
    PROVE  CiInv' /\ CancelKept
<1> USE DEF CiInv
<1>0. /\ StateType /\ wk[w].pc \in {"acquired", "steps"} /\ Acting(w)
      /\ UNCHANGED <<run, work, vm, msg, boot, retiring, cordon, sched, reap, execs>>
  BY DEF start_job_for_boot, run_steps, Acting
<1>j. PICK j \in Jobs : j = wk[w].job
  BY <1>0 DEF StateType, WkType
<1>1. CASE Goto(w, "steps") /\ UNCHANGED <<job, cleanup>>
  <2>1. WkType' /\ wk'[w].pc = "steps" /\ wk'[w].job = j /\ \A v \in Workers : v # w => wk'[v] = wk[v]
    BY <1>0, <1>1, <1>j, GotoEffect
  <2>2. StateType'
    BY <1>0, <1>1, <2>1 DEF StateType, SchedType
  <2>3. \A v \in Workers : v # w => ~(Acting(v) /\ wk[v].job = j)
    BY <1>0, <1>j DEF ActInv
  <2>4. work[j] = "execution" /\ ~Waiting(j) /\ j \notin cleanup
    BY <1>0, <1>j DEF ActInv
  <2>5. ~Waiting(j)' /\ execs[j] <= 1
    BY <1>1, <2>4 DEF Waiting, ExecInv
  <2>6. CancelKept
    BY <1>1 DEF CancelKept
  <2> QED
    BY <1>0, <1>1, <2>1, <2>2, <2>3, <2>4, <2>5, <2>6, OwnerInv
<1>2. CASE \E s \in Terminal : Handoff(w, s)
  BY <1>0, <1>2, HandoffStep
<1> QED
  BY <1>1, <1>2 DEF start_job_for_boot, run_steps, Terminal

-----------------------------------------------------------------------------
(* Cleanup, drain, retirement and death *)

\* The obligation goes with the VM, and nobody acts on a job in the cleanup.
LEMMA CleanupStep ==
    ASSUME CiInv, NEW b \in Boots, NEW j \in Jobs, CleanupFinish(b, j)
    PROVE  CiInv' /\ CancelKept
<1> USE DEF CiInv
<1>0. /\ StateType /\ j \in cleanup /\ vm' = vm \ {j}
      /\ work' = [work EXCEPT ![j] = None] /\ cleanup' = cleanup \ {j}
      /\ UNCHANGED <<run, job, msg, boot, retiring, cordon, wk, sched, reap, execs>>
  BY DEF CleanupFinish, procs
<1>1. /\ work' \in [Jobs -> {None, "preparing", "execution", "detached_preparation"}]
      /\ work'[j] = None /\ \A i \in Jobs : i # j => work'[i] = work[i]
  BY <1>0 DEF StateType
<1>2. StateType'
  BY <1>0, <1>1 DEF StateType, WkType, SchedType
<1>3. WaitInv' /\ ExecInv'
  BY <1>0, <1>1, CiAssumption DEF WaitInv, ExecInv, Waiting
<1>4. ActInv'
  <2>1. \A w \in Workers : Acting(w)' => Acting(w) /\ wk[w].job \in Jobs /\ wk[w].job # j
    BY <1>0 DEF Acting, ActInv, StateType, WkType
  <2>2. \A i \in Jobs : Waiting(i)' <=> Waiting(i)
    BY <1>0 DEF Waiting
  <2>3. \A w \in Workers : Acting(w)' =>
          /\ work'[wk'[w].job] = (IF wk'[w].pc = "prepare" THEN "preparing" ELSE "execution")
          /\ wk'[w].job \notin cleanup'
    BY <1>0, <1>1, <2>1 DEF ActInv
  <2>4. \A w \in Workers : Acting(w)' => ~Waiting(wk[w].job)'
    BY <1>0, <2>1 DEF ActInv, Waiting
  <2>5. \A v, w \in Workers : Acting(v)' /\ Acting(w)' /\ wk'[v].job = wk'[w].job => v = w
    BY <1>0, <2>1 DEF ActInv
  <2>6. \A i \in vm' : work'[i] = "execution"
    BY <1>0, <1>1 DEF ActInv, StateType
  <2> QED
    BY <2>3, <2>4, <2>5, <2>6 DEF ActInv
<1>5. \A c \in Boots : Quiet(c) => Quiet(c)'
  BY <1>0, <1>1 DEF Quiet, has_work
<1>6. RetireInv'
  BY <1>0, <1>5 DEF RetireInv
<1> QED
  BY <1>0, <1>2, <1>3, <1>4, <1>6 DEF CancelKept

\* Only a boot that is quiet is retired or found ready to be; the boot it relies on
\* is not draining, so that a retirement of that one has not begun.
LEMMA DrainStep ==
    ASSUME CiInv, NEW b \in Boots, Drain(b)
    PROVE  CiInv' /\ CancelKept
<1> USE DEF CiInv
<1>0. /\ StateType /\ boot \in [Boots -> BootRow]
      /\ retiring \in [Boots -> {"no", "draining", "checked", "safe"}]
      /\ UNCHANGED <<run, job, work, cleanup, vm, msg, cordon, wk, sched, reap, execs>>
  BY DEF Drain, pause, resume, retire_for_replacement, BeginRetirement, CheckSurvivor,
         CommitRetirement, db, procs, StateType
<1>1. ASSUME boot' \in [Boots -> BootRow], retiring' \in [Boots -> {"no", "draining", "checked", "safe"}],
             RetireInv'
      PROVE  CiInv' /\ CancelKept
  BY <1>0, <1>1 DEF StateType, WkType, SchedType, WaitInv, ExecInv, ActInv, Acting, Waiting, CancelKept
<1>2. \A c \in Boots : Quiet(c)' <=> Quiet(c)
  BY <1>0 DEF Quiet, has_work
<1>3. LocalIdle(b) /\ ~has_work(b) => Quiet(b)
  BY DEF LocalIdle, Quiet
<1>4. CASE pause(b) \/ resume(b)
  <2>1. PICK v \in BOOLEAN : boot' = [boot EXCEPT ![b].draining = v, ![b].paused = v]
    BY <1>4 DEF pause, resume
  <2> DEFINE f == [boot EXCEPT ![b].draining = v]
  <2>2. f \in [Boots -> BootRow]
    BY <1>0 DEF BootRow
  <2> HIDE DEF f
  <2>3. boot' = [f EXCEPT ![b].paused = v]
    BY <2>1 DEF f
  <2>4. boot' \in [Boots -> BootRow]
    BY <2>2, <2>3 DEF BootRow
  <2>5. \A c \in Boots : /\ boot'[c].retired = boot[c].retired
                         /\ boot'[c].draining = IF c = b THEN v ELSE boot[c].draining
    BY <1>0, <2>1 DEF BootRow
  <2>6. retiring' = retiring /\ (v \/ retiring[b] = "no")
    <3>1. CASE pause(b)
      <4>1. boot' = [boot EXCEPT ![b].draining = TRUE, ![b].paused = TRUE] /\ retiring' = retiring
        BY <3>1 DEF pause
      <4>2. boot'[b].draining = TRUE
        BY <1>0, <4>1 DEF BootRow
      <4> QED
        BY <2>5, <4>1, <4>2
    <3>2. CASE resume(b)
      BY <3>2 DEF resume
    <3> QED
      BY <1>4, <3>1, <3>2
  <2>7. RetireInv'
    BY <1>2, <2>5, <2>6 DEF RetireInv
  <2> QED
    BY <1>0, <1>1, <2>4, <2>6, <2>7
<1>5. CASE retire_for_replacement(b)
  <2>1. Quiet(b) /\ boot' = [boot EXCEPT ![b].retired = TRUE] /\ retiring' = retiring
    BY <1>3, <1>5 DEF retire_for_replacement
  <2>2. /\ boot' \in [Boots -> BootRow]
        /\ \A c \in Boots : /\ boot'[c].draining = boot[c].draining
                            /\ c # b => boot'[c].retired = boot[c].retired
    BY <1>0, <2>1 DEF BootRow
  <2>3. RetireInv'
    BY <1>2, <2>1, <2>2 DEF RetireInv
  <2> QED
    BY <1>0, <1>1, <2>1, <2>2, <2>3
<1>6. CASE BeginRetirement(b)
  <2>1. /\ retiring[b] = "no" /\ boot' = [boot EXCEPT ![b].draining = TRUE]
        /\ retiring' = [retiring EXCEPT ![b] = "draining"]
    BY <1>6 DEF BeginRetirement
  <2>2. /\ boot' \in [Boots -> BootRow]
        /\ \A c \in Boots : /\ boot'[c].retired = boot[c].retired
                            /\ boot'[c].draining = IF c = b THEN TRUE ELSE boot[c].draining
    BY <1>0, <2>1 DEF BootRow
  <2>3. /\ retiring' \in [Boots -> {"no", "draining", "checked", "safe"}]
        /\ \A c \in Boots : retiring'[c] = IF c = b THEN "draining" ELSE retiring[c]
    BY <1>0, <2>1
  <2>4. RetireInv'
    BY <1>2, <2>1, <2>2, <2>3 DEF RetireInv
  <2> QED
    BY <1>1, <2>2, <2>3, <2>4
<1>7. CASE CheckSurvivor(b)
  <2>1. /\ retiring[b] = "draining" /\ Quiet(b) /\ boot' = boot
        /\ retiring' = [retiring EXCEPT ![b] = "checked"]
    BY <1>3, <1>7 DEF CheckSurvivor
  <2>2. PICK s \in Boots \ {b} : ~boot[s].draining
    BY <1>7 DEF CheckSurvivor
  <2>3. retiring[s] = "no"
    BY <2>2 DEF RetireInv
  <2>4. /\ retiring' \in [Boots -> {"no", "draining", "checked", "safe"}]
        /\ \A c \in Boots : retiring'[c] = IF c = b THEN "checked" ELSE retiring[c]
    BY <1>0, <2>1
  <2>5. retiring'[s] = "no"
    BY <2>2, <2>3, <2>4
  <2>6. RetireInv'
    BY <1>2, <2>1, <2>4, <2>5 DEF RetireInv
  <2> QED
    BY <1>0, <1>1, <2>1, <2>4, <2>6
<1>8. CASE CommitRetirement(b)
  <2>1. /\ retiring[b] = "checked" /\ boot' = [boot EXCEPT ![b].retired = TRUE]
        /\ retiring' = [retiring EXCEPT ![b] = "safe"]
    BY <1>8 DEF CommitRetirement
  <2>2. /\ boot' \in [Boots -> BootRow]
        /\ \A c \in Boots : /\ boot'[c].draining = boot[c].draining
                            /\ c # b => boot'[c].retired = boot[c].retired
    BY <1>0, <2>1 DEF BootRow
  <2>3. /\ retiring' \in [Boots -> {"no", "draining", "checked", "safe"}]
        /\ \A c \in Boots : retiring'[c] = IF c = b THEN "safe" ELSE retiring[c]
    BY <1>0, <2>1
  <2>4. RetireInv'
    BY <1>2, <2>1, <2>2, <2>3 DEF RetireInv
  <2> QED
    BY <1>1, <2>2, <2>3, <2>4
<1> QED
  BY <1>4, <1>5, <1>6, <1>7, <1>8 DEF Drain

\* A process that dies drops what it did; its row and its obligations stay.
LEMMA DeathStep ==
    ASSUME CiInv, NEW b \in Boots, BootDies(b)
    PROVE  CiInv' /\ CancelKept
<1> USE DEF CiInv
<1>0. /\ StateType /\ boot \in [Boots -> BootRow] /\ wk \in [Workers -> Delivery]
      /\ retiring \in [Boots -> {"no", "draining", "checked", "safe"}]
      /\ boot' = [boot EXCEPT ![b].alive = FALSE]
      /\ wk' = [w \in Workers |-> IF BootOf[w] = b THEN IdleWorker ELSE wk[w]]
      /\ sched' = [sched EXCEPT ![b] = IdleSched] /\ reap' = [reap EXCEPT ![b] = None]
      /\ retiring' = [retiring EXCEPT ![b] = IF retiring[b] = "checked" THEN "draining" ELSE retiring[b]]
      /\ UNCHANGED <<run, job, work, cleanup, vm, msg, cordon, execs>>
  BY DEF BootDies, db, StateType, WkType
<1>1. IdleWorker \in Delivery /\ IdleWorker.pc = "idle" /\ IdleSched \in Pass /\ IdleSched.pc = "idle"
  BY CiAssumption DEF IdleWorker, Delivery, IdleSched, Pass
<1>2. WkType' /\ \A w \in Workers : wk'[w] = wk[w] \/ wk'[w].pc = "idle"
  BY <1>0, <1>1 DEF StateType, WkType
<1>3. SchedType'
  BY <1>0, <1>1 DEF StateType, SchedType
<1>4. /\ boot' \in [Boots -> BootRow]
      /\ \A c \in Boots : boot'[c].retired = boot[c].retired /\ boot'[c].draining = boot[c].draining
  BY <1>0 DEF BootRow
<1>5. /\ retiring' \in [Boots -> {"no", "draining", "checked", "safe"}]
      /\ \A c \in Boots : retiring'[c] = retiring[c] \/ (retiring[c] = "checked" /\ retiring'[c] = "draining")
  BY <1>0
<1>6. reap' \in [Boots -> Jobs \cup {None}]
  BY <1>0 DEF StateType
<1>7. StateType'
  BY <1>0, <1>2, <1>3, <1>4, <1>5, <1>6 DEF StateType
<1>8. WaitInv' /\ ExecInv'
  BY <1>0 DEF WaitInv, ExecInv, Waiting
<1>9. ActInv'
  <2>1. \A w \in Workers : Acting(w)' => Acting(w) /\ wk'[w] = wk[w]
    BY <1>2 DEF Acting
  <2>2. \A w \in Workers : Acting(w)' =>
          /\ work'[wk'[w].job] = (IF wk'[w].pc = "prepare" THEN "preparing" ELSE "execution")
          /\ ~Waiting(wk[w].job)'
          /\ wk'[w].job \notin cleanup'
    BY <1>0, <2>1 DEF ActInv, Waiting
  <2> QED
    BY <1>0, <2>1, <2>2 DEF ActInv
<1>10. \A c \in Boots : Quiet(c) => Quiet(c)'
  BY <1>0, <1>2 DEF Quiet, has_work
<1>11. RetireInv'
  BY <1>4, <1>5, <1>10 DEF RetireInv
<1> QED
  BY <1>0, <1>7, <1>8, <1>9, <1>11 DEF CancelKept

-----------------------------------------------------------------------------
(* The theorems *)

\* Every step keeps the invariant, and no step turns a cancellation into a success.
LEMMA NextInv == CiInv /\ [Next]_vars => CiInv' /\ CancelKept
<1> SUFFICES ASSUME CiInv, [Next]_vars PROVE CiInv' /\ CancelKept
  OBVIOUS
<1>1. ASSUME NEW b \in Boots, Scheduler(b) \/ Reaper(b) PROVE CiInv' /\ CancelKept
  BY <1>1, SchedulerStep, ReaperStep, SettlingInv
<1>2. ASSUME NEW b \in Boots, Drain(b) \/ BootDies(b) PROVE CiInv' /\ CancelKept
  BY <1>2, DrainStep, DeathStep
<1>3. ASSUME NEW b \in Boots, NEW j \in Jobs, CleanupFinish(b, j) PROVE CiInv' /\ CancelKept
  BY <1>3, CleanupStep
<1>4. ASSUME NEW w \in Workers, Worker(w) PROVE CiInv' /\ CancelKept
  <2>1. CASE run_job(w) \/ JobTimeout(w) \/ Ack(w) \/ Advance(w) \/ \E j \in Jobs : Deliver(w, j)
    BY <2>1, DeliveryStep, SettlingInv
  <2>2. CASE claim_job_for_boot(w)
    BY <2>2, ClaimStep
  <2>3. CASE finish_job_preparation(w)
    BY <2>3, PreparationStep
  <2>4. CASE begin_job_execution(w)
    BY <2>4, BeginStep
  <2>5. CASE acquire_vm(w)
    BY <2>5, AcquireStep
  <2>6. CASE start_job_for_boot(w) \/ run_steps(w)
    BY <2>6, StepsStep
  <2> QED
    BY <1>4, <2>1, <2>2, <2>3, <2>4, <2>5, <2>6 DEF Worker
<1>5. CASE \/ cancel_run
           \/ \E j \in Jobs : Redeliver(j)
           \/ \E o \in Cordons : runner_drain(o)
           \/ \E b \in Boots, j \in Jobs : CleanupInterrupted(b, j)
  BY <1>5, EnvironmentStep, SettlingInv
<1>6. CASE UNCHANGED vars
  <2>1. UNCHANGED <<run, job, work, cleanup, vm, msg, boot, retiring, cordon, wk, sched, reap, execs>>
    BY <1>6 DEF vars, db, procs
  <2>2. StateType'
    BY <2>1 DEF CiInv, StateType, WkType, SchedType
  <2>3. Settling
    BY <2>1 DEF Settling, Settles, Rests
  <2> QED
    BY <2>2, <2>3, SettlingInv
<1> QED
  BY <1>1, <1>2, <1>3, <1>4, <1>5, <1>6 DEF Next

\* A cancelled run stays cancelled: the roll-up looks first, and nobody else writes
\* the run's status once it is terminal.
LEMMA RunKept == [Next]_vars => (run = "cancelled" => run' = "cancelled")
<1> SUFFICES ASSUME [Next]_vars, run = "cancelled" PROVE run' = run
  OBVIOUS
<1>1. ASSUME NEW b \in Boots, Scheduler(b) PROVE run' = run
  <2>1. CASE roll_up_run(b)
    BY <2>1 DEF roll_up_run, RollUp
  <2> QED
    BY <1>1, <2>1 DEF Scheduler, nudge_stalled_runs, publish_job, PublishFails, unqueue_job,
                      NextWave, SettleUnrunnable, queue_job, db
<1>2. ASSUME NEW b \in Boots, Reaper(b) PROVE run' = run
  BY <1>2 DEF Reaper, ReapRead, ReapWrite, ReapAdvance, ReapSpares, db
<1>3. ASSUME NEW b \in Boots, Drain(b) \/ BootDies(b) PROVE run' = run
  BY <1>3 DEF Drain, pause, resume, retire_for_replacement, BeginRetirement, CheckSurvivor,
              CommitRetirement, BootDies, db
<1>4. ASSUME NEW b \in Boots, NEW j \in Jobs, CleanupFinish(b, j) \/ CleanupInterrupted(b, j)
      PROVE  run' = run
  BY <1>4 DEF CleanupFinish, CleanupInterrupted, db
<1>5. ASSUME NEW w \in Workers, Worker(w) PROVE run' = run
  BY <1>5 DEF Worker, run_job, claim_job_for_boot, finish_job_preparation, begin_job_execution,
              acquire_vm, start_job_for_boot, run_steps, JobTimeout, Ack, Advance, Deliver, db
<1>6. CASE (\E j \in Jobs : Redeliver(j)) \/ (\E o \in Cordons : runner_drain(o))
  BY <1>6 DEF Redeliver, runner_drain, db
<1>7. CASE cancel_run
  BY <1>7 DEF cancel_run, RunTerminal
<1>8. CASE UNCHANGED vars
  BY <1>8 DEF vars, db
<1> QED
  BY <1>1, <1>2, <1>3, <1>4, <1>5, <1>6, <1>7, <1>8 DEF Next

\* CiInv is an invariant of the system, for every set of faults.
THEOREM CiInvariant == Spec => []CiInv
<1>1. Init => CiInv
  BY InitInv
<1>2. CiInv /\ [Next]_vars => CiInv'
  BY NextInv
<1> QED
  BY <1>1, <1>2, PTL DEF Spec

\* Rows and messages have their types, and no job has more unclaimed failures on
\* record than MAX_PRECLAIM_FAILURES (record_unclaimed_job_error).
THEOREM TypeCorrect == Spec => []TypeOK
<1>1. CiInv => TypeOK
  BY DEF CiInv, StateType, TypeOK, JobRow, Message, Statuses
<1> QED
  BY <1>1, CiInvariant, PTL

\* No redelivery, retry, drain or crash begins the execution of a job a second time
\* (claim_job_inner, begin_job_execution).
THEOREM ExecutedOnce == Spec => []OneExecution
<1>1. CiInv => OneExecution
  BY DEF CiInv, ExecInv, OneExecution
<1> QED
  BY <1>1, CiInvariant, PTL

\* A runner reported drained has no VM left and no worker that may make or use one
\* (runner_drain_status).
THEOREM DrainedMeansQuiet == Spec => []DrainedIsQuiet
<1>1. CiInv => DrainedIsQuiet
  <2> SUFFICES ASSUME CiInv, Drained
               PROVE  vm = {} /\ ~\E w \in Workers : Acting(w)
    BY DEF DrainedIsQuiet
  <2>1. \A j \in Jobs : work[j] # "preparing" /\ work[j] # "execution"
    BY CiAssumption DEF Drained
  <2>2. vm = {}
    BY <2>1 DEF CiInv, ActInv, StateType
  <2>3. \A w \in Workers : Acting(w) => wk[w].job \in Jobs
    BY DEF CiInv, StateType, WkType, Acting
  <2> QED
    BY <2>1, <2>2, <2>3 DEF CiInv, ActInv
<1> QED
  BY <1>1, CiInvariant, PTL

\* A retired boot does nothing more and owns no work (retire_for_replacement,
\* retire_application).
THEOREM RetiredMeansIdle == Spec => []RetiredIsIdle
<1>1. CiInv => RetiredIsIdle
  BY DEF CiInv, RetireInv, Quiet, RetiredIsIdle, Acting
<1> QED
  BY <1>1, CiInvariant, PTL

\* However the retirements of the boots interleave, and whichever boots die
\* meanwhile, one boot is left that no retirement has declared safe to remove
\* (retire_application).
THEOREM OneBootSurvives == Spec => []SurvivorRemains
<1>1. CiInv => SurvivorRemains
  <2>1. Cardinality(Boots) > 1 => Boots # {}
    BY FS_EmptySet
  <2> QED
    BY <2>1 DEF CiInv, RetireInv, SurvivorRemains
<1> QED
  BY <1>1, CiInvariant, PTL

\* Cancellation is final for the run, and a cancelled job is never reported as a
\* success (roll_up_run_in, handoff).
THEOREM CancellationSticks == Spec => CancelSticks
<1>1. CiInv /\ [Next]_vars =>
        [/\ run = "cancelled" => run' = "cancelled"
         /\ \A j \in Jobs : job[j].status = "cancelled" => job'[j].status # "success"]_vars
  BY NextInv, RunKept DEF CancelKept
<1> QED
  BY <1>1, CiInvariant, PTL DEF Spec, CancelSticks

=============================================================================
