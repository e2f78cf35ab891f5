----------------------- MODULE DeploymentRunnerProofs -----------------------
(***************************************************************************)
(* Theorems about DeploymentRunner, for every set of instances, handlers,  *)
(* target lists, strategies, batch sizes and number of crashes.            *)
(*                                                                         *)
(* All of them follow from one inductive invariant, IInv.  Its parts:      *)
(*   PlanInv      how far the batch loops have come                        *)
(*   WorkersInv   what the workers of the opened batches have done         *)
(*   StatusInv    what the row and the goroutine's copy say, by program    *)
(*                counter                                                  *)
(*   HubInv       how the goroutine, its context and the process agree     *)
(*   RecordedInv  what the workers' instance rows hold                     *)
(*   ReachInv     who can have heard of the deployment, or of its rollback *)
(*   RestartInv   what a restart finds: nothing of the time before is at   *)
(*                work                                                     *)
(***************************************************************************)
EXTENDS DeploymentRunner, RolloutPlanProofs

InRun == {"next", "batch", "pause", "rollback", "notifying", "check"}
Unborn == {"none", "spawned", "loaded", "registered"}

PlanInv ==
  /\ batch <= BatchCount(dep)
  /\ runner \in Unborn => batch = 0
  /\ runner \in {"next", "pause"} => batch < BatchCount(dep)
  /\ runner = "batch" => batch >= 1
  /\ runner = "check" => batch = BatchCount(dep)

\* Only workers of opened batches have started; the batches before the open
\* one are done, and between batches so is the last; a deployment judged
\* completed is done.
Started == \A p \in Position : worker[p] # "idle" => \E k \in 1..batch : p \in Batch(dep, k)
EarlierDone ==
  \A k \in 1..batch : k < batch \/ runner \in {"next", "pause", "check"} =>
    \A p \in Batch(dep, k) : worker[p] = "ok"
JudgedDone == mem.status = "completed" => \A p \in 1..Size(dep) : worker[p] = "ok"

WorkersInv == Started /\ EarlierDone /\ JudgedDone

StatusInv ==
  /\ runner = "none" <=> row.status = "none"
  /\ canceller # NoCancel => row.status # "none"
  /\ runner \in {"none", "spawned"} => mem.status = "none"
  /\ runner \in {"loaded", "registered"} => mem.status # "completed"
  /\ runner \in InRun => mem.status = "in_progress"
  /\ runner = "verdict" => mem.status \in {"completed", "failed"}
  /\ Alive /\ runner # "ended" => row.status \in Open \cup {"cancelled"}
  /\ runner = "ended" /\ row.status \in Open => ctxDone

HubInv ==
  /\ Alive => Serving
  /\ hub = "stopping" => ctxDone
  /\ hub = "fixing" => row.status \notin Open
  /\ NoOrphan

RecordedInv ==
  /\ Alive /\ ~ctxDone => \A p \in Position : worker[p] = "ok" => On(p) \in recorded
  /\ CompletedIsRecorded

Reached ==
  /\ \A i \in Instance : inbox[i] > 0 => i \in Opened
  /\ busy \subseteq Opened
  /\ \A h \in Handler : call[h] # NoCall => call[h].inst \in Opened
  /\ \A i \in Instance : result[i] = "completed" => i \in Opened
  /\ toRollback \subseteq Opened
  /\ rolledBack \subseteq Opened
Judged ==
  rolledBack # {} =>
    /\ runner \in {"notifying", "verdict", "ended", "gone", "dead"}
    /\ mem.status # "completed"
    /\ row.status # "completed"

ReachInv == Reached /\ Judged

\* While the process is down and recovers nobody else is at work; a deployment
\* that recovery failed is left alone; what recovery has still to mark are its
\* unfinished rows.
Quiet == (\A t \in Thread : job[t] = NoJob) /\ \A h \in Handler : call[h].phase # "found"

RestartInv ==
  /\ ~Serving => Quiet
  /\ hub # "up" /\ hub # "stopping" => crashes >= 1
  /\ mem.restart = FALSE
  /\ canceller.phase = "write" => canceller.row.restart = FALSE
  /\ row.restart =>
       /\ row.status \notin Open
       /\ runner \in {"gone", "dead"}
       /\ Quiet
       /\ crashes >= 1
       /\ hub \in {"down", "recovering"} => crashes >= 2
       /\ crashes <= 1 => Unfinished \subseteq fixing
  /\ hub = "up" => fixing = {}

IInv ==
  /\ TypeOK
  /\ PlanInv
  /\ WorkersInv
  /\ StatusInv
  /\ HubInv
  /\ RecordedInv
  /\ ReachInv
  /\ RestartInv

-----------------------------------------------------------------------------
\* What the assumption on Requests says of the deployment in hand: a list of
\* known instances, not empty, no longer than the bound.
LEMMA DepFacts ==
  ASSUME dep \in Requests
  PROVE  /\ IsPlan(dep)
         /\ 1..Size(dep) \subseteq Position
         /\ \A p \in 1..Size(dep) : On(p) \in Instance
         /\ Targets = {On(p) : p \in 1..Size(dep)}
BY RequestsAssumption DEF RequestType, IsPlan, Size, Position, On, Targets

\* Only a position of the target list has a worker that left "idle".
LEMMA WorkersAreTargets ==
  ASSUME TypeOK, WorkersInv, NEW p \in Position, worker[p] # "idle"
  PROVE  p \in 1..Size(dep) /\ On(p) \in Instance /\ On(p) \in Opened
BY DepFacts, BatchInRange DEF TypeOK, WorkersInv, Started, Opened

\* Frames: the variables a step of each thread leaves alone.
\* A worker writes only its own state, its result and its instance rows.
LEMMA WorkerFrame ==
  ASSUME NEW p \in Position, WorkerStep(p)
  PROVE  UNCHANGED <<dep, hub, crashes, fixing, row, inst, runner, mem, batch,
                     toRollback, rolledBack, cancelled, ctxDone, call, canceller,
                     busy>>
BY DEF WorkerStep, BeginInstance, NotifyInstance, ObserveSuccess, GiveUp,
       MarkCompleted, RecordInstance, ReturnError, FailInstance, hubVars, rowVars,
       runVars, ctxVars, apiVars, linkVars

\* A persist writes one deployment_instances row.
LEMMA PersistFrame ==
  ASSUME NEW t \in Thread, PersistStep(t)
  PROVE  UNCHANGED <<dep, hub, crashes, fixing, row, recorded, runner, mem, batch,
                     toRollback, rolledBack, cancelled, ctxDone, call, canceller,
                     inbox, busy, worker, result>>
BY DEF PersistStep, Copy, Upsert, hubVars, rowVars, runVars, ctxVars, apiVars, linkVars

\* A report's handler reaches only its call, a result and a persist.
LEMMA HandlerFrame ==
  ASSUME NEW h \in Handler, HandlerStep(h)
  PROVE  UNCHANGED <<dep, hub, crashes, fixing, row, inst, recorded, runner, mem,
                     batch, toRollback, rolledBack, cancelled, ctxDone, canceller,
                     inbox, busy, worker>>
BY DEF HandlerStep, LookupRunner, ApplyReport, hubVars, rowVars, runVars, ctxVars,
       linkVars

\* An agent reaches only the link to the hub.
LEMMA AgentFrame ==
  ASSUME NEW i \in Instance, AgentStep(i)
  PROVE  UNCHANGED <<dep, hub, crashes, fixing, row, inst, recorded, runner, mem,
                     batch, toRollback, rolledBack, cancelled, ctxDone, canceller,
                     worker, result, job>>
BY DEF AgentStep, AgentAccept, AgentFinish, LoseEvents, hubVars, rowVars, runVars,
       ctxVars, apiVars

\* CancelDeployment writes the row and the runner's own context.
LEMMA CancelFrame ==
  ASSUME CancelStep
  PROVE  UNCHANGED <<dep, hub, crashes, fixing, inst, recorded, runner, mem, batch,
                     toRollback, rolledBack, ctxDone, call, inbox, busy, worker,
                     result, job>>
BY DEF CancelStep, CancelRunner, CancelRead, CancelWrite, CancelAborted, hubVars,
       rowVars, runVars, ctxVars, linkVars

\* Timeout, merge, stop and recovery leave the goroutines where they are.
LEMMA ProcessFrame ==
  ASSUME TimeoutRun \/ MergeCancel \/ StopHub \/ RecoveryStep
  PROVE  UNCHANGED <<dep, crashes, recorded, runner, mem, batch, toRollback,
                     rolledBack, call, canceller, inbox, busy, worker, result, job>>
BY DEF RecoveryStep, TimeoutRun, MergeCancel, EndContext, StopHub, StartHub,
       RecoverDeployment, RecoverIf, RecoverInstance, ServeHub, hubVars, rowVars,
       runVars, ctxVars, apiVars, linkVars

\* The deployment goroutine writes neither the contexts nor the link.
LEMMA RunnerFrame ==
  ASSUME RunnerStep
  PROVE  UNCHANGED <<dep, hub, crashes, fixing, recorded, cancelled, ctxDone, call,
                     canceller, inbox, busy, job>>
BY DEF RunnerStep, LoadRunner, RegisterRunner, StartRun, OpenBatch, CloseBatch,
       EndPause, StartRollback, FinishRollback, CheckResults, SaveVerdict,
       UnregisterRunner, RollbackInstance, hubVars, rowVars, runVars, ctxVars,
       apiVars, linkVars

\* The goroutine's variables move only in its own steps, at its creation and at
\* the end of the process.
LEMMA Others ==
  ASSUME [Next]_vars, ~RunnerStep, ~CreateDeployment, ~EndHub
  PROVE  UNCHANGED <<dep, crashes, runner, mem, batch, toRollback, rolledBack>>
<1>1. CASE UNCHANGED vars
  BY <1>1 DEF vars, hubVars, runVars
<1>2. CASE Next
  BY <1>2, WorkerFrame, PersistFrame, HandlerFrame, AgentFrame, CancelFrame,
     ProcessFrame
     DEF Next
<1>. QED
  BY <1>1, <1>2

-----------------------------------------------------------------------------
\* Every step keeps the types.
LEMMA TypeStep == ASSUME IInv, [Next]_vars PROVE TypeOK'
<1> USE DEF TypeOK, hubVars, rowVars, runVars, ctxVars, apiVars, linkVars
<1>0. TypeOK /\ WorkersInv /\ StatusInv
  BY DEF IInv
<1>1. ASSUME CreateDeployment
      PROVE  TypeOK'
  BY <1>0, <1>1 DEF CreateDeployment, DeploymentRow, RunnerState, Open
<1>2. ASSUME LoadRunner
      PROVE  TypeOK'
  BY <1>0, <1>2, DepFacts DEF LoadRunner, RunnerState, ResultState
<1>3. ASSUME RegisterRunner
      PROVE  TypeOK'
  BY <1>0, <1>3 DEF RegisterRunner, RunnerState
<1>4. ASSUME StartRun
      PROVE  TypeOK'
  BY <1>0, <1>4 DEF StartRun, SaveDeployment, DeploymentRow, Open, RunnerState
<1>5. ASSUME OpenBatch
      PROVE  TypeOK'
  BY <1>0, <1>5 DEF OpenBatch, Conclude, RunnerState, WorkerState, DeploymentRow, Over
<1>6. ASSUME CloseBatch
      PROVE  TypeOK'
  BY <1>0, <1>6
     DEF CloseBatch, SaveDeployment, DeploymentRow, Open, RunnerState, Conclude,
         Over
<1>7. ASSUME EndPause
      PROVE  TypeOK'
  BY <1>0, <1>7 DEF EndPause, Conclude, RunnerState, DeploymentRow, Over
<1>8. ASSUME StartRollback
      PROVE  TypeOK'
  BY <1>0, <1>8, DepFacts DEF StartRollback, RunnerState, Deployed
<1>9. ASSUME FinishRollback
      PROVE  TypeOK'
  BY <1>0, <1>9 DEF FinishRollback, Conclude, RunnerState, DeploymentRow, Over
<1>10. ASSUME CheckResults
      PROVE  TypeOK'
  BY <1>0, <1>10 DEF CheckResults, Conclude, RunnerState, DeploymentRow, Over
<1>11. ASSUME SaveVerdict
      PROVE  TypeOK'
  BY <1>0, <1>11 DEF SaveVerdict, SaveDeployment, RunnerState
<1>12. ASSUME UnregisterRunner
      PROVE  TypeOK'
  BY <1>0, <1>12 DEF UnregisterRunner, RunnerState
<1>13. ASSUME NEW i \in Instance, RollbackInstance(i)
      PROVE  TypeOK'
  BY <1>0, <1>13 DEF RollbackInstance
<1>14. ASSUME NEW p \in Position, BeginInstance(p)
      PROVE  TypeOK'
  BY <1>0, <1>14, WorkersAreTargets
     DEF BeginInstance, Thread, StartPersist, Job, ResultState, WorkerState
<1>15. ASSUME NEW p \in Position, NotifyInstance(p)
      PROVE  TypeOK'
  <2>1. On(p) \in Instance /\ p \in Thread
    BY <1>0, <1>15, WorkersAreTargets DEF NotifyInstance, Thread
  <2>2. CASE FailInstance(p)
    BY <1>0, <1>15, <2>1, <2>2
       DEF NotifyInstance, FailInstance, StartPersist, TypeOK, Job, NoJob,
           ResultState, WorkerState
  <2>3. CASE ~FailInstance(p)
    BY <1>0, <1>15, <2>1, <2>3 DEF NotifyInstance, TypeOK, WorkerState
  <2>. QED BY <2>2, <2>3
<1>16. ASSUME NEW p \in Position, ObserveSuccess(p)
      PROVE  TypeOK'
  BY <1>0, <1>16, WorkersAreTargets DEF ObserveSuccess, WorkerState
<1>17. ASSUME NEW p \in Position, GiveUp(p)
      PROVE  TypeOK'
  BY <1>0, <1>17, WorkersAreTargets
     DEF GiveUp, Thread, FailInstance, StartPersist, Job, ResultState, WorkerState
<1>18. ASSUME NEW p \in Position, MarkCompleted(p)
      PROVE  TypeOK'
  BY <1>0, <1>18, WorkersAreTargets
     DEF MarkCompleted, Thread, StartPersist, Job, ResultState, WorkerState
<1>19. ASSUME NEW p \in Position, RecordInstance(p)
      PROVE  TypeOK'
  BY <1>0, <1>19, WorkersAreTargets DEF RecordInstance, WorkerState
<1>20. ASSUME NEW p \in Position, ReturnError(p)
      PROVE  TypeOK'
  BY <1>0, <1>20, WorkersAreTargets DEF ReturnError, WorkerState
<1>21. ASSUME NEW t \in Thread, Copy(t)
      PROVE  TypeOK'
  <2>1. job[t] \in [phase: {"copy", "write"}, inst: Instance, val: {"absent"} \cup ResultState, bg: BOOLEAN]
    BY <1>0, <1>21 DEF Copy, TypeOK, Job, NoJob
  <2>2. [job[t] EXCEPT !.phase = "write", !.val = result[job[t].inst]] \in Job
    BY <1>0, <1>21, <2>1 DEF TypeOK, Job
  <2>. QED
    BY <1>0, <1>21, <2>2 DEF Copy, TypeOK
<1>22. ASSUME NEW t \in Thread, Upsert(t)
      PROVE  TypeOK'
  BY <1>0, <1>22 DEF Upsert, Job, NoJob
<1>23. ASSUME NEW h \in Handler, LookupRunner(h)
      PROVE  TypeOK'
  BY <1>0, <1>23 DEF LookupRunner, Call, NoCall
<1>24. ASSUME NEW h \in Handler, ApplyReport(h)
      PROVE  TypeOK'
  BY <1>0, <1>24 DEF ApplyReport, Thread, StartPersist, Job, Call, NoCall, ResultState
<1>25. ASSUME NEW i \in Instance, AgentAccept(i)
      PROVE  TypeOK'
  BY <1>0, <1>25 DEF AgentAccept, Report, Call, ResultState
<1>26. ASSUME NEW i \in Instance, AgentFinish(i)
      PROVE  TypeOK'
  BY <1>0, <1>26 DEF AgentFinish, Report, Call, ResultState
<1>27. ASSUME NEW i \in Instance, LoseEvents(i)
      PROVE  TypeOK'
  BY <1>0, <1>27 DEF LoseEvents
<1>28. ASSUME CancelRunner
      PROVE  TypeOK'
  BY <1>0, <1>28 DEF CancelRunner, Canceller
<1>29. ASSUME CancelRead
      PROVE  TypeOK'
  BY <1>0, <1>29 DEF CancelRead, Canceller
<1>30. ASSUME CancelWrite
      PROVE  TypeOK'
  BY <1>0, <1>30 DEF CancelWrite, Canceller, NoCancel, DeploymentRow, Over
<1>31. ASSUME CancelAborted
      PROVE  TypeOK'
  BY <1>0, <1>31 DEF CancelAborted, Canceller
<1>32. ASSUME TimeoutRun
      PROVE  TypeOK'
  BY <1>0, <1>32 DEF TimeoutRun, EndContext
<1>33. ASSUME MergeCancel
      PROVE  TypeOK'
  BY <1>0, <1>33 DEF MergeCancel, EndContext
<1>34. ASSUME StopHub
      PROVE  TypeOK'
  BY <1>0, <1>34 DEF StopHub
<1>35. ASSUME EndHub
      PROVE  TypeOK'
  <2>1. crashes' \in Nat /\ hub' \in {"up", "stopping", "down", "recovering", "fixing"}
    BY <1>0, <1>35 DEF EndHub, TypeOK
  <2>2. runner' \in RunnerState
    BY <1>0, <1>35 DEF EndHub, TypeOK, RunnerState
  <2>3. /\ job' \in [Thread -> Job] /\ call' \in [Handler -> Call]
        /\ canceller' \in Canceller /\ result' \in [Instance -> {"absent"} \cup ResultState]
        /\ inbox' \in [Instance -> Nat] /\ cancelled' \in BOOLEAN /\ ctxDone' \in BOOLEAN
        /\ toRollback' \subseteq Instance /\ fixing' \subseteq Instance
    BY <1>0, <1>35 DEF EndHub, TypeOK, Job, Call, Canceller
  <2>. QED
    BY <1>0, <1>35, <2>1, <2>2, <2>3 DEF EndHub, TypeOK
<1>36. ASSUME StartHub
      PROVE  TypeOK'
  BY <1>0, <1>36 DEF StartHub
<1>37. ASSUME RecoverDeployment
      PROVE  TypeOK'
  <2>1. row' \in DeploymentRow
    BY <1>0, <1>37 DEF RecoverDeployment, RecoverIf, TypeOK, DeploymentRow, Over
  <2>2. fixing' \subseteq Instance
    BY <1>0, <1>37 DEF RecoverDeployment, RecoverIf, Unfinished, TypeOK
  <2>. QED
    BY <1>0, <1>37, <2>1, <2>2 DEF RecoverDeployment, RecoverIf, TypeOK
<1>38. ASSUME NEW i \in Instance, RecoverInstance(i)
      PROVE  TypeOK'
  BY <1>0, <1>38 DEF RecoverInstance, ResultState
<1>39. ASSUME ServeHub
      PROVE  TypeOK'
  BY <1>0, <1>39 DEF ServeHub
<1>40. ASSUME UNCHANGED vars
      PROVE  TypeOK'
  BY <1>0, <1>40 DEF vars
<1>. QED
  BY <1>1, <1>2, <1>3, <1>4, <1>5, <1>6, <1>7, <1>8, <1>9, <1>10, <1>11, <1>12,
     <1>13, <1>14, <1>15, <1>16, <1>17, <1>18, <1>19, <1>20, <1>21, <1>22, <1>23,
     <1>24, <1>25, <1>26, <1>27, <1>28, <1>29, <1>30, <1>31, <1>32, <1>33, <1>34,
     <1>35, <1>36, <1>37, <1>38, <1>39, <1>40
     DEF Next, RunnerStep, WorkerStep, PersistStep, HandlerStep, AgentStep,
         CancelStep, RecoveryStep

-----------------------------------------------------------------------------
\* The batch loops count up to BatchCount and no further.
LEMMA PlanStep == ASSUME IInv, [Next]_vars PROVE PlanInv'
<1>0. BatchCount(dep) \in Nat \ {0} /\ batch \in Nat /\ TypeOK /\ PlanInv
  BY DepFacts, BatchCountType DEF IInv, TypeOK
<1>1. CASE RunnerStep
  <2>1. dep' = dep
    BY <1>1, RunnerFrame
  <2>. QED
    BY <1>0, <1>1, <2>1
       DEF RunnerStep, LoadRunner, RegisterRunner, StartRun, OpenBatch, CloseBatch,
           EndPause, StartRollback, FinishRollback, CheckResults, SaveVerdict,
           UnregisterRunner, RollbackInstance, Conclude, runVars, PlanInv, Unborn,
           SaveDeployment
<1>2. CASE CreateDeployment
  BY <1>0, <1>2 DEF CreateDeployment, hubVars, PlanInv, Unborn, IInv, StatusInv
<1>3. CASE EndHub
  BY <1>0, <1>3 DEF EndHub, PlanInv, Unborn
<1>4. CASE ~RunnerStep /\ ~CreateDeployment /\ ~EndHub
  BY <1>0, <1>4, Others DEF PlanInv
<1>. QED
  BY <1>1, <1>2, <1>3, <1>4

-----------------------------------------------------------------------------
\* What RolloutPlanProofs says of the deployment in hand.
LEMMA BatchFacts ==
  ASSUME TypeOK
  PROVE  /\ BatchCount(dep) \in Nat \ {0}
         /\ \A j, k \in 1..BatchCount(dep) : j < k => Batch(dep, j) \cap Batch(dep, k) = {}
         /\ \A k : Batch(dep, k) \subseteq 1..Size(dep) /\ Batch(dep, k) \subseteq Position
         /\ \A p \in 1..Size(dep) : \E k \in 1..BatchCount(dep) : p \in Batch(dep, k)
BY DepFacts, BatchCountType, BatchesDisjoint, BatchInRange, BatchesCover DEF TypeOK

\* Workers start only with their batch and a batch only after the earlier ones.
LEMMA WorkersStep == ASSUME IInv, [Next]_vars PROVE WorkersInv'
<1> USE BatchFacts
   DEF IInv, WorkersInv, hubVars, rowVars, runVars, Conclude, SaveDeployment
<1>0. /\ batch \in Nat /\ batch <= BatchCount(dep) /\ worker \in [Position -> WorkerState]
      /\ mem \in DeploymentRow /\ Started /\ EarlierDone /\ JudgedDone
  BY DEF TypeOK, PlanInv
<1>1. ASSUME CreateDeployment
      PROVE  WorkersInv'
  BY <1>0, <1>1 DEF CreateDeployment, Started, EarlierDone, JudgedDone
<1>2. ASSUME LoadRunner
      PROVE  WorkersInv'
  BY <1>0, <1>2 DEF LoadRunner, StatusInv, Alive, Open, Started, EarlierDone, JudgedDone
<1>3. ASSUME RegisterRunner
      PROVE  WorkersInv'
  BY <1>0, <1>3 DEF RegisterRunner, Started, EarlierDone, JudgedDone
<1>4. ASSUME StartRun
      PROVE  WorkersInv'
  <2>1. mem'.status = "in_progress" /\ batch = 0
    BY <1>0, <1>4 DEF StartRun, PlanInv, Unborn, DeploymentRow
  <2>2. UNCHANGED <<dep, worker, batch>>
    BY <1>4 DEF StartRun
  <2>. QED
    BY <1>0, <2>1, <2>2 DEF Started, EarlierDone, JudgedDone
<1>5. ASSUME OpenBatch
      PROVE  WorkersInv'
  <2>1. CASE runner' = "verdict"
    BY <1>0, <1>5, <2>1 DEF OpenBatch, Started, EarlierDone, JudgedDone, DeploymentRow
  <2>2. CASE runner' # "verdict"
    <3>1. /\ runner = "next" /\ runner' = "batch" /\ batch' = batch + 1 /\ batch' <= BatchCount(dep)
          /\ worker' = [p \in Position |->
                 IF p \in Batch(dep, batch + 1) THEN "begin" ELSE worker[p]]
          /\ UNCHANGED <<dep, mem>>
      BY <1>0, <1>5, <2>2 DEF OpenBatch, PlanInv
    <3>2. Started'
      BY <1>0, <3>1 DEF Started
    <3>3. EarlierDone'
      BY <1>0, <3>1 DEF EarlierDone
    <3>4. JudgedDone'
      BY <3>1 DEF JudgedDone, StatusInv, InRun
    <3>. QED
      BY <3>2, <3>3, <3>4
  <2>. QED
    BY <2>1, <2>2
<1>6. ASSUME CloseBatch
      PROVE  WorkersInv'
  <2>1. /\ UNCHANGED <<dep, worker, batch>> /\ runner = "batch" /\ mem'.status # "completed"
    BY <1>0, <1>6 DEF CloseBatch, StatusInv, InRun, DeploymentRow
  <2>2. runner' \in {"pause", "check"} => \A p \in Batch(dep, batch) : worker[p] = "ok"
    BY <1>0, <1>6 DEF CloseBatch, BatchReturned, BatchFailed
  <2>3. runner' \notin {"pause", "check"} => runner' \notin {"next", "pause", "check"}
    BY <1>6 DEF CloseBatch
  <2>. QED
    BY <1>0, <2>1, <2>2, <2>3 DEF Started, EarlierDone, JudgedDone
<1>7. ASSUME EndPause
      PROVE  WorkersInv'
  <2>1. /\ UNCHANGED <<dep, worker, batch>> /\ runner = "pause" /\ mem'.status # "completed"
    BY <1>0, <1>7 DEF EndPause, StatusInv, InRun, DeploymentRow
  <2>. QED
    BY <1>0, <2>1 DEF Started, EarlierDone, JudgedDone
<1>8. ASSUME \/ StartRollback \/ FinishRollback \/ UnregisterRunner \/ SaveVerdict
             \/ \E i \in Instance : RollbackInstance(i)
      PROVE  WorkersInv'
  <2>1. UNCHANGED <<dep, worker, batch>>
    BY <1>8
       DEF StartRollback, FinishRollback, UnregisterRunner, RollbackInstance,
           SaveVerdict
  <2>2. mem'.status = "completed" => mem.status = "completed"
    BY <1>0, <1>8
       DEF StartRollback, FinishRollback, UnregisterRunner, RollbackInstance,
           SaveVerdict, DeploymentRow
  <2>3. runner' \notin {"next", "pause", "check"}
    BY <1>8
       DEF StartRollback, FinishRollback, UnregisterRunner, RollbackInstance,
           SaveVerdict
  <2>. QED
    BY <1>0, <2>1, <2>2, <2>3 DEF Started, EarlierDone, JudgedDone
<1>9. ASSUME CheckResults
      PROVE  WorkersInv'
  <2>1. /\ UNCHANGED <<dep, worker, batch>> /\ runner = "check" /\ batch = BatchCount(dep)
        /\ runner' = "verdict"
    BY <1>9 DEF CheckResults, PlanInv
  <2>2. \A p \in 1..Size(dep) : worker[p] = "ok"
    BY <1>0, <2>1 DEF EarlierDone
  <2>. QED
    BY <1>0, <2>1, <2>2 DEF Started, EarlierDone, JudgedDone
<1>10. ASSUME NEW p \in Position, WorkerStep(p)
      PROVE  WorkersInv'
  <2>1. /\ UNCHANGED <<dep, batch, runner, mem>> /\ runner = "batch"
        /\ worker[p] \notin {"idle", "ok"}
        /\ \A q \in Position \ {p} : worker'[q] = worker[q]
    BY <1>0, <1>10, WorkerFrame
       DEF WorkerStep, BeginInstance, NotifyInstance, ObserveSuccess, GiveUp,
           MarkCompleted, RecordInstance, ReturnError, FailInstance, Working,
           WorkerState
  <2>2. Started'
    BY <1>0, <2>1 DEF Started
  <2>3. EarlierDone'
    BY <1>0, <2>1 DEF EarlierDone
  <2>4. mem.status # "completed"
    BY <2>1 DEF StatusInv, InRun
  <2>5. JudgedDone'
    BY <2>1, <2>4 DEF JudgedDone
  <2>. QED
    BY <2>2, <2>3, <2>5
<1>11. ASSUME EndHub
      PROVE  WorkersInv'
  BY <1>0, <1>11 DEF EndHub, Started, EarlierDone, JudgedDone
<1>12. ASSUME UNCHANGED <<dep, worker, batch, runner, mem>>
      PROVE  WorkersInv'
  BY <1>0, <1>12 DEF Started, EarlierDone, JudgedDone
<1>. QED
  BY <1>1, <1>2, <1>3, <1>4, <1>5, <1>6, <1>7, <1>8, <1>9, <1>10, <1>11, <1>12,
     PersistFrame, HandlerFrame, AgentFrame, CancelFrame, ProcessFrame
     DEF Next, RunnerStep, vars

-----------------------------------------------------------------------------
\* The row and the goroutine's copy follow the program counter.
LEMMA StatusStep == ASSUME IInv, [Next]_vars PROVE StatusInv'
<1> USE DEF IInv, StatusInv, InRun, Unborn, Alive, Open, hubVars, rowVars, runVars,
            ctxVars, apiVars, Conclude
<1>0. row \in DeploymentRow /\ mem \in DeploymentRow /\ canceller \in Canceller
  BY DEF TypeOK
<1>1. ASSUME CreateDeployment
      PROVE  StatusInv'
  BY <1>0, <1>1 DEF CreateDeployment
<1>2. ASSUME LoadRunner
      PROVE  StatusInv'
  BY <1>0, <1>2 DEF LoadRunner, HubInv
<1>3. ASSUME RegisterRunner
      PROVE  StatusInv'
  BY <1>0, <1>3 DEF RegisterRunner
<1>4. ASSUME StartRun
      PROVE  StatusInv'
  BY <1>0, <1>4 DEF StartRun, SaveDeployment, DeploymentRow
<1>5. ASSUME OpenBatch
      PROVE  StatusInv'
  BY <1>0, <1>5 DEF OpenBatch, DeploymentRow
<1>6. ASSUME CloseBatch
      PROVE  StatusInv'
  BY <1>0, <1>6 DEF CloseBatch, SaveDeployment, DeploymentRow
<1>7. ASSUME EndPause
      PROVE  StatusInv'
  BY <1>0, <1>7 DEF EndPause, DeploymentRow
<1>8. ASSUME StartRollback
      PROVE  StatusInv'
  BY <1>0, <1>8 DEF StartRollback
<1>9. ASSUME NEW i \in Instance, RollbackInstance(i)
      PROVE  StatusInv'
  BY <1>0, <1>9 DEF RollbackInstance
<1>10. ASSUME FinishRollback
      PROVE  StatusInv'
  BY <1>0, <1>10 DEF FinishRollback, DeploymentRow
<1>11. ASSUME CheckResults
      PROVE  StatusInv'
  BY <1>0, <1>11 DEF CheckResults, DeploymentRow
<1>12. ASSUME SaveVerdict
      PROVE  StatusInv'
  BY <1>0, <1>12 DEF SaveVerdict, SaveDeployment
<1>13. ASSUME UnregisterRunner
      PROVE  StatusInv'
  BY <1>0, <1>13 DEF UnregisterRunner
<1>14. ASSUME CancelStep
      PROVE  StatusInv'
  <2>1. CASE CancelWrite
    <3>1. canceller.row \in DeploymentRow /\ canceller # NoCancel
      BY <1>0, <2>1 DEF CancelWrite, Canceller, NoCancel
    <3>2. row'.status = "cancelled"
      BY <2>1, <3>1 DEF CancelWrite, DeploymentRow
    <3>. QED
      BY <2>1, <3>1, <3>2, CancelFrame DEF CancelWrite, CancelStep
  <2>2. CASE CancelRunner \/ CancelRead \/ CancelAborted
    BY <2>2 DEF CancelRunner, CancelRead, CancelAborted, NoCancel
  <2>. QED
    BY <1>14, <2>1, <2>2 DEF CancelStep
<1>15. ASSUME TimeoutRun \/ MergeCancel \/ StopHub
      PROVE  StatusInv'
  BY <1>0, <1>15 DEF TimeoutRun, MergeCancel, EndContext, StopHub
<1>16. ASSUME EndHub
      PROVE  StatusInv'
  BY <1>0, <1>16 DEF EndHub
<1>17. ASSUME RecoveryStep
      PROVE  StatusInv'
  BY <1>0, <1>17
     DEF RecoveryStep, StartHub, RecoverDeployment, RecoverIf, RecoverInstance,
         ServeHub, HubInv, Serving, DeploymentRow
<1>18. ASSUME UNCHANGED <<runner, row, mem, ctxDone, canceller>>
      PROVE  StatusInv'
  BY <1>18
<1>. QED
  BY <1>1, <1>2, <1>3, <1>4, <1>5, <1>6, <1>7, <1>8, <1>9, <1>10, <1>11, <1>12,
     <1>13, <1>14, <1>15, <1>16, <1>17, <1>18, WorkerFrame, PersistFrame,
     HandlerFrame, AgentFrame
     DEF Next, RunnerStep, vars

\* A goroutine lives only in a serving hub, and leaves no orphan behind.
LEMMA HubStep == ASSUME IInv, [Next]_vars PROVE HubInv'
<1> USE DEF IInv, HubInv, NoOrphan, Alive, Serving, Open, hubVars, rowVars, runVars,
            ctxVars, Conclude
<1>0. row \in DeploymentRow /\ mem \in DeploymentRow
  BY DEF TypeOK
<1>1. ASSUME CreateDeployment
      PROVE  HubInv'
  BY <1>0, <1>1 DEF CreateDeployment
<1>2. ASSUME RunnerStep
      PROVE  HubInv'
  <2>1. Serving /\ Alive /\ hub' = hub /\ ctxDone' = ctxDone
    BY <1>2, RunnerFrame
       DEF RunnerStep, LoadRunner, RegisterRunner, StartRun, OpenBatch, CloseBatch,
           EndPause, StartRollback, FinishRollback, CheckResults, SaveVerdict,
           UnregisterRunner, RollbackInstance
  <2>2. Alive' \/ runner' = "gone"
    BY <1>2
       DEF RunnerStep, LoadRunner, RegisterRunner, StartRun, OpenBatch, CloseBatch,
           EndPause, StartRollback, FinishRollback, CheckResults, SaveVerdict,
           UnregisterRunner, RollbackInstance
  <2>3. runner' = "gone" => ctxDone \/ row'.status \notin Open
    BY <1>0, <1>2
       DEF RunnerStep, LoadRunner, RegisterRunner, StartRun, OpenBatch, CloseBatch,
           EndPause, StartRollback, FinishRollback, CheckResults, SaveVerdict,
           UnregisterRunner, RollbackInstance, StatusInv
  <2>. QED
    BY <2>1, <2>2, <2>3
<1>3. ASSUME CancelStep
      PROVE  HubInv'
  BY <1>0, <1>3
     DEF CancelStep, CancelRunner, CancelRead, CancelWrite, CancelAborted, Canceller,
         NoCancel, DeploymentRow, TypeOK
<1>4. ASSUME TimeoutRun \/ MergeCancel \/ StopHub \/ EndHub
      PROVE  HubInv'
  BY <1>0, <1>4 DEF TimeoutRun, MergeCancel, EndContext, StopHub, EndHub
<1>5. ASSUME RecoveryStep
      PROVE  HubInv'
  BY <1>0, <1>5
     DEF RecoveryStep, StartHub, RecoverDeployment, RecoverIf, RecoverInstance,
         ServeHub, DeploymentRow
<1>6. ASSUME UNCHANGED <<hub, runner, row, ctxDone>>
      PROVE  HubInv'
  BY <1>6
<1>. QED
  BY <1>1, <1>2, <1>3, <1>4, <1>5, <1>6, WorkerFrame, PersistFrame, HandlerFrame,
     AgentFrame
     DEF Next, vars

-----------------------------------------------------------------------------
\* A worker that succeeded before the context ended stored its version.
LEMMA RecordedStep == ASSUME IInv, [Next]_vars PROVE RecordedInv'
<1> DEFINE Kept == \A p \in Position : worker[p] = "ok" => On(p) \in recorded
<1> USE DEF IInv, RecordedInv, CompletedIsRecorded, Alive, Targets, On, hubVars,
            rowVars, runVars, ctxVars, Conclude
<1>0. /\ row \in DeploymentRow /\ mem \in DeploymentRow /\ worker \in [Position -> WorkerState]
      /\ batch \in Nat
  BY DEF TypeOK
<1>1. ASSUME CreateDeployment
      PROVE  RecordedInv'
  BY <1>0, <1>1 DEF CreateDeployment, StatusInv, PlanInv, Unborn, WorkersInv, Started
<1>2. ASSUME OpenBatch
      PROVE  RecordedInv'
  BY <1>0, <1>2 DEF OpenBatch
<1>3. ASSUME StartRun \/ CloseBatch
      PROVE  RecordedInv'
  <2>1. UNCHANGED <<dep, worker, recorded, ctxDone>> /\ Alive
    BY <1>3 DEF StartRun, CloseBatch
  <2>2. row' = row \/ row'.status = "in_progress"
    <3>1. CASE StartRun
      BY <1>0, <3>1 DEF StartRun, SaveDeployment, DeploymentRow
    <3>2. CASE CloseBatch
      BY <1>0, <3>2 DEF CloseBatch, SaveDeployment, DeploymentRow, StatusInv, InRun
    <3>. QED
      BY <1>3, <3>1, <3>2
  <2>. QED
    BY <2>1, <2>2
<1>4. ASSUME SaveVerdict
      PROVE  RecordedInv'
  <2>1. UNCHANGED <<dep, worker, recorded, ctxDone>> /\ Alive
    BY <1>4 DEF SaveVerdict
  <2>2. ASSUME row' # row, row'.status = "completed"
        PROVE  Targets \subseteq recorded
    <3>1. ~ctxDone /\ mem.status = "completed"
      BY <1>4, <2>2 DEF SaveVerdict, SaveDeployment
    <3>2. \A p \in 1..Size(dep) : worker[p] = "ok"
      BY <3>1 DEF WorkersInv, JudgedDone
    <3>. QED
      BY <2>1, <3>1, <3>2, DepFacts DEF TypeOK
  <2>. QED
    BY <2>1, <2>2
<1>5. ASSUME \/ LoadRunner \/ RegisterRunner \/ EndPause \/ StartRollback \/ FinishRollback
             \/ CheckResults \/ UnregisterRunner
             \/ \E i \in Instance : RollbackInstance(i)
      PROVE  RecordedInv'
  BY <1>5
     DEF LoadRunner, RegisterRunner, EndPause, StartRollback, FinishRollback,
         CheckResults, UnregisterRunner, RollbackInstance
<1>6. ASSUME NEW p \in Position, WorkerStep(p)
      PROVE  RecordedInv'
  <2>1. /\ recorded \subseteq recorded'
        /\ \A q \in Position : worker'[q] = "ok" => \/ worker[q] = "ok"
                                                    \/ ctxDone \/ On(q) \in recorded'
    BY <1>0, <1>6
       DEF WorkerStep, BeginInstance, NotifyInstance, ObserveSuccess, GiveUp,
           MarkCompleted, RecordInstance, ReturnError, FailInstance
  <2>. QED
    BY <1>6, <2>1, WorkerFrame
<1>7. ASSUME CancelStep
      PROVE  RecordedInv'
  <2>1. row' = row \/ row'.status # "completed"
    <3>1. CASE CancelWrite
      <4>1. canceller.row \in DeploymentRow
        BY <3>1 DEF CancelWrite, TypeOK, Canceller, NoCancel
      <4>. QED
        BY <3>1, <4>1 DEF CancelWrite, DeploymentRow
    <3>2. CASE CancelRunner \/ CancelRead \/ CancelAborted
      BY <3>2 DEF CancelRunner, CancelRead, CancelAborted
    <3>. QED
      BY <1>7, <3>1, <3>2 DEF CancelStep
  <2>. QED
    BY <1>7, <2>1, CancelFrame
<1>8. ASSUME TimeoutRun \/ MergeCancel \/ StopHub \/ RecoveryStep
      PROVE  RecordedInv'
  <2>1. (ctxDone => ctxDone') /\ (row' = row \/ row'.status # "completed")
    <3>1. CASE TimeoutRun \/ MergeCancel \/ StopHub
      BY <3>1 DEF TimeoutRun, MergeCancel, EndContext, StopHub
    <3>2. CASE RecoverDeployment
      BY <1>0, <3>2 DEF RecoverDeployment, RecoverIf, DeploymentRow
    <3>3. CASE StartHub \/ ServeHub \/ \E i \in Instance : RecoverInstance(i)
      BY <3>3 DEF StartHub, ServeHub, RecoverInstance
    <3>. QED
      BY <1>8, <3>1, <3>2, <3>3 DEF RecoveryStep
  <2>. QED
    BY <1>8, <2>1, ProcessFrame
<1>9. ASSUME EndHub
      PROVE  RecordedInv'
  BY <1>9 DEF EndHub
<1>10. ASSUME UNCHANGED <<dep, runner, row, recorded, worker, ctxDone>>
      PROVE  RecordedInv'
  BY <1>10
<1>. QED
  BY <1>1, <1>2, <1>3, <1>4, <1>5, <1>6, <1>7, <1>8, <1>9, <1>10, PersistFrame,
     HandlerFrame, AgentFrame
     DEF Next, RunnerStep, vars

-----------------------------------------------------------------------------
\* Opened only grows with batch.
LEMMA OpenedGrows ==
  ASSUME TypeOK, batch' \in Nat, batch <= batch', UNCHANGED dep
  PROVE  Opened \subseteq Opened'
BY DEF Opened, TypeOK, On

\* No step closes a batch again.
LEMMA BatchGrows ==
  ASSUME IInv, [Next]_vars
  PROVE  Opened \subseteq Opened'
<1>0. batch \in Nat
  BY DEF IInv, TypeOK
<1>1. UNCHANGED dep /\ (batch' = batch \/ batch' = batch + 1)
  <2>1. CASE RunnerStep
    BY <2>1, RunnerFrame
       DEF RunnerStep, LoadRunner, RegisterRunner, StartRun, OpenBatch, CloseBatch,
           EndPause, StartRollback, FinishRollback, CheckResults, SaveVerdict,
           UnregisterRunner, RollbackInstance, runVars
  <2>2. CASE CreateDeployment \/ EndHub
    BY <2>2 DEF CreateDeployment, EndHub, hubVars
  <2>. QED
    BY <2>1, <2>2, Others
<1>. QED
  BY <1>0, <1>1, OpenedGrows DEF IInv

\* Events, reports and results concern only opened batches.
LEMMA ReachedStep == ASSUME IInv, [Next]_vars PROVE Reached'
<1> USE DEF Reached, hubVars, rowVars, runVars, ctxVars, apiVars, linkVars
<1>0. TypeOK /\ Reached /\ WorkersInv /\ Opened \subseteq Opened'
  BY BatchGrows DEF IInv, ReachInv
<1>1. ASSUME UNCHANGED <<inbox, busy, call, result, toRollback, rolledBack>>
      PROVE  Reached'
  BY <1>0, <1>1
<1>2. ASSUME CreateDeployment \/ EndHub
      PROVE  Reached'
  <2>1. UNCHANGED <<busy, rolledBack>> /\ (toRollback' = toRollback \/ toRollback' = {})
    BY <1>2 DEF CreateDeployment, EndHub
  <2>2. \/ UNCHANGED <<inbox, call, result>>
        \/ /\ inbox' = [i \in Instance |-> 0]
           /\ call' = [h \in Handler |-> NoCall]
           /\ result' = [i \in Instance |-> "absent"]
    BY <1>2 DEF CreateDeployment, EndHub
  <2>. QED
    BY <1>0, <2>1, <2>2
<1>3. ASSUME RunnerStep
      PROVE  Reached'
  <2>1. UNCHANGED <<inbox, busy, call>>
    BY <1>3, RunnerFrame
  <2>2. \A i \in Instance : result'[i] = "completed" => result[i] = "completed"
    BY <1>3
       DEF RunnerStep, LoadRunner, RegisterRunner, StartRun, OpenBatch, CloseBatch,
           EndPause, StartRollback, FinishRollback, CheckResults, SaveVerdict,
           UnregisterRunner, RollbackInstance
  <2>3. toRollback' \subseteq toRollback \cup Deployed
    BY <1>3
       DEF RunnerStep, LoadRunner, RegisterRunner, StartRun, OpenBatch, CloseBatch,
           EndPause, StartRollback, FinishRollback, CheckResults, SaveVerdict,
           UnregisterRunner, RollbackInstance
  <2>4. rolledBack' \subseteq rolledBack \cup toRollback
    BY <1>3
       DEF RunnerStep, LoadRunner, RegisterRunner, StartRun, OpenBatch, CloseBatch,
           EndPause, StartRollback, FinishRollback, CheckResults, SaveVerdict,
           UnregisterRunner, RollbackInstance
  <2>. QED
    BY <1>0, <2>1, <2>2, <2>3, <2>4 DEF Deployed
<1>4. ASSUME NEW p \in Position, WorkerStep(p)
      PROVE  Reached'
  <2>1. UNCHANGED <<busy, call, toRollback, rolledBack>>
    BY <1>4, WorkerFrame
  <2>2. On(p) \in Opened
    BY <1>0, <1>4, WorkersAreTargets
       DEF WorkerStep, BeginInstance, NotifyInstance, ObserveSuccess, GiveUp,
           MarkCompleted, RecordInstance, ReturnError
  <2>3. \A i \in Instance : i = On(p) \/ (inbox'[i] = inbox[i] /\ result'[i] = result[i])
    BY <1>0, <1>4
       DEF WorkerStep, BeginInstance, NotifyInstance, ObserveSuccess, GiveUp,
           MarkCompleted, RecordInstance, ReturnError, FailInstance, TypeOK
  <2>. QED
    BY <1>0, <2>1, <2>2, <2>3
<1>5. ASSUME NEW h \in Handler, HandlerStep(h)
      PROVE  Reached'
  <2>1. UNCHANGED <<inbox, busy, toRollback, rolledBack>>
    BY <1>5, HandlerFrame
  <2>4. call[h] \in [phase: {"lookup", "found"}, inst: Instance, state: ResultState]
    <3>1. call[h].phase \in {"lookup", "found"}
      BY <1>5 DEF HandlerStep, LookupRunner, ApplyReport
    <3>2. call[h] # NoCall
      BY <3>1 DEF NoCall
    <3>. QED
      BY <1>0, <3>2 DEF TypeOK, Call
  <2>5. call'[h].inst = call[h].inst \/ call'[h] = NoCall
    <3>1. \/ call' = [call EXCEPT ![h] = NoCall]
          \/ call' = [call EXCEPT ![h] = [call[h] EXCEPT !.phase = "found"]]
      BY <1>5 DEF HandlerStep, LookupRunner, ApplyReport
    <3>. QED
      BY <1>0, <2>4, <3>1 DEF TypeOK
  <2>6. \A g \in Handler \ {h} : call'[g] = call[g]
    BY <1>0, <1>5 DEF HandlerStep, LookupRunner, ApplyReport, TypeOK
  <2>7. call[h] # NoCall
    BY <2>4 DEF NoCall
  <2>2. \A g \in Handler : call'[g] # NoCall => call'[g].inst = call[g].inst /\ call[g] # NoCall
    BY <2>5, <2>6, <2>7
  <2>3. \A i \in Instance : result'[i] = result[i] \/ i = call[h].inst
    BY <1>0, <1>5 DEF HandlerStep, LookupRunner, ApplyReport, TypeOK
  <2>. QED
    BY <1>0, <2>1, <2>2, <2>3, <2>7
<1>6. ASSUME NEW i \in Instance, AgentStep(i)
      PROVE  Reached'
  <2>1. UNCHANGED <<result, toRollback, rolledBack>>
    BY <1>6, AgentFrame
  <2>2. \A j \in Instance : inbox'[j] > 0 => inbox[j] > 0
    BY <1>0, <1>6 DEF AgentStep, AgentAccept, AgentFinish, LoseEvents, TypeOK
  <2>3. busy' \subseteq Opened
    BY <1>0, <1>6 DEF AgentStep, AgentAccept, AgentFinish, LoseEvents
  <2>4. CASE LoseEvents(i)
    BY <1>0, <2>1, <2>2, <2>3, <2>4 DEF LoseEvents
  <2>5. CASE AgentAccept(i) \/ AgentFinish(i)
    <3>1. i \in Opened /\ \E s \in {"in_progress", "completed", "failed"} : Report(i, s)
      BY <1>0, <2>5 DEF AgentAccept, AgentFinish
    <3>2. \A g \in Handler : call'[g] = call[g] \/ call'[g].inst = i
      BY <1>0, <3>1 DEF Report, TypeOK
    <3>. QED
      BY <1>0, <2>1, <2>2, <2>3, <3>1, <3>2
  <2>. QED
    BY <1>6, <2>4, <2>5 DEF AgentStep
<1>. QED
  BY <1>1, <1>2, <1>3, <1>4, <1>5, <1>6, PersistFrame, CancelFrame, ProcessFrame
     DEF Next, vars

\* Once an instance was rolled back, Run can only fail.
LEMMA JudgedStep == ASSUME IInv, [Next]_vars PROVE Judged'
<1> USE DEF IInv, ReachInv, Judged, hubVars, rowVars, runVars, ctxVars
<1>0. row \in DeploymentRow /\ mem \in DeploymentRow
  BY DEF TypeOK
<1>1. ASSUME RunnerStep
      PROVE  Judged'
  <2>1. ASSUME NEW i \in Instance, RollbackInstance(i)
        PROVE  Judged'
    BY <2>1 DEF RollbackInstance, StatusInv, InRun, Alive, Open
  <2>2. CASE FinishRollback
    BY <1>0, <2>2 DEF FinishRollback, Conclude, DeploymentRow
  <2>3. CASE SaveVerdict
    BY <2>3 DEF SaveVerdict, SaveDeployment
  <2>4. CASE UnregisterRunner
    BY <2>4 DEF UnregisterRunner
  <2>5. CASE \/ LoadRunner \/ RegisterRunner \/ StartRun \/ OpenBatch \/ CloseBatch
             \/ EndPause \/ StartRollback \/ CheckResults
    BY <2>5
       DEF LoadRunner, RegisterRunner, StartRun, OpenBatch, CloseBatch, EndPause,
           StartRollback, CheckResults
  <2>. QED
    BY <1>1, <2>1, <2>2, <2>3, <2>4, <2>5 DEF RunnerStep
<1>2. ASSUME CreateDeployment
      PROVE  Judged'
  BY <1>2 DEF CreateDeployment, StatusInv
<1>3. ASSUME CancelStep
      PROVE  Judged'
  <2>1. row' = row \/ row'.status # "completed"
    <3>1. CASE CancelWrite
      <4>1. canceller.row \in DeploymentRow
        BY <3>1 DEF CancelWrite, TypeOK, Canceller, NoCancel
      <4>. QED
        BY <3>1, <4>1 DEF CancelWrite, DeploymentRow
    <3>2. CASE CancelRunner \/ CancelRead \/ CancelAborted
      BY <3>2 DEF CancelRunner, CancelRead, CancelAborted
    <3>. QED
      BY <1>3, <3>1, <3>2 DEF CancelStep
  <2>. QED
    BY <1>3, <2>1, CancelFrame
<1>4. ASSUME TimeoutRun \/ MergeCancel \/ StopHub \/ RecoveryStep
      PROVE  Judged'
  <2>1. row' = row \/ row'.status # "completed"
    BY <1>0, <1>4
       DEF TimeoutRun, MergeCancel, EndContext, StopHub, RecoveryStep, StartHub,
           RecoverDeployment, RecoverIf, ServeHub, RecoverInstance, DeploymentRow
  <2>. QED
    BY <1>4, <2>1, ProcessFrame
<1>5. ASSUME EndHub
      PROVE  Judged'
  BY <1>5 DEF EndHub
<1>6. ASSUME UNCHANGED <<runner, mem, row, rolledBack>>
      PROVE  Judged'
  BY <1>6
<1>. QED
  BY <1>1, <1>2, <1>3, <1>4, <1>5, <1>6, WorkerFrame, PersistFrame, HandlerFrame,
     AgentFrame
     DEF Next, vars

-----------------------------------------------------------------------------
\* A restart finds nothing of the time before at work.
LEMMA RestartStep == ASSUME IInv, [Next]_vars PROVE RestartInv'
<1> USE DEF hubVars, rowVars, runVars, ctxVars, apiVars, linkVars
<1>0. /\ RestartInv /\ row \in DeploymentRow /\ mem \in DeploymentRow /\ crashes \in Nat
      /\ Alive => Serving
      /\ runner = "none" <=> row.status = "none"
      /\ job \in [Thread -> Job] /\ call \in [Handler -> Call]
      /\ inst \in [Instance -> {"absent"} \cup ResultState]
  BY DEF IInv, TypeOK, HubInv, StatusInv
<1>1. ASSUME CreateDeployment
      PROVE  RestartInv'
  <2>1. ~row.restart
    BY <1>0, <1>1 DEF CreateDeployment, RestartInv
  <2>. QED
    BY <1>0, <1>1, <2>1 DEF CreateDeployment, RestartInv, Quiet, Serving
<1>2. ASSUME RunnerStep
      PROVE  RestartInv'
  <2>1. Alive
    BY <1>2
       DEF RunnerStep, LoadRunner, RegisterRunner, StartRun, OpenBatch, CloseBatch,
           EndPause, StartRollback, FinishRollback, CheckResults, SaveVerdict,
           UnregisterRunner, RollbackInstance, Alive
  <2>2. ~row.restart /\ Serving
    BY <1>0, <2>1 DEF RestartInv, Alive
  <2>3. /\ row'.restart = row.restart \/ row'.restart = mem'.restart
        /\ mem'.restart = FALSE
    BY <1>0, <1>2, <2>2
       DEF RunnerStep, LoadRunner, RegisterRunner, StartRun, OpenBatch, CloseBatch,
           EndPause, StartRollback, FinishRollback, CheckResults, SaveVerdict,
           UnregisterRunner, RollbackInstance, SaveDeployment, Conclude,
           DeploymentRow, RestartInv
  <2>4. UNCHANGED <<hub, crashes, fixing, job, call, canceller>>
    BY <1>2, RunnerFrame
  <2>. QED
    BY <1>0, <2>2, <2>3, <2>4 DEF RestartInv, Quiet, Serving, DeploymentRow
<1>3. ASSUME NEW p \in Position, WorkerStep(p)
      PROVE  RestartInv'
  <2>1. Serving /\ runner = "batch"
    BY <1>3 DEF WorkerStep, BeginInstance, NotifyInstance, ObserveSuccess, GiveUp,
                MarkCompleted, RecordInstance, ReturnError, Working
  <2>2. ~row.restart
    BY <1>0, <2>1 DEF RestartInv
  <2>. QED
    BY <1>0, <1>3, <2>1, <2>2, WorkerFrame DEF RestartInv, Serving
<1>4. ASSUME NEW t \in Thread, PersistStep(t)
      PROVE  RestartInv'
  <2>1. Serving /\ job[t] # NoJob
    BY <1>4 DEF PersistStep, Copy, Upsert, NoJob
  <2>2. ~row.restart
    BY <1>0, <2>1 DEF RestartInv, Quiet
  <2>. QED
    BY <1>0, <1>4, <2>1, <2>2, PersistFrame DEF RestartInv, Serving
<1>5. ASSUME NEW h \in Handler, HandlerStep(h)
      PROVE  RestartInv'
  <2>1. Serving
    BY <1>5 DEF HandlerStep, LookupRunner, ApplyReport
  <2>2. CASE ~row.restart
    BY <1>0, <1>5, <2>1, <2>2, HandlerFrame DEF RestartInv, Serving
  <2>3. CASE row.restart
    <3>1. LookupRunner(h) /\ ~Registered
      BY <1>0, <1>5, <2>3
         DEF HandlerStep, ApplyReport, RestartInv, Quiet, Registered, Alive
    <3>2. job' = job /\ call' = [call EXCEPT ![h] = NoCall]
      BY <3>1 DEF LookupRunner
    <3>3. Quiet'
      BY <1>0, <2>3, <3>2 DEF RestartInv, Quiet, NoCall
    <3>. QED
      BY <1>0, <1>5, <2>1, <3>3, HandlerFrame DEF RestartInv, Serving, Unfinished
  <2>. QED
    BY <2>2, <2>3
<1>6. ASSUME NEW i \in Instance, AgentStep(i)
      PROVE  RestartInv'
  <2>1. /\ job' = job
        /\ call' = call \/ (Serving /\ \A h \in Handler : call'[h] = call[h] \/ call'[h].phase = "lookup")
    BY <1>0, <1>6 DEF AgentStep, AgentAccept, AgentFinish, LoseEvents, Report
  <2>2. Quiet => Quiet'
    BY <2>1 DEF Quiet
  <2>. QED
    BY <1>0, <1>6, <2>1, <2>2, AgentFrame DEF RestartInv, Serving, Unfinished
<1>7. ASSUME CancelStep
      PROVE  RestartInv'
  <2>1. UNCHANGED <<hub, crashes, fixing, inst, runner, mem, call, job>>
    BY <1>7, CancelFrame
  <2>2. CASE CancelWrite
    <3>1. row' = [canceller.row EXCEPT !.status = "cancelled"] /\ canceller' = NoCancel
      BY <2>2 DEF CancelWrite
    <3>2. row'.restart = FALSE
      <4>1. canceller.phase = "write" /\ canceller.row \in DeploymentRow
        BY <2>2 DEF CancelWrite, IInv, TypeOK, Canceller, NoCancel
      <4>. QED
        BY <1>0, <3>1, <4>1 DEF RestartInv, DeploymentRow
    <3>. QED
      BY <1>0, <2>1, <3>1, <3>2 DEF RestartInv, Serving, Quiet, NoCancel
  <2>3. CASE ~CancelWrite
    <3>1. row' = row
      BY <1>7, <2>3 DEF CancelStep, CancelRunner, CancelRead, CancelAborted
    <3>2. canceller'.phase = "write" => canceller'.row.restart = FALSE
      BY <1>0, <1>7, <2>3
         DEF CancelStep, CancelRunner, CancelRead, CancelAborted, RestartInv,
             NoCancel, DeploymentRow
    <3>. QED
      BY <1>0, <2>1, <3>1, <3>2 DEF RestartInv, Serving, Quiet, Unfinished
  <2>. QED
    BY <2>2, <2>3
<1>8. ASSUME TimeoutRun \/ MergeCancel
      PROVE  RestartInv'
  BY <1>0, <1>8
     DEF TimeoutRun, MergeCancel, EndContext, RestartInv, Serving, Quiet, Unfinished
<1>9. ASSUME StopHub
      PROVE  RestartInv'
  BY <1>0, <1>9 DEF StopHub, RestartInv, Serving, Quiet, Unfinished
<1>10. ASSUME EndHub
      PROVE  RestartInv'
  <2>1. Quiet'
    BY <1>10 DEF EndHub, Quiet, NoCall
  <2>2. /\ crashes' = crashes + 1 /\ hub' = "down" /\ UNCHANGED <<row, mem, inst>>
        /\ runner \in {"gone", "dead"} => runner' \in {"gone", "dead"}
        /\ canceller'.phase # "write"
    BY <1>10 DEF EndHub, NoCancel
  <2>. QED
    BY <1>0, <2>1, <2>2 DEF RestartInv, Serving
<1>11. ASSUME RecoveryStep
      PROVE  RestartInv'
  <2>0. UNCHANGED <<crashes, runner, mem, call, canceller, job>>
    BY <1>11, ProcessFrame
  <2>1. CASE StartHub
    BY <1>0, <2>0, <2>1 DEF StartHub, RestartInv, Serving, Quiet, Unfinished
  <2>2. CASE RecoverDeployment
    <3>1. /\ hub = "recovering" /\ hub' = "fixing" /\ inst' = inst /\ Quiet'
      BY <1>0, <2>0, <2>2 DEF RecoverDeployment, RecoverIf, RestartInv, Serving, Quiet
    <3>2. CASE row.status \in Open
      <4>1. /\ row'.restart = TRUE /\ row'.status \notin Open /\ fixing' = Unfinished
        BY <1>0, <2>2, <3>2 DEF RecoverDeployment, RecoverIf, DeploymentRow, Open
      <4>2. runner \in {"gone", "dead"}
        BY <1>0, <3>1, <3>2 DEF Alive, Serving, Open
      <4>. QED
        BY <1>0, <2>0, <3>1, <4>1, <4>2 DEF RestartInv, Serving, Unfinished
    <3>3. CASE row.status \notin Open
      <4>1. UNCHANGED <<row, fixing>>
        BY <2>2, <3>3 DEF RecoverDeployment, RecoverIf
      <4>. QED
        BY <1>0, <2>0, <3>1, <4>1 DEF RestartInv, Serving
    <3>. QED
      BY <3>2, <3>3
  <2>3. CASE ServeHub
    BY <1>0, <2>0, <2>3 DEF ServeHub, RestartInv, Serving, Quiet, Unfinished
  <2>4. ASSUME NEW i \in Instance, RecoverInstance(i)
        PROVE  RestartInv'
    <3>1. /\ UNCHANGED <<hub, row>> /\ hub = "fixing" /\ fixing' = fixing \ {i}
          /\ inst' = [inst EXCEPT ![i] = "failed"]
      BY <2>4 DEF RecoverInstance
    <3>2. Unfinished' \subseteq Unfinished \ {i}
      BY <1>0, <3>1 DEF Unfinished, Open
    <3>. QED
      BY <1>0, <2>0, <3>1, <3>2 DEF RestartInv, Serving, Quiet
  <2>. QED
    BY <1>11, <2>1, <2>2, <2>3, <2>4 DEF RecoveryStep
<1>12. ASSUME UNCHANGED vars
      PROVE  RestartInv'
  BY <1>0, <1>12 DEF vars, RestartInv, Serving, Quiet, Unfinished
<1>. QED
  BY <1>1, <1>2, <1>3, <1>4, <1>5, <1>6, <1>7, <1>8, <1>9, <1>10, <1>11, <1>12 DEF Next

-----------------------------------------------------------------------------
\* The fresh hub: no deployment, no goroutine.
LEMMA InitInv == Init => IInv
<1> SUFFICES ASSUME Init PROVE IInv
  OBVIOUS
<1> USE DEF Init
<1>1. TypeOK
  <2>1. row \in DeploymentRow /\ mem \in DeploymentRow
    BY DEF DeploymentRow
  <2>2. job \in [Thread -> Job] /\ call \in [Handler -> Call] /\ canceller \in Canceller
    BY DEF Job, Call, Canceller
  <2>. QED
    BY <2>1, <2>2 DEF TypeOK, RunnerState, WorkerState
<1>2. PlanInv
  BY <1>1, DepFacts, BatchCountType DEF PlanInv, TypeOK, Unborn
<1>3. WorkersInv
  BY DEF WorkersInv, Started, EarlierDone, JudgedDone
<1>4. StatusInv
  BY DEF StatusInv, InRun, Alive
<1>5. HubInv
  BY DEF HubInv, NoOrphan, Alive, Open
<1>6. RecordedInv
  BY DEF RecordedInv, CompletedIsRecorded, Alive
<1>7. ReachInv
  BY DEF ReachInv, Reached, Judged
<1>8. RestartInv
  BY DEF RestartInv, Quiet, Serving, NoCall, NoCancel
<1>. QED
  BY <1>1, <1>2, <1>3, <1>4, <1>5, <1>6, <1>7, <1>8 DEF IInv

\* IInv is inductive: it holds of a fresh hub and no step of any goroutine,
\* handler, agent or process breaks it.
THEOREM Inductive == IInv /\ [Next]_vars => IInv'
BY TypeStep, PlanStep, WorkersStep, StatusStep, HubStep, RecordedStep, ReachedStep,
   JudgedStep, RestartStep
   DEF IInv, ReachInv

\* IInv holds in every state the hub can reach.
THEOREM Invariance == Spec => []IInv
BY InitInv, Inductive, PTL DEF Spec

\* The rows and the goroutines' copies keep their types (TypeOK).
THEOREM TypesHold == Spec => []TypeOK
<1>1. IInv => TypeOK
  BY DEF IInv
<1>. QED
  BY <1>1, Invariance, PTL

\* runRolling and runCanary touch no instance of a batch before every instance
\* of each earlier batch has been deployed successfully.
THEOREM BatchesInOrder == Spec => []BatchOrder
<1>1. IInv => BatchOrder
  <2> SUFFICES ASSUME IInv,
                      NEW j \in 1..BatchCount(dep), NEW k \in 1..BatchCount(dep), j < k,
                      NEW p \in Batch(dep, j), NEW q \in Batch(dep, k), worker[q] # "idle"
               PROVE  worker[p] = "ok"
    BY DEF BatchOrder
  <2>1. TypeOK /\ Started /\ EarlierDone /\ BatchCount(dep) \in Nat
    BY BatchFacts DEF IInv, WorkersInv
  <2>2. PICK l \in 1..batch : q \in Batch(dep, l)
    BY <2>1, BatchFacts DEF Started
  <2>3. batch \in Nat /\ batch <= BatchCount(dep)
    BY DEF IInv, TypeOK, PlanInv
  <2>4. l = k
    <3>1. l \in 1..BatchCount(dep)
      BY <2>2, <2>3, <2>1
    <3>2. ~(l < k) /\ ~(k < l)
      BY <2>1, <2>2, <3>1, BatchFacts
    <3>. QED
      BY <2>1, <3>1, <3>2
  <2>. QED
    BY <2>1, <2>3, <2>4 DEF EarlierDone
<1>. QED
  BY <1>1, Invariance, PTL

\* A deployment is stored as completed only after its version reached the row
\* of every target: the write that completes it and the writes of the workers
\* share one context, so none of them can have failed.
THEOREM CompletedRecorded == Spec => []CompletedIsRecorded
<1>1. IInv => CompletedIsRecorded
  BY DEF IInv, RecordedInv
<1>. QED
  BY <1>1, Invariance, PTL

\* A served deployment that is not over has a goroutine, or had one whose
\* context ended: crashes and error paths leave no other orphan.
THEOREM NoOrphans == Spec => []NoOrphan
<1>1. IInv => NoOrphan
  BY DEF IInv, HubInv
<1>. QED
  BY <1>1, Invariance, PTL

\* rollbackDeployedInstances reaches only opened batches, and no deployment
\* that rolled an instance back is stored as completed.
THEOREM RollbackContained == Spec => []RollbackIsContained
<1>1. IInv => RollbackIsContained
  BY DEF IInv, ReachInv, Reached, Judged, RollbackIsContained
<1>. QED
  BY <1>1, Invariance, PTL

-----------------------------------------------------------------------------
\* How a step can change the status in the row: the goroutine writes its own
\* while it is alive and its context lasts, recovery fails what is not over,
\* CancelDeployment cancels, CreateDeployment creates.
LEMMA StatusWrites ==
  ASSUME IInv, [Next]_vars
  PROVE  \/ row'.status = row.status
         \/ row.status = "none"
         \/ row'.status = "cancelled"
         \/ row.status \in Open /\ row'.status = "failed"
         \/ Alive /\ runner # "ended" /\ ~ctxDone
<1> USE DEF hubVars, rowVars, runVars
<1>0. row \in DeploymentRow
  BY DEF IInv, TypeOK
<1>1. CASE RunnerStep
  BY <1>1
     DEF RunnerStep, LoadRunner, RegisterRunner, StartRun, OpenBatch, CloseBatch,
         EndPause, StartRollback, FinishRollback, CheckResults, SaveVerdict,
         UnregisterRunner, RollbackInstance, SaveDeployment, Alive
<1>2. CASE CreateDeployment
  BY <1>2 DEF CreateDeployment
<1>3. CASE CancelStep
  <2>1. CASE CancelWrite
    <3>1. canceller.row \in DeploymentRow
      BY <2>1 DEF CancelWrite, IInv, TypeOK, Canceller, NoCancel
    <3>. QED
      BY <2>1, <3>1 DEF CancelWrite, DeploymentRow
  <2>2. CASE CancelRunner \/ CancelRead \/ CancelAborted
    BY <2>2 DEF CancelRunner, CancelRead, CancelAborted
  <2>. QED
    BY <1>3, <2>1, <2>2 DEF CancelStep
<1>4. CASE TimeoutRun \/ MergeCancel \/ StopHub \/ RecoveryStep
  BY <1>0, <1>4
     DEF TimeoutRun, MergeCancel, EndContext, StopHub, RecoveryStep, StartHub,
         RecoverDeployment, RecoverIf, ServeHub, RecoverInstance, DeploymentRow
<1>5. CASE EndHub \/ UNCHANGED row
  BY <1>5 DEF EndHub
<1>. QED
  BY <1>1, <1>2, <1>3, <1>4, <1>5, WorkerFrame, PersistFrame, HandlerFrame, AgentFrame
     DEF Next, vars

\* A stored verdict is final for everyone but CancelDeployment: the goroutine
\* that stored it writes no more, and recovery passes it over.  A cancelled row is
\* reopened only by a live goroutine with a live context.
THEOREM VerdictsAreFinal == Spec => FinalStatusStays
<1>1. IInv /\ [Next]_vars =>
        [/\ row.status \in {"completed", "failed"} =>
              row'.status \in {row.status, "cancelled"}
         /\ row.status = "cancelled" /\ row'.status # "cancelled" =>
              Alive /\ ~ctxDone]_vars
  BY StatusWrites DEF IInv, StatusInv, Open
<1>. QED
  BY <1>1, Invariance, PTL DEF Spec, FinalStatusStays

\* Recovery leaves no unfinished instance row, unless the process ends again.
THEOREM RecoveryFinishes == Spec => []RecoveryIsWhole
<1>1. IInv => RecoveryIsWhole
  BY DEF IInv, RestartInv, RecoveryIsWhole, Unfinished
<1>. QED
  BY Invariance, <1>1, PTL

-----------------------------------------------------------------------------
\* The runner implements StagedRollout.

\* Both modules cut the target list in the same way.
LEMMA SamePlan ==
  /\ \A d, k : Rollout!Batch(d, k) = Batch(d, k)
  /\ \A d : Rollout!BatchCount(d) = BatchCount(d) /\ Rollout!Size(d) = Size(d)
BY DEF Rollout!Batch, Batch, Rollout!BatchCount, BatchCount, Rollout!Size, Size,
       Rollout!Mode, Mode, Rollout!BatchSize, BatchSize, Rollout!CanarySize,
       CanarySize, Rollout!BatchesFor, BatchesFor, Rollout!Slice, Slice

\* A fresh deployment is a rollout that has not begun.
LEMMA RolloutInit == Init => Rollout!Init
BY DEF Init, Rollout!Init, Stage, Verdict

\* Opening a batch is OpenNextBatch, the end of a worker is Settle, the end of
\* Run is Complete when every worker succeeded and Abort otherwise.
LEMMA RolloutStep == ASSUME IInv, [Next]_vars PROVE [Rollout!Next]_(Rollout!vars)
<1> USE DEF hubVars, runVars
<1>0. /\ TypeOK /\ PlanInv /\ WorkersInv /\ StatusInv
      /\ worker \in [Position -> WorkerState] /\ mem \in DeploymentRow /\ batch \in Nat
  BY DEF IInv, TypeOK
<1>1. ASSUME UNCHANGED <<dep, batch>>,
                         [p \in Position |-> Stage(p)]' = [p \in Position |-> Stage(p)],
             Verdict' = Verdict
      PROVE  [Rollout!Next]_(Rollout!vars)
  BY <1>1 DEF Rollout!vars
<1>2. ASSUME UNCHANGED <<dep, batch, worker>>, Verdict = "running", Verdict' = "aborted"
      PROVE  [Rollout!Next]_(Rollout!vars)
  BY <1>2 DEF Rollout!Next, Rollout!Abort, Stage
<1>3. ASSUME UNCHANGED <<dep, batch, worker>>, Verdict' = Verdict
      PROVE  [Rollout!Next]_(Rollout!vars)
  BY <1>1, <1>3 DEF Stage
<1>4. ASSUME OpenBatch, runner' = "batch"
      PROVE  [Rollout!Next]_(Rollout!vars)
  <2>1. /\ runner = "next" /\ batch < BatchCount(dep) /\ dep' = dep /\ batch' = batch + 1
        /\ worker' = [p \in Position |->
                        IF p \in Batch(dep, batch + 1) THEN "begin" ELSE worker[p]]
    BY <1>0, <1>4 DEF OpenBatch, PlanInv, Conclude
  <2>2. \A k \in 1..batch : \A p \in Batch(dep, k) : p \in Position /\ worker[p] = "ok"
    BY <1>0, <2>1, BatchFacts DEF WorkersInv, EarlierDone
  <2>3. [p \in Position |-> Stage(p)]' =
          [p \in Position |-> IF p \in Batch(dep, batch + 1) THEN "deploying" ELSE Stage(p)]
    BY <2>1 DEF Stage
  <2>. QED
    BY <1>4, <2>1, <2>2, <2>3, SamePlan
       DEF Rollout!Next, Rollout!OpenNextBatch, Rollout!Succeeded, Stage, Verdict
<1>5. ASSUME SaveVerdict
      PROVE  [Rollout!Next]_(Rollout!vars)
  <2>1. /\ runner = "verdict" /\ runner' = "ended" /\ UNCHANGED <<dep, batch, worker, mem>>
    BY <1>5 DEF SaveVerdict, SaveDeployment
  <2>2. CASE mem.status = "completed"
    <3>1. \A p \in 1..Size(dep) : p \in Position /\ worker[p] = "ok"
      BY <1>0, <2>2, DepFacts DEF WorkersInv, JudgedDone, TypeOK
    <3>. QED
      BY <2>1, <2>2, <3>1, SamePlan DEF Rollout!Next, Rollout!Complete, Stage, Verdict
  <2>3. CASE mem.status # "completed"
    BY <1>2, <2>1, <2>3 DEF Verdict
  <2>. QED
    BY <2>2, <2>3
<1>6. ASSUME RunnerStep, ~OpenBatch \/ runner' # "batch", ~SaveVerdict
      PROVE  [Rollout!Next]_(Rollout!vars)
  <2>1. UNCHANGED <<dep, batch, worker>>
    BY <1>6
       DEF RunnerStep, LoadRunner, RegisterRunner, StartRun, OpenBatch, CloseBatch,
           EndPause, StartRollback, FinishRollback, CheckResults, UnregisterRunner,
           RollbackInstance
  <2>2. CASE LoadRunner
    BY <1>0, <1>2, <1>3, <2>1, <2>2 DEF LoadRunner, Verdict, StatusInv
  <2>3. CASE StartRun
    <3>1. mem'.status = "in_progress" /\ runner = "registered" /\ runner' \in {"ended", "next"}
      BY <1>0, <2>3 DEF StartRun, SaveDeployment, DeploymentRow
    <3>. QED
      BY <1>2, <1>3, <2>1, <3>1 DEF Verdict
  <2>4. CASE UnregisterRunner
    BY <1>3, <2>1, <2>4 DEF UnregisterRunner, Verdict
  <2>5. CASE \/ RegisterRunner \/ OpenBatch \/ CloseBatch \/ EndPause \/ StartRollback
             \/ FinishRollback \/ CheckResults \/ \E i \in Instance : RollbackInstance(i)
    <3>1. {runner, runner'} \cap {"ended", "gone", "dead"} = {}
      BY <1>6, <2>5
         DEF RegisterRunner, OpenBatch, CloseBatch, EndPause, StartRollback,
             FinishRollback, CheckResults, RollbackInstance, Conclude
    <3>. QED
      BY <1>3, <2>1, <3>1 DEF Verdict
  <2>. QED
    BY <1>6, <2>2, <2>3, <2>4, <2>5 DEF RunnerStep
<1>7. ASSUME NEW p \in Position, WorkerStep(p)
      PROVE  [Rollout!Next]_(Rollout!vars)
  <2>1. UNCHANGED <<dep, batch, runner, mem>> /\ runner = "batch"
    BY <1>7, WorkerFrame
       DEF WorkerStep, BeginInstance, NotifyInstance, ObserveSuccess, GiveUp,
           MarkCompleted, RecordInstance, ReturnError, Working
  <2>2. PICK s \in WorkerState \ {"idle"} :
          worker' = [worker EXCEPT ![p] = s] /\ worker[p] \notin {"idle", "ok", "err"}
    BY <1>7
       DEF WorkerStep, BeginInstance, NotifyInstance, ObserveSuccess, GiveUp,
           MarkCompleted, RecordInstance, ReturnError, FailInstance, WorkerState
  <2>3. CASE s \in {"ok", "err"}
    <3>1. [q \in Position |-> Stage(q)]' = [[q \in Position |-> Stage(q)] EXCEPT ![p] = s]
      BY <1>0, <2>2, <2>3 DEF Stage
    <3>2. Stage(p) = "deploying"
      BY <2>2 DEF Stage
    <3>. QED
      BY <2>1, <2>3, <3>1, <3>2 DEF Rollout!Next, Rollout!Settle, Verdict
  <2>4. CASE s \notin {"ok", "err"}
    <3>1. [q \in Position |-> Stage(q)]' = [q \in Position |-> Stage(q)]
      BY <1>0, <2>2, <2>4 DEF Stage
    <3>. QED
      BY <1>1, <2>1, <3>1 DEF Verdict
  <2>. QED
    BY <2>3, <2>4
<1>8. ASSUME EndHub
      PROVE  [Rollout!Next]_(Rollout!vars)
  <2>1. UNCHANGED <<dep, batch, worker, mem>>
    BY <1>8 DEF EndHub
  <2>2. (Verdict = "running" /\ Verdict' = "aborted") \/ Verdict' = Verdict
    BY <1>8, <2>1 DEF EndHub, Verdict
  <2>. QED
    BY <1>2, <1>3, <2>1, <2>2
<1>9. ASSUME CreateDeployment
      PROVE  [Rollout!Next]_(Rollout!vars)
  <2>1. UNCHANGED <<dep, batch, worker, mem>> /\ runner = "none" /\ runner' = "spawned"
    BY <1>0, <1>9 DEF CreateDeployment, StatusInv
  <2>. QED
    BY <1>3, <2>1 DEF Verdict
<1>10. ASSUME UNCHANGED <<dep, batch, worker, runner, mem>>
      PROVE  [Rollout!Next]_(Rollout!vars)
  BY <1>3, <1>10 DEF Verdict
<1>. QED
  BY <1>4, <1>5, <1>6, <1>7, <1>8, <1>9, <1>10, PersistFrame, HandlerFrame,
     AgentFrame, CancelFrame, ProcessFrame
     DEF Next, vars

\* Every behaviour of the hub, with its crashes, cancellations, timeouts and
\* late reports, is a staged rollout.
THEOREM RunnerImplementsRollout == Spec => ImplementsRollout
BY RolloutInit, RolloutStep, Invariance, PTL DEF Spec, ImplementsRollout, Rollout!Spec

-----------------------------------------------------------------------------
\* The goroutine only goes forward.

\* A place is a number, and the end is beyond all others.
LEMMA PlaceBounded ==
  ASSUME IInv
  PROVE  /\ BatchCount(dep) \in Nat
         /\ runner \in {"gone", "dead"} => Place = 3 * BatchCount(dep) + 9
         /\ runner \notin {"gone", "dead"} => Place \in 0..(3 * BatchCount(dep) + 8)
<1>1. /\ BatchCount(dep) \in Nat \ {0} /\ batch \in Nat /\ batch <= BatchCount(dep)
      /\ runner \in {"next", "pause"} => batch < BatchCount(dep)
      /\ runner \in RunnerState
  BY BatchFacts DEF IInv, TypeOK, PlanInv
<1>2. CASE runner \in {"none", "spawned", "loaded", "registered"}
  <2>1. Place = 0 \/ Place = 1 \/ Place = 2 \/ Place = 3
    BY <1>2 DEF Place
  <2>. QED
    BY <1>1, <1>2, <2>1
<1>3. CASE runner \in {"next", "batch", "pause"}
  <2>1. \/ runner \in {"next", "pause"} /\ (Place = 3 * batch + 3 \/ Place = 3 * batch + 4)
        \/ Place = 3 * batch + 2
    BY <1>3 DEF Place
  <2>. QED
    BY <1>1, <1>3, <2>1
<1>4. CASE runner \in {"rollback", "check", "notifying", "verdict", "ended"}
  <2>1. \E k \in 5..8 : Place = 3 * BatchCount(dep) + k
    BY <1>4 DEF Place
  <2>. QED
    BY <1>1, <1>4, <2>1
<1>5. CASE runner \in {"gone", "dead"}
  BY <1>1, <1>5 DEF Place
<1>. QED
  BY <1>1, <1>2, <1>3, <1>4, <1>5 DEF RunnerState

\* From one place of the goroutine's own to the next.
LEMMA RunnerAdvances ==
  ASSUME IInv, RunnerStep
  PROVE  /\ runner' # runner => Place < Place'
         /\ runner' = runner => batch' = batch /\ toRollback' \subseteq toRollback
<1> USE DEF hubVars, runVars, Conclude
<1>1. /\ BatchCount(dep) \in Nat \ {0} /\ batch \in Nat /\ batch <= BatchCount(dep)
      /\ runner \in {"next", "pause"} => batch < BatchCount(dep)
  BY BatchFacts DEF IInv, TypeOK, PlanInv
<1>2. dep' = dep
  BY RunnerFrame
<1>3. CASE LoadRunner
  BY <1>1, <1>2, <1>3 DEF LoadRunner, Place
<1>4. CASE RegisterRunner
  BY <1>1, <1>2, <1>4 DEF RegisterRunner, Place
<1>5. CASE StartRun
  <2>1. batch = 0 /\ batch' = batch
    BY <1>5 DEF StartRun, IInv, PlanInv, Unborn
  <2>. QED
    BY <1>1, <1>2, <1>5, <2>1 DEF StartRun, Place
<1>6. CASE OpenBatch
  BY <1>1, <1>2, <1>6 DEF OpenBatch, Place
<1>7. CASE CloseBatch
  BY <1>1, <1>2, <1>7 DEF CloseBatch, Place
<1>8. CASE EndPause
  BY <1>1, <1>2, <1>8 DEF EndPause, Place
<1>9. CASE StartRollback
  BY <1>1, <1>2, <1>9 DEF StartRollback, Place
<1>10. CASE FinishRollback
  BY <1>1, <1>2, <1>10 DEF FinishRollback, Place
<1>11. CASE CheckResults
  BY <1>1, <1>2, <1>11 DEF CheckResults, Place
<1>12. CASE SaveVerdict
  BY <1>1, <1>2, <1>12 DEF SaveVerdict, Place
<1>13. CASE UnregisterRunner
  BY <1>1, <1>2, <1>13 DEF UnregisterRunner, Place
<1>14. ASSUME NEW i \in Instance, RollbackInstance(i)
       PROVE  runner' = runner /\ batch' = batch /\ toRollback' \subseteq toRollback
  BY <1>14 DEF RollbackInstance
<1>. QED
  BY <1>3, <1>4, <1>5, <1>6, <1>7, <1>8, <1>9, <1>10, <1>11, <1>12, <1>13, <1>14
     DEF RunnerStep

\* A worker's own steps take it further ...
LEMMA WorkerAdvances ==
  ASSUME IInv, NEW q \in Position, WorkerStep(q), NEW p \in Position, worker'[p] # worker[p]
  PROVE  Ahead(p)
<1>1. worker \in [Position -> WorkerState]
  BY DEF IInv, TypeOK
<1>2. CASE BeginInstance(q)
  BY <1>1, <1>2 DEF BeginInstance, Working, Ahead, Progress
<1>3. CASE NotifyInstance(q)
  <2>1. worker[q] = "notify" /\ \E s \in {"wait", "failing"} : worker' = [worker EXCEPT ![q] = s]
    BY <1>3 DEF NotifyInstance, FailInstance
  <2>. QED
    BY <1>1, <2>1 DEF Ahead, Progress
<1>4. CASE ObserveSuccess(q)
  BY <1>1, <1>4 DEF ObserveSuccess, Working, Ahead, Progress
<1>5. CASE GiveUp(q)
  BY <1>1, <1>5 DEF GiveUp, FailInstance, Working, Ahead, Progress
<1>6. CASE MarkCompleted(q)
  BY <1>1, <1>6 DEF MarkCompleted, Working, Ahead, Progress
<1>7. CASE RecordInstance(q)
  BY <1>1, <1>7 DEF RecordInstance, Working, Ahead, Progress
<1>8. CASE ReturnError(q)
  BY <1>1, <1>8 DEF ReturnError, Working, Ahead, Progress
<1>. QED
  BY <1>2, <1>3, <1>4, <1>5, <1>6, <1>7, <1>8 DEF WorkerStep

\* ... and a batch starts workers that have not started: no position is in two.
LEMMA OpeningStartsIdle ==
  ASSUME IInv, OpenBatch, NEW p \in Position, worker'[p] # worker[p]
  PROVE  worker[p] = "idle" /\ worker'[p] = "begin"
<1>1. /\ batch \in Nat /\ batch < BatchCount(dep) /\ BatchCount(dep) \in Nat
      /\ \A j, k \in 1..BatchCount(dep) : j < k => Batch(dep, j) \cap Batch(dep, k) = {}
  BY BatchFacts DEF IInv, TypeOK, PlanInv, OpenBatch
<1>2. p \in Batch(dep, batch + 1) /\ worker'[p] = "begin"
  BY DEF OpenBatch
<1>3. \A k \in 1..batch : p \notin Batch(dep, k)
  <2>. SUFFICES ASSUME NEW k \in 1..batch
                PROVE  p \notin Batch(dep, k)
    OBVIOUS
  <2>1. k \in 1..BatchCount(dep) /\ batch + 1 \in 1..BatchCount(dep) /\ k < batch + 1
    BY <1>1
  <2>. QED
    BY <1>1, <1>2, <2>1
<1>. QED
  BY <1>2, <1>3 DEF IInv, WorkersInv, Started

\* Only those two kinds of steps move a worker.
LEMMA WorkersMove ==
  ASSUME [Next]_vars, worker' # worker
  PROVE  OpenBatch \/ \E q \in Position : WorkerStep(q)
<1>1. ASSUME RunnerStep, ~OpenBatch
      PROVE  worker' = worker
  BY <1>1
     DEF RunnerStep, LoadRunner, RegisterRunner, StartRun, CloseBatch, EndPause,
         StartRollback, FinishRollback, CheckResults, SaveVerdict, UnregisterRunner,
         RollbackInstance
<1>2. ASSUME CreateDeployment \/ EndHub \/ UNCHANGED vars
      PROVE  worker' = worker
  BY <1>2 DEF CreateDeployment, EndHub, vars
<1>3. ASSUME Next, ~RunnerStep, ~CreateDeployment, ~EndHub, \A q \in Position : ~WorkerStep(q)
      PROVE  worker' = worker
  BY <1>3, PersistFrame, HandlerFrame, AgentFrame, CancelFrame, ProcessFrame DEF Next
<1>. QED
  BY <1>1, <1>2, <1>3

\* The creation of the goroutine and the end of its process take it further too.
LEMMA ProcessAdvances ==
  ASSUME IInv, CreateDeployment \/ EndHub
  PROVE  /\ runner' # runner => Place < Place'
         /\ runner' = runner => batch' = batch /\ toRollback' \subseteq toRollback
<1>1. /\ BatchCount(dep) \in Nat \ {0} /\ batch \in Nat /\ batch <= BatchCount(dep)
      /\ runner \in {"next", "pause"} => batch < BatchCount(dep)
      /\ runner = "none" <=> row.status = "none"
  BY BatchFacts DEF IInv, TypeOK, PlanInv, StatusInv
<1>2. CASE CreateDeployment
  BY <1>1, <1>2 DEF CreateDeployment, hubVars, Place
<1>3. CASE EndHub
  <2>1. dep' = dep /\ toRollback' = {} /\ batch' = batch
    BY <1>3 DEF EndHub, runVars
  <2>2. runner' # runner => runner \notin {"gone", "dead"} /\ runner' \in {"gone", "dead"}
    BY <1>3 DEF EndHub
  <2>3. runner' \in {"gone", "dead"} => Place' = 3 * BatchCount(dep) + 9
    BY <2>1 DEF Place
  <2>. QED
    BY <2>1, <2>2, <2>3, PlaceBounded
<1>. QED
  BY <1>2, <1>3

\* No batch is opened twice, no target deployed to twice, no rollback list
\* refilled: between two waits the goroutine and its workers only come closer to
\* the end.
THEOREM GoroutineNeverRepeats == Spec => GoroutineAdvances
<1>1. ASSUME IInv, [Next]_vars
      PROVE  /\ runner' # runner => Place < Place'
             /\ runner' = runner => batch' = batch /\ toRollback' \subseteq toRollback
  BY <1>1, RunnerAdvances, ProcessAdvances, Others
<1>2. ASSUME IInv, [Next]_vars, NEW p \in Position, worker'[p] # worker[p]
      PROVE  Ahead(p)
  <2>1. CASE OpenBatch
    BY <1>2, <2>1, OpeningStartsIdle DEF Ahead, Progress
  <2>2. CASE \E q \in Position : WorkerStep(q)
    BY <1>2, <2>2, WorkerAdvances
  <2>. QED
    BY <1>2, <2>1, <2>2, WorkersMove
<1>3. IInv /\ [Next]_vars =>
        [/\ runner' # runner => Place < Place'
         /\ runner' = runner => batch' = batch /\ toRollback' \subseteq toRollback
         /\ \A p \in Position : worker'[p] # worker[p] => Ahead(p)]_vars
  BY <1>1, <1>2
<1>. QED
  BY <1>3, Invariance, PTL DEF Spec, GoroutineAdvances

\* The measure is bounded by the number of batches, so the goroutine moves a
\* bounded number of times, whatever happens around it.
BoundedPlace == Place \in 0..(3 * BatchCount(dep) + 9)

THEOREM GoroutineIsBounded == Spec => []BoundedPlace
<1>1. IInv => BoundedPlace
  <2>. SUFFICES ASSUME IInv PROVE BoundedPlace
    OBVIOUS
  <2>. QED
    BY PlaceBounded DEF BoundedPlace
<1>. QED
  BY Invariance, <1>1, PTL

=============================================================================
