-------------------------- MODULE DeploymentRunner --------------------------
(***************************************************************************)
(* The life of one deployment inside the hub:                              *)
(*   internal/fleet/orchestrator.go  create, run, cancel, stop, recover    *)
(*   internal/fleet/runner.go        batches, workers, reports, rollback   *)
(*                                                                         *)
(* Four kinds of threads share the state: the deployment goroutine         *)
(* (runner), one worker goroutine per target of the open batch, the gRPC   *)
(* handlers that carry agents' reports, and an API handler that cancels.   *)
(* Two contexts stop the first two; the hub may crash, be stopped and be   *)
(* restarted.                                                              *)
(*                                                                         *)
(* Durable: row, inst, recorded.  The rest is the memory of one hub        *)
(* process, except busy, which lives in the agents.                        *)
(***************************************************************************)
EXTENDS RolloutPlan, FiniteSets

CONSTANTS
  Instance,      \* instance IDs
  Handler,       \* gRPC handler goroutines that may be busy at once (bound)
  Requests,      \* the deployments CreateDeployment may be asked for
  MaxTargets,    \* bound: longest target list
  MaxCrashes     \* bound: times the hub process ends

RequestType == [targets: Seq(Instance), strategy: STRING, batchSize: Int,
                version: Nat \ {0}]

ASSUME RequestsAssumption ==
  /\ MaxTargets \in Nat
  /\ \A d \in Requests : d \in RequestType /\ Len(d.targets) \in 1..MaxTargets
ASSUME BoundsAssumption == MaxCrashes \in Nat

Position == 1..MaxTargets
Thread == Position \cup Handler        \* the threads that persist results

ASSUME ThreadsAssumption == Position \cap Handler = {}

VARIABLES
  dep,         \* the request behind the deployment
  hub,         \* "up", "stopping", "down", "recovering", "fixing"
  crashes,     \* how many times the process ended
  row,         \* the deployments row: status, and of progress the current
               \* batch and whether the failure reason is a hub restart
  inst,        \* deployment_instances rows: status per instance, or "absent"
  recorded,    \* instances whose row got this version from deployToInstance
  runner,      \* where the deployment goroutine is
  mem,         \* r.deployment, the goroutine's own copy of the row
  batch,       \* number of the batch opened last
  worker,      \* where the goroutine deploying to a position is
  result,      \* r.instanceResults: status per instance, or "absent"
  toRollback,  \* instances the rollback loop has still to visit
  rolledBack,  \* instances a rollback event was queued for
  cancelled,   \* r.ctx is done
  ctxDone,     \* the context of Run is done
  job,         \* a thread's unfinished persistInstanceStatus
  call,        \* a handler's unfinished ReportInstanceStatus
  canceller,   \* an API handler's unfinished CancelDeployment
  fixing,      \* instance rows recovery has still to mark failed
  inbox,       \* deployment events in an instance's channel and stream
  busy         \* instances whose agent is applying the deployment

hubVars  == <<dep, hub, crashes, fixing>>
rowVars  == <<row, inst, recorded>>
runVars  == <<runner, mem, batch, toRollback, rolledBack>>
ctxVars  == <<cancelled, ctxDone>>
apiVars  == <<call, canceller>>
linkVars == <<inbox, busy>>
vars == <<hubVars, rowVars, runVars, ctxVars, apiVars, linkVars,
          worker, result, job>>

Open        == {"pending", "in_progress"}       \* not yet over
Over        == {"completed", "failed", "cancelled"}
ResultState == {"pending", "in_progress", "completed", "failed"}
Serving     == hub \in {"up", "stopping"}

\* Where the goroutine is: it exists, it is in o.deployments (and with that in Run).
Alive      == runner \notin {"none", "gone", "dead"}
Registered == Alive /\ runner \notin {"spawned", "loaded"}

Targets == {dep.targets[p] : p \in DOMAIN dep.targets}
On(p)   == dep.targets[p]

NoJob    == [phase |-> "none"]
NoCall   == [phase |-> "none"]
NoCancel == [phase |-> "none"]

-----------------------------------------------------------------------------
\* Writes to the two tables.

\* Definitions named Faulty... are variants of the next definition with a
\* seeded fault; no specification uses them.  They show which mistakes the
\* properties below would notice.

\* Fault: the row is written with a background context.
FaultySaveDeployment(m) == mem' = m /\ row' = m

\* UpdateDeployment from the deployment goroutine: the whole row is replaced
\* by the goroutine's copy, unless its context is done.
SaveDeployment(m) ==
  /\ mem' = m
  /\ row' = IF ctxDone THEN row ELSE m

\* persistInstanceStatus reads the result under the lock (Copy), then upserts
\* after releasing it (Upsert); `bg` marks the calls that use the background
\* context.
StartPersist(t, i, bg) ==
  job' = [job EXCEPT ![t] = [phase |-> "copy", inst |-> i, val |-> "pending",
                             bg |-> bg]]

Copy(t) ==
  /\ job[t].phase = "copy"
  /\ job' = [job EXCEPT ![t] = [@ EXCEPT !.phase = "write",
                                         !.val = result[job[t].inst]]]
  /\ UNCHANGED <<hubVars, rowVars, runVars, ctxVars, apiVars, linkVars,
                 worker, result>>

Upsert(t) ==
  /\ job[t].phase = "write"
  /\ inst' = IF ctxDone /\ ~job[t].bg THEN inst
             ELSE [inst EXCEPT ![job[t].inst] = job[t].val]
  /\ job' = [job EXCEPT ![t] = NoJob]
  /\ UNCHANGED <<hubVars, row, recorded, runVars, ctxVars, apiVars, linkVars,
                 worker, result>>

-----------------------------------------------------------------------------
\* The deployment goroutine.

\* CreateDeployment: the row, and the goroutine that will run it.
CreateDeployment ==
  /\ Serving
  /\ row.status = "none"
  /\ row' = [status |-> "pending", batch |-> 0, restart |-> FALSE]
  /\ runner' = "spawned"
  /\ UNCHANGED <<hubVars, inst, recorded, mem, batch, toRollback, rolledBack,
                 ctxVars, apiVars, linkVars, worker, result, job>>

\* runDeployment up to NewDeploymentRunner, which writes a pending row for
\* every target.  Once o.ctx is done the first read fails.
LoadRunner ==
  /\ Serving /\ runner = "spawned"
  /\ IF hub = "stopping"
       THEN /\ runner' = "gone"
            /\ UNCHANGED <<mem, result, inst>>
       ELSE /\ runner' = "loaded"
            /\ mem' = row
            /\ result' = [i \in Instance |->
                            IF i \in Targets THEN "pending" ELSE "absent"]
            /\ inst' = [i \in Instance |->
                            IF i \in Targets THEN "pending" ELSE inst[i]]
  /\ UNCHANGED <<hubVars, row, recorded, batch, toRollback, rolledBack,
                 ctxVars, apiVars, linkVars, worker, job>>

RegisterRunner ==
  /\ Serving /\ runner = "loaded"
  /\ runner' = "registered"
  /\ UNCHANGED <<hubVars, rowVars, mem, batch, toRollback, rolledBack,
                 ctxVars, apiVars, linkVars, worker, result, job>>

\* Run marks the deployment in_progress; it returns if that write fails.
StartRun ==
  /\ Serving /\ runner = "registered"
  /\ runner' = IF ctxDone THEN "ended" ELSE "next"
  /\ SaveDeployment([mem EXCEPT !.status = "in_progress"])
  /\ UNCHANGED <<hubVars, inst, recorded, batch, toRollback, rolledBack,
                 ctxVars, apiVars, linkVars, worker, result, job>>

\* Run's own context, made before the first write, ends: after the timeout, or once
\* the merging goroutine has seen r.ctx done.
EndContext ==
  /\ Serving /\ Registered /\ ~ctxDone
  /\ ctxDone' = TRUE
  /\ UNCHANGED <<hubVars, rowVars, runVars, cancelled, apiVars, linkVars,
                 worker, result, job>>
TimeoutRun  == EndContext /\ ~cancelled
MergeCancel == EndContext /\ cancelled

\* The verdict of Run, set in r.deployment before it is written.
Conclude(status) == mem' = [mem EXCEPT !.status = status] /\ runner' = "verdict"

\* The head of a batch loop.  Neither runAllAtOnce nor the canary batch looks
\* at the context before it starts its workers.
ChecksContext(k) == Mode(dep) = "rolling" \/ k > 1

OpenBatch ==
  /\ Serving /\ runner = "next"
  /\ IF ctxDone /\ ChecksContext(batch + 1)
       THEN /\ Conclude("failed")
            /\ UNCHANGED <<batch, worker>>
       ELSE /\ runner' = "batch"
            /\ batch' = batch + 1
            /\ worker' = [p \in Position |->
                 IF p \in Batch(dep, batch + 1) THEN "begin" ELSE worker[p]]
            /\ UNCHANGED mem
  /\ UNCHANGED <<hubVars, rowVars, toRollback, rolledBack, ctxVars, apiVars,
                 linkVars, result, job>>

\* wg.Wait, then what each strategy does with the errors.  Only runRolling
\* saves its progress.
BatchReturned(b) == \A p \in b : worker[p] \in {"ok", "err"}

\* Fault: a batch fails only when all of its instances failed.
FaultyBatchFailed(b) == \A p \in b : worker[p] = "err"

BatchFailed(b) == \E p \in b : worker[p] = "err"

CloseBatch ==
  /\ Serving /\ runner = "batch"
  /\ BatchReturned(Batch(dep, batch))
  /\ IF BatchFailed(Batch(dep, batch))
       THEN /\ IF Mode(dep) = "all_at_once"
                 THEN Conclude("failed")
                 ELSE runner' = "rollback" /\ UNCHANGED mem
            /\ UNCHANGED row
       ELSE /\ runner' = IF batch < BatchCount(dep) THEN "pause" ELSE "check"
            /\ IF Mode(dep) = "rolling"
                 THEN SaveDeployment([mem EXCEPT !.batch = batch, !.restart = FALSE])
                 ELSE UNCHANGED <<mem, row>>
  /\ UNCHANGED <<hubVars, inst, recorded, batch, toRollback, rolledBack,
                 ctxVars, apiVars, linkVars, worker, result, job>>

\* The delay between batches and the canary's validation period: a select on
\* the context and a timer, either of which may win when both are ready.
CanaryHealthy == \A p \in Batch(dep, 1) : result[On(p)] = "completed"

EndPause ==
  /\ Serving /\ runner = "pause"
  /\ \/ /\ ctxDone
        /\ Conclude("failed")
     \/ /\ runner' = IF Mode(dep) = "canary" /\ batch = 1 /\ ~CanaryHealthy
                       THEN "rollback" ELSE "next"
        /\ UNCHANGED mem
  /\ UNCHANGED <<hubVars, rowVars, batch, toRollback, rolledBack, ctxVars,
                 apiVars, linkVars, worker, result, job>>

\* rollbackDeployedInstances picks the completed results, gives up when there
\* is no earlier version or it cannot be read, and notifies one by one.

\* Fault: every target is rolled back, deployed or not.
FaultyDeployed == Targets

Deployed == {i \in Instance : result[i] = "completed"}

StartRollback ==
  /\ Serving /\ runner = "rollback"
  /\ toRollback' = IF dep.version > 1 /\ ~ctxDone THEN Deployed ELSE {}
  /\ runner' = "notifying"
  /\ UNCHANGED <<hubVars, rowVars, mem, batch, rolledBack, ctxVars, apiVars,
                 linkVars, worker, result, job>>

\* IsInstanceSubscribed and SendEventToInstance fail without a subscriber or
\* room in its channel.  Streams come and go at any time (FleetService's part),
\* so both outcomes are always possible.
RollbackInstance(i) ==
  /\ Serving /\ runner = "notifying"
  /\ i \in toRollback
  /\ toRollback' = toRollback \ {i}
  /\ rolledBack' \in {rolledBack, rolledBack \cup {i}}
  /\ UNCHANGED <<hubVars, rowVars, runner, mem, batch, ctxVars, apiVars,
                 linkVars, worker, result, job>>

FinishRollback ==
  /\ Serving /\ runner = "notifying" /\ toRollback = {}
  /\ Conclude("failed")
  /\ UNCHANGED <<hubVars, rowVars, batch, toRollback, rolledBack, ctxVars,
                 apiVars, linkVars, worker, result, job>>

\* allSucceeded, then the final write, which fails silently.
AllSucceeded == \A i \in Targets : result[i] = "completed"

CheckResults ==
  /\ Serving /\ runner = "check"
  /\ Conclude(IF AllSucceeded THEN "completed" ELSE "failed")
  /\ UNCHANGED <<hubVars, rowVars, batch, toRollback, rolledBack, ctxVars,
                 apiVars, linkVars, worker, result, job>>

SaveVerdict ==
  /\ Serving /\ runner = "verdict"
  /\ SaveDeployment(mem)
  /\ runner' = "ended"
  /\ UNCHANGED <<hubVars, inst, recorded, batch, toRollback, rolledBack,
                 ctxVars, apiVars, linkVars, worker, result, job>>

UnregisterRunner ==
  /\ Serving /\ runner = "ended"
  /\ runner' = "gone"
  /\ UNCHANGED <<hubVars, rowVars, mem, batch, toRollback, rolledBack,
                 ctxVars, apiVars, linkVars, worker, result, job>>

-----------------------------------------------------------------------------
\* deployToInstance, run by the worker of position p.

Working(p) == Serving /\ runner = "batch" /\ job[p] = NoJob

\* A fresh result record with the initial lease.
BeginInstance(p) ==
  /\ Working(p) /\ worker[p] = "begin"
  /\ worker' = [worker EXCEPT ![p] = "notify"]
  /\ result' = [result EXCEPT ![On(p)] = "in_progress"]
  /\ StartPersist(p, On(p), FALSE)
  /\ UNCHANGED <<hubVars, rowVars, runVars, ctxVars, apiVars, linkVars>>

\* setInstanceError, always persisted with the background context.
FailInstance(p) ==
  /\ worker' = [worker EXCEPT ![p] = "failing"]
  /\ result' = [result EXCEPT ![On(p)] = "failed"]
  /\ StartPersist(p, On(p), TRUE)

NotifyInstance(p) ==
  /\ Working(p) /\ worker[p] = "notify"
  /\ \/ /\ inbox' = [inbox EXCEPT ![On(p)] = @ + 1]
        /\ worker' = [worker EXCEPT ![p] = "wait"]
        /\ UNCHANGED <<result, job>>
     \/ /\ FailInstance(p)
        /\ UNCHANGED inbox
  /\ UNCHANGED <<hubVars, rowVars, runVars, ctxVars, apiVars, busy>>

\* waitForInstance sees the agent's success ...
ObserveSuccess(p) ==
  /\ Working(p) /\ worker[p] = "wait"
  /\ result[On(p)] = "completed"
  /\ worker' = [worker EXCEPT ![p] = "observed"]
  /\ UNCHANGED <<hubVars, rowVars, runVars, ctxVars, apiVars, linkVars,
                 result, job>>

\* Fault: only a reported failure ends the wait, no timer and no lease.
FaultyGiveUp(p) ==
  /\ Working(p) /\ worker[p] = "wait" /\ result[On(p)] = "failed"
  /\ FailInstance(p)
  /\ UNCHANGED <<hubVars, rowVars, runVars, ctxVars, apiVars, linkVars>>

\* ... or returns an error: a reported failure, an expired lease, the context,
\* or the instance timeout, which may win against a result that just arrived.
GiveUp(p) ==
  /\ Working(p) /\ worker[p] = "wait"
  /\ FailInstance(p)
  /\ UNCHANGED <<hubVars, rowVars, runVars, ctxVars, apiVars, linkVars>>

MarkCompleted(p) ==
  /\ Working(p) /\ worker[p] = "observed"
  /\ worker' = [worker EXCEPT ![p] = "marked"]
  /\ result' = [result EXCEPT ![On(p)] = "completed"]
  /\ StartPersist(p, On(p), FALSE)
  /\ UNCHANGED <<hubVars, rowVars, runVars, ctxVars, apiVars, linkVars>>

\* Fault: the row of the position is updated instead of the instance's.
FaultyRecordInstance(p) ==
  /\ Working(p) /\ worker[p] = "marked"
  /\ worker' = [worker EXCEPT ![p] = "ok"]
  /\ recorded' = IF ctxDone THEN recorded ELSE recorded \cup {p}
  /\ UNCHANGED <<hubVars, row, inst, runVars, ctxVars, apiVars, linkVars,
                 result, job>>

\* GetInstance and UpdateInstance with this deployment's config and version;
\* both fail once the context is done, and the worker still succeeds.
RecordInstance(p) ==
  /\ Working(p) /\ worker[p] = "marked"
  /\ worker' = [worker EXCEPT ![p] = "ok"]
  /\ recorded' = IF ctxDone THEN recorded ELSE recorded \cup {On(p)}
  /\ UNCHANGED <<hubVars, row, inst, runVars, ctxVars, apiVars, linkVars,
                 result, job>>

ReturnError(p) ==
  /\ Working(p) /\ worker[p] = "failing"
  /\ worker' = [worker EXCEPT ![p] = "err"]
  /\ UNCHANGED <<hubVars, rowVars, runVars, ctxVars, apiVars, linkVars,
                 result, job>>

-----------------------------------------------------------------------------
\* Agents' reports: ReportInstanceStatus of the orchestrator, then of the
\* runner it found, which may have been unregistered in between.

Idle(h) == call[h] = NoCall /\ job[h] = NoJob

LookupRunner(h) ==
  /\ Serving /\ call[h].phase = "lookup"
  /\ call' = [call EXCEPT ![h] =
                IF Registered THEN [@ EXCEPT !.phase = "found"] ELSE NoCall]
  /\ UNCHANGED <<hubVars, rowVars, runVars, ctxVars, canceller, linkVars,
                 worker, result, job>>

ApplyReport(h) ==
  /\ Serving /\ call[h].phase = "found"
  /\ result' = [result EXCEPT ![call[h].inst] = call[h].state]
  /\ StartPersist(h, call[h].inst, TRUE)
  /\ call' = [call EXCEPT ![h] = NoCall]
  /\ UNCHANGED <<hubVars, rowVars, runVars, ctxVars, canceller, linkVars, worker>>

\* The agents, as far as the hub can tell (internal/agent/client.go
\* handleEvent, agent.go reportInterruptedDeployment): an event is answered by
\* in_progress and later by completed or failed, the latter also after an
\* agent's restart.  Any report may be lost, and the agent may stop waiting
\* for the answer while the handler is still busy.
Report(i, s) ==
  \/ UNCHANGED call
  \/ \E h \in Handler :
       /\ Serving /\ Idle(h)
       /\ call' = [call EXCEPT ![h] = [phase |-> "lookup", inst |-> i, state |-> s]]

AgentAccept(i) ==
  /\ i \notin busy /\ inbox[i] > 0
  /\ inbox' = [inbox EXCEPT ![i] = @ - 1]
  /\ busy' = busy \cup {i}
  /\ Report(i, "in_progress")
  /\ UNCHANGED <<hubVars, rowVars, runVars, ctxVars, canceller, worker,
                 result, job>>

AgentFinish(i) ==
  /\ i \in busy
  /\ busy' = busy \ {i}
  /\ \E s \in {"completed", "failed"} : Report(i, s)
  /\ UNCHANGED <<hubVars, rowVars, runVars, ctxVars, canceller, inbox, worker,
                 result, job>>

\* A broken or replaced stream takes the queued events with it.
LoseEvents(i) ==
  /\ inbox[i] > 0
  /\ inbox' = [inbox EXCEPT ![i] = 0]
  /\ UNCHANGED <<hubVars, rowVars, runVars, ctxVars, apiVars, busy, worker,
                 result, job>>

-----------------------------------------------------------------------------
\* CancelDeployment: cancel the runner if it is registered, read the row, and
\* write it back as cancelled if it was not over.

CancelRunner ==
  /\ Serving /\ row.status # "none" /\ canceller = NoCancel
  /\ cancelled' = (cancelled \/ Registered)
  /\ canceller' = [phase |-> "read"]
  /\ UNCHANGED <<hubVars, rowVars, runVars, ctxDone, call, linkVars, worker,
                 result, job>>

CancelRead ==
  /\ Serving /\ canceller.phase = "read"
  /\ canceller' = IF row.status \in Open THEN [phase |-> "write", row |-> row]
                  ELSE NoCancel
  /\ UNCHANGED <<hubVars, rowVars, runVars, ctxVars, call, linkVars, worker,
                 result, job>>

CancelWrite ==
  /\ Serving /\ canceller.phase = "write"
  /\ row' = [canceller.row EXCEPT !.status = "cancelled"]
  /\ canceller' = NoCancel
  /\ UNCHANGED <<hubVars, inst, recorded, runVars, ctxVars, call, linkVars,
                 worker, result, job>>

\* The HTTP client goes away: the request's context ends before the next
\* statement.
CancelAborted ==
  /\ canceller # NoCancel
  /\ canceller' = NoCancel
  /\ UNCHANGED <<hubVars, rowVars, runVars, ctxVars, call, linkVars, worker,
                 result, job>>

-----------------------------------------------------------------------------
\* The hub process.

\* Stop cancels o.ctx, from which the context of Run derives, and every
\* registered runner.
StopHub ==
  /\ hub = "up"
  /\ hub' = "stopping"
  /\ ctxDone' = TRUE
  /\ cancelled' = (cancelled \/ Registered)
  /\ UNCHANGED <<dep, crashes, fixing, rowVars, runVars, apiVars, linkVars,
                 worker, result, job>>

\* The process ends, in an orderly way (Stop waits at most 30 s) or not.
EndHub ==
  /\ hub # "down" /\ crashes < MaxCrashes
  /\ crashes' = crashes + 1
  /\ hub' = "down"
  /\ runner' = IF runner = "none" THEN "none"
               ELSE IF runner \in {"ended", "gone"} THEN "gone" ELSE "dead"
  /\ toRollback' = {} /\ fixing' = {}
  /\ result' = [i \in Instance |-> "absent"]
  /\ job' = [t \in Thread |-> NoJob]
  /\ call' = [h \in Handler |-> NoCall]
  /\ canceller' = NoCancel
  /\ cancelled' = FALSE /\ ctxDone' = FALSE
  /\ inbox' = [i \in Instance |-> 0]
  /\ UNCHANGED <<dep, rowVars, mem, batch, rolledBack, busy, worker>>

\* Start runs RecoverOrphanedDeployments before any server accepts calls: the
\* row first, then its unfinished instance rows one by one.
StartHub ==
  /\ hub = "down"
  /\ hub' = "recovering"
  /\ UNCHANGED <<dep, crashes, fixing, rowVars, runVars, ctxVars, apiVars,
                 linkVars, worker, result, job>>

\* Fault: rows that are still pending are not looked at.
FaultyUnfinished == {i \in Instance : inst[i] = "in_progress"}

Unfinished == {i \in Instance : inst[i] \in Open}

RecoverIf(orphaned) ==
  /\ hub = "recovering"
  /\ IF orphaned
       THEN /\ row' = [row EXCEPT !.status = "failed", !.restart = TRUE]
            /\ fixing' = Unfinished
       ELSE UNCHANGED <<row, fixing>>
  /\ hub' = "fixing"
  /\ UNCHANGED <<dep, crashes, inst, recorded, runVars, ctxVars, apiVars,
                 linkVars, worker, result, job>>

\* Fault: a deployment still pending is not an orphan.
FaultyMissPending == RecoverIf(row.status = "in_progress")

\* Fault: every stored deployment is taken for an orphan.
FaultyRecoverAll == RecoverIf(row.status # "none")

RecoverDeployment == RecoverIf(row.status \in Open)

RecoverInstance(i) ==
  /\ hub = "fixing" /\ i \in fixing
  /\ inst' = [inst EXCEPT ![i] = "failed"]
  /\ fixing' = fixing \ {i}
  /\ UNCHANGED <<dep, hub, crashes, row, recorded, runVars, ctxVars, apiVars,
                 linkVars, worker, result, job>>

ServeHub ==
  /\ hub = "fixing" /\ fixing = {}
  /\ hub' = "up"
  /\ UNCHANGED <<dep, crashes, fixing, rowVars, runVars, ctxVars, apiVars,
                 linkVars, worker, result, job>>

-----------------------------------------------------------------------------
Init ==
  /\ dep \in Requests
  /\ hub = "up" /\ crashes = 0 /\ fixing = {}
  /\ row = [status |-> "none", batch |-> 0, restart |-> FALSE]
  /\ inst = [i \in Instance |-> "absent"]
  /\ recorded = {}
  /\ runner = "none" /\ batch = 0 /\ toRollback = {} /\ rolledBack = {}
  /\ mem = [status |-> "none", batch |-> 0, restart |-> FALSE]
  /\ worker = [p \in Position |-> "idle"]
  /\ result = [i \in Instance |-> "absent"]
  /\ cancelled = FALSE /\ ctxDone = FALSE
  /\ job = [t \in Thread |-> NoJob]
  /\ call = [h \in Handler |-> NoCall]
  /\ canceller = NoCancel
  /\ inbox = [i \in Instance |-> 0]
  /\ busy = {}

RunnerStep ==
  \/ LoadRunner \/ RegisterRunner \/ StartRun \/ OpenBatch \/ CloseBatch
  \/ EndPause \/ StartRollback \/ FinishRollback \/ CheckResults
  \/ SaveVerdict \/ UnregisterRunner
  \/ \E i \in Instance : RollbackInstance(i)

WorkerStep(p) ==
  \/ BeginInstance(p) \/ NotifyInstance(p) \/ ObserveSuccess(p) \/ GiveUp(p)
  \/ MarkCompleted(p) \/ RecordInstance(p) \/ ReturnError(p)

PersistStep(t) == Serving /\ (Copy(t) \/ Upsert(t))

HandlerStep(h) == LookupRunner(h) \/ ApplyReport(h)

AgentStep(i) == AgentAccept(i) \/ AgentFinish(i) \/ LoseEvents(i)

CancelStep == CancelRunner \/ CancelRead \/ CancelWrite \/ CancelAborted

RecoveryStep ==
  \/ StartHub \/ RecoverDeployment \/ ServeHub
  \/ \E i \in Instance : RecoverInstance(i)

Next ==
  \/ CreateDeployment
  \/ RunnerStep
  \/ \E p \in Position : WorkerStep(p)
  \/ \E t \in Thread : PersistStep(t)
  \/ \E h \in Handler : HandlerStep(h)
  \/ \E i \in Instance : AgentStep(i)
  \/ CancelStep
  \/ TimeoutRun \/ MergeCancel
  \/ StopHub \/ EndHub \/ RecoveryStep

Spec == Init /\ [][Next]_vars

\* The Go scheduler runs every goroutine that can run, timers fire, and the
\* hub is restarted after it ends.  Nothing is assumed of agents, of API
\* clients, or of when the hub stops.
Fairness ==
  /\ WF_vars(RunnerStep)
  /\ \A p \in Position : WF_vars(WorkerStep(p))
  /\ \A t \in Thread : WF_vars(PersistStep(t))
  /\ \A h \in Handler : WF_vars(HandlerStep(h))
  /\ WF_vars(MergeCancel)
  /\ WF_vars(RecoveryStep)

FairSpec == Spec /\ Fairness

-----------------------------------------------------------------------------
\* Types.

DeploymentRow == [status: {"none"} \cup Open \cup Over, batch: Nat,
                  restart: BOOLEAN]
RunnerState == {"none", "spawned", "loaded", "registered", "next", "batch",
                "pause", "rollback", "notifying", "check", "verdict", "ended",
                "gone", "dead"}
WorkerState == {"idle", "begin", "notify", "wait", "observed", "marked",
                "failing", "ok", "err"}
Job == [phase: {"copy", "write"}, inst: Instance, val: {"absent"} \cup ResultState,
        bg: BOOLEAN] \cup {NoJob}
Call == [phase: {"lookup", "found"}, inst: Instance, state: ResultState]
          \cup {NoCall}
Canceller == [phase: {"read"}] \cup [phase: {"write"}, row: DeploymentRow]
               \cup {NoCancel}

\* Every variable keeps its type: the rows and the runner's copies only ever
\* hold statuses the store's enumerations name.
TypeOK ==
  /\ dep \in Requests
  /\ hub \in {"up", "stopping", "down", "recovering", "fixing"}
  /\ crashes \in Nat
  /\ row \in DeploymentRow
  /\ inst \in [Instance -> {"absent"} \cup ResultState]
  /\ recorded \subseteq Instance
  /\ runner \in RunnerState
  /\ mem \in DeploymentRow
  /\ batch \in Nat
  /\ worker \in [Position -> WorkerState]
  /\ result \in [Instance -> {"absent"} \cup ResultState]
  /\ toRollback \subseteq Instance /\ rolledBack \subseteq Instance
  /\ cancelled \in BOOLEAN /\ ctxDone \in BOOLEAN
  /\ job \in [Thread -> Job]
  /\ call \in [Handler -> Call]
  /\ canceller \in Canceller
  /\ fixing \subseteq Instance
  /\ inbox \in [Instance -> Nat]
  /\ busy \subseteq Instance

-----------------------------------------------------------------------------
\* What holds.

\* Staged rollout: no instance of a later batch is touched before every
\* instance of each earlier batch has been deployed successfully
\* (runRolling and runCanary return at the first batch with an error).
BatchOrder ==
  \A j, k \in 1..BatchCount(dep) : j < k =>
    \A p \in Batch(dep, j), q \in Batch(dep, k) :
      worker[q] # "idle" => worker[p] = "ok"

\* A deployment stored as completed has stored its version in the row of
\* every target, whatever was cancelled, timed out, reported late or crashed
\* (Run's final write shares its context with every UpdateInstance before it).
CompletedIsRecorded == row.status = "completed" => Targets \subseteq recorded

\* The instances of the batches opened so far.
Opened == {On(p) : p \in UNION {Batch(dep, k) : k \in 1..batch}}

\* A rollback reaches only instances of batches that were opened, and never a
\* deployment that is then stored as completed (docs/fleet-management.md:466).
RollbackIsContained ==
  /\ rolledBack \subseteq Opened
  /\ rolledBack # {} => row.status # "completed"

\* A served deployment that is not over has its goroutine, unless the context
\* of that goroutine ended and took its last write with it: neither a crash
\* nor a lost error path leaves an orphan (RecoverOrphanedDeployments).
NoOrphan ==
  hub = "up" /\ row.status \in Open =>
    \/ Alive
    \/ runner = "gone" /\ ctxDone

\* A deployment that recovery marked failed has no instance row left pending or in
\* progress once the hub serves: neither a worker nor a report of the time before
\* writes one again.  Only a second end of the process, in the middle of recovery,
\* leaves some (RecoverOrphanedDeployments passes over what is failed).
RecoveryIsWhole ==
  hub = "up" /\ row.restart /\ crashes <= 1 => \A i \in Instance : inst[i] \notin Open

\* What Run decided is final for everyone but a concurrent CancelDeployment:
\* neither a late report, nor the runner, nor a restart changes it.  And a
\* cancelled row is written again only by a goroutine that is still running and
\* whose context has not ended (the writes of Run after ctx is done fail).
FinalStatusStays ==
  [][/\ row.status \in {"completed", "failed"} =>
          row'.status \in {row.status, "cancelled"}
     /\ row.status = "cancelled" /\ row'.status # "cancelled" =>
          Alive /\ ~ctxDone]_vars

\* How far the deployment goroutine has come, and a worker of its.
Place ==
  CASE runner = "none" -> 0
    [] runner = "spawned" -> 1
    [] runner = "loaded" -> 2
    [] runner = "registered" -> 3
    [] runner = "batch" -> 3 * batch + 2
    [] runner = "pause" -> 3 * batch + 3
    [] runner = "next" -> 3 * batch + 4
    [] runner \in {"rollback", "check"} -> 3 * BatchCount(dep) + 5
    [] runner = "notifying" -> 3 * BatchCount(dep) + 6
    [] runner = "verdict" -> 3 * BatchCount(dep) + 7
    [] runner = "ended" -> 3 * BatchCount(dep) + 8
    [] OTHER -> 3 * BatchCount(dep) + 9

Progress == [idle |-> 0, begin |-> 1, notify |-> 2, wait |-> 3, observed |-> 4,
             marked |-> 5, failing |-> 5, ok |-> 6, err |-> 6]

Ahead(p) == Progress[worker[p]] < Progress[worker'[p]]

\* Nothing in the deployment goroutine or its workers is ever done again, with
\* whatever reports, cancellations and crashes in between: no batch is opened
\* twice, no target deployed to twice, no rollback list refilled.  So the
\* goroutine can be kept from its end by waiting only (Run, runRolling,
\* runCanary, rollbackDeployedInstances).
GoroutineAdvances ==
  [][/\ runner' # runner => Place < Place'
     /\ runner' = runner => batch' = batch /\ toRollback' \subseteq toRollback
     /\ \A p \in Position : worker'[p] # worker[p] => Ahead(p)]_vars

\* Whatever the agents do or fail to do, the deployment goroutine comes to an
\* end: every wait in it has a timer or a context.
RunnerReturns == Alive ~> ~Alive

\* Every deployment gets a final status unless the context of its goroutine
\* ends first; a restart gives one to those the crash interrupted.
DeploymentSettles == (row.status \in Open) ~> (row.status \in Over \/ ctxDone)

-----------------------------------------------------------------------------
\* The abstract rollout the runner implements.  It is over when the goroutine
\* has returned or died with its process.

Stage(p) ==
  IF worker[p] = "idle" THEN "untouched"
  ELSE IF worker[p] \in {"ok", "err"} THEN worker[p] ELSE "deploying"

Verdict ==
  IF runner \in {"ended", "gone", "dead"}
    THEN IF runner # "dead" /\ mem.status = "completed" THEN "completed" ELSE "aborted"
    ELSE "running"

Rollout == INSTANCE StagedRollout WITH
  opened <- batch, stage <- [p \in Position |-> Stage(p)], verdict <- Verdict

\* Every behaviour of the runner, crashes and cancellations included, is a
\* staged rollout: Run opens batches in order and only on success, and returns
\* nil only when every worker returned nil.
ImplementsRollout == Rollout!Spec

=============================================================================
