# Sentinel Hub in TLA+

A TLA+ model of Sentinel Hub (Go): a control plane that stores versions of
proxy configurations and rolls them out to a fleet of agents.  The model is
written from the code; paths below are relative to the repository.

1. [The system](#1-the-system)
2. [Plan](#2-plan)
3. [Modules](#3-modules)
4. [Runs](#4-runs)
5. [Proofs](#5-proofs)
6. [What the code does not keep](#6-what-the-code-does-not-keep)
7. [What is left out](#7-what-is-left-out)

## 1. The system

| Component | State | Operations | Correct when |
|---|---|---|---|
| Deployment runner (`internal/fleet/runner.go`) | `r.deployment` (own copy of the row), `instanceResults` under `mu`, `r.ctx`; one goroutine per deployment, one per instance of the open batch | `Run`, the three strategies, `deployBatch`, `deployToInstance`, `waitForInstance`, `ReportInstanceStatus`, `persistInstanceStatus`, `rollbackDeployedInstances` | batches are opened in order and only on success; a completed deployment reached every target; the goroutine ends whatever agents do |
| Orchestrator (`internal/fleet/orchestrator.go`) | map of running deployments under `mu`, `o.ctx` | `CreateDeployment`, `runDeployment`, `CancelDeployment`, `Stop`, `RecoverOrphanedDeployments`, `ReportInstanceStatus` | every stored deployment gets a final status; a final status stays; a restart leaves no orphan |
| Fleet service (`internal/grpc/fleet_service.go`) | `sessions` (token to instance), `subscribers` (instance to channel), each under its own lock | `Register`, `Heartbeat`, `Deregister`, `Subscribe`, `SendEventToInstance`, `BroadcastEvent`, `GetConfig`, `ReportDeploymentStatus` | an event goes to the newest stream of its instance; closed channels are not used; a deregistered session is not accepted |
| Agent (`internal/agent/agent.go`, `client.go`, `state.go`, `sentinel.go`) | state file (config, active deployment), token, the version it claims to run, the proxy's configuration file | `Run` and its reconnect loop, `runLoop`, `sendHeartbeat`, `OnConfigUpdate`, `OnDeployment`, `reportInterruptedDeployment` | the claimed version is the one on disk; an interrupted deployment is reported |
| Store (`internal/store`) | SQL tables: instances, configs, config_versions, deployments, deployment_instances, users, user_sessions, audit_logs | single statements; whole-row updates | versions are stored once and in order; the current version exists; each field holds what was last set |
| HTTP API (`internal/api`) | none of its own | create, update, roll back configs; create and cancel deployments; instances; users | read-check-write sequences do not lose updates |
| Authentication (`internal/auth`) | user_sessions | login, refresh (rotation), logout, password change, roles | a rotated or revoked session yields no tokens; users are administered by administrators |
| Hub process (`cmd/hub/main.go`) | order of start and stop | recover, serve, shut down | recovery is over before the first call is served |
| SPIFFE check, TLS, interceptors, generated code, web UI | | | not modelled, see section 7 |

How they interact.  `CreateDeployment` (HTTP) stores a row and starts the
deployment goroutine.  That goroutine opens batches; each worker queues an
event through the fleet service and polls the result map.  Agents read the
event from their stream, apply the configuration and answer with
`ReportDeploymentStatus`, a gRPC call whose handler writes the result map that
the worker polls.  `CancelDeployment` runs in an HTTP handler and shares only
the row and two contexts with the goroutine.  On start, `Orchestrator.Start`
marks what an earlier process left behind as failed before the servers accept
calls.  The row of an instance has six writers: Register and Heartbeat of its agent, the
API, and the worker that records what was deployed read the row and later write
all of it; `ReportDeploymentStatus` and `Deregister` write the status alone.  A
heartbeat's answer names the latest version of
the row's configuration, and the agent fetches it by number.

What makes this hard: five kinds of threads write the same row or the same
result without a transaction; the runner's writes fail silently when its
context has ended; persisting a result takes two steps with the lock released
in between; a report can arrive late, twice, or for a worker that has returned;
every wait has a timer that may race the answer; the process may end between
any two statements.  `PROJECT.json` lists each hazard with its line.

## 2. Plan

In order of importance:

1. **RolloutPlan, DeploymentRunner** (done): the life of one deployment, from the
   row's creation to its final status, with workers, reports, cancellation,
   timeout, shutdown, crash and recovery.  Abstract specification:
   **StagedRollout** (done), what the documentation promises of a rollout.
   Theorems (done): the safety properties, the refinement, the partition into
   batches, and a bounded measure of the goroutine's progress.
2. **FleetSubscriptions** (done): sessions, subscription channels, event delivery;
   composes with the runner through "an event is queued, refused or lost", which
   DeploymentRunner allows at any time.  Abstract specification: **EventStreams**
   (done), what a stream promises of its events.  Theorems (done): the map of
   subscribers, the channels and the event loops agree; the refinement; an accepted
   event is not lost.
3. **Agent** (done): state file, active deployment, crash and reconnect, the
   heartbeat goroutine against the event goroutine.  Theorems (done): work is on
   record, reports do not contradict each other, the proxy's file is whole, and what
   the agent claims to run is what it runs, with the exceptions named.
4. **InstanceRecords** (done): the instances row and its writers (Register,
   Heartbeat, the runner's worker, the API, reports, Deregister) with the latest
   versions, composed with the version its agent claims and the file it wrote: what the writers leave of each other's
   fields, what a fetch brings, convergence, and rollback against the heartbeat.
   Theorems (done): the safety properties.
5. **ConfigVersions** (done): create, update, roll back, delete and deploy with
   concurrent requests and failures between statements.  Abstract specification:
   **ConfigHistory** (done), the versions table as an append-only history.
   Theorems (done): the safety properties and the refinement.
6. **AuthSessions** (done): refresh-token rotation, revocation, password and role
   changes, creation and deletion of users.  Theorems (done): every property.

Each module takes its sets and bounds as CONSTANTS with named assumptions, has
one action per operation or per atomic step between two points where another
thread may run, and states its invariants as conjunctions of named parts.

## 3. Modules

**RolloutPlan** is pure: how `runAllAtOnce`, `runRolling` and `runCanary` cut
the target list into batches (Go's ceiling division, the canary of one tenth but
at least one, batch sizes of zero and below, unknown strategies falling into the
default branch).  A batch is a set of positions, because the list may name an
instance twice.  **RolloutPlanCheck** compares the slices with a direct
definition of the batch a position belongs to.

**StagedRollout** is the abstract specification: batches are opened one after
the other when all earlier ones succeeded, positions settle as `ok` or `err`,
the rollout completes only when every target is `ok` and may be aborted at any
time.  It knows no contexts, tables, reports or restarts.

**DeploymentRunner** is one deployment in one hub.  Its variables and the code:

| Variables | Code |
|---|---|
| `row`, `inst` | the rows in deployments and deployment_instances (of `progress`: the current batch and whether the failure reason is a restart) |
| `recorded` | instances whose instances row this deployment's `UpdateInstance` reached |
| `runner`, `mem`, `batch`, `toRollback`, `rolledBack` | the deployment goroutine's program counter, `r.deployment`, its batch number, the rollback loop |
| `worker`, `result` | a worker's program counter per position; `instanceResults` |
| `cancelled`, `ctxDone` | `r.ctx` is done; the context of `Run` (derived from `o.ctx`, with the timeout) is done |
| `job`, `call`, `canceller` | unfinished `persistInstanceStatus`, `ReportInstanceStatus`, `CancelDeployment` |
| `hub`, `crashes`, `fixing` | the process: serving, stopping, down, recovering; rows recovery has still to mark |
| `inbox`, `busy` | deployment events on their way; agents applying the deployment |

Atomicity.  A step is what happens between two points at which another
thread can interfere: one SQL statement, one critical section, one channel
operation.  `persistInstanceStatus` is two steps (`Copy` under the lock,
`Upsert` after it); `CancelDeployment` is three (`CancelRunner`, `CancelRead`,
`CancelWrite`), any of which an aborted HTTP request may be the last of;
recovery is one step for the row and one per instance row.  `NewDeploymentRunner`
writes its pending rows in one step (nobody else reads or writes them before).

Contexts.  Every store call of the goroutine and of its workers takes the
context of `Run`; once that has ended the call fails and, as in the code, the
error is dropped, except in the first write of `Run`.  The context is there before
that write, so a cancellation or shutdown may end it earlier (`EndContext`).  Persists that use
`context.Background()` succeed (`bg`).  `MergeCancel` is the goroutine that
copies the end of `r.ctx` to it.

Timers are choices: `GiveUp` (instance timeout of five minutes, lease of 60 s
without a report, context, or a reported failure), `TimeoutRun`, `EndPause`.
Both branches of a Go `select` with two ready cases are allowed.

Agents are modelled as the hub sees them: an accepted event is answered by
in_progress and later completed or failed, every report may be lost, the client
may stop waiting while the handler runs on, and queued events may vanish with
their stream.

**FleetSubscriptions** is the part of the fleet service where three kinds of
goroutines meet: the handler of an event stream, the handler of a Deregister,
and a sender.

| Variables | Code |
|---|---|
| `sessions`, `fresh` | `s.sessions`; tokens not generated yet |
| `subscribers` | `s.subscribers`: the channel mapped for an instance |
| `queue`, `closed` | what a channel buffers; whether it was closed |
| `phase`, `owner`, `gone` | a call of `Subscribe`: checked, in its loop, in its deferred cleanup, over; its instance; its context is done |
| `closer` | a `Deregister` between its session and its channel |
| `sender`, `events`, `accepted` | `SendEventToInstance` between the lookup and the send; what it accepted |
| `delivered` | what `stream.Send` gave to a client that was there |
| `panics`, `restarts` | what panicked, and how often the process ended |

Every critical section is one step.  `SendEventToInstance` is two: the lookup
under the lock and the send after it.  A send on a closed channel panics; the
interceptors recover handlers only, so in a deployment's goroutine it ends the
process (`SendPanics`).  A closed channel still yields what is buffered
(`LoopReceive`), and the `select` may choose the ended context first
(`LoopEnds`).  A channel is named after the `Subscribe` that made it.
`BroadcastEvent` and `NotifyConfigUpdate` have no callers but tests; broadcast is
modelled, the other is a loop of sends.

**EventStreams** is the abstract specification: a stream accepts events, delivers
them in the order they were accepted in, each at most once, and ends when it is
sealed and has delivered everything or when its client is gone.  It knows no
sessions, map, locks, handlers or goroutines.  In FleetSubscriptions a stream is
sealed when its channel is closed and ended when its loop is.

**Agent** is the process beside a proxy: the goroutine of `Run` and the one that
receives events, which both apply configurations and write the state file.

| Variables | Code |
|---|---|
| `main`, `todo` | where `Run` and `runLoop` are; the fetches a heartbeat's answer asked for (the answer names the version twice, as an action and as an announcement) |
| `ev` | the goroutine of `Subscribe`: where it is, deployment, version, whether it failed |
| `job` | `OnConfigUpdate` in a goroutine: where it is, with which version |
| `tmp`, `file`, `fd` | `config.kdl.tmp`, `config.kdl`, and where the file lies that a goroutine's `os.WriteFile` has open |
| `claim` | `currentConfigVersion` of the client: what heartbeats say |
| `mem`, `disk` | the state manager's copy and the state file (active deployment, version) |
| `starts` | how often the process was started |
| `latest`, `pushes`, `delivered` | the hub: latest version of the assigned config, config update events and deployment events that arrived |
| `sent` | final reports sent, whatever became of them |
| `drift` | history: a version adopted from Register, two applications that overlapped, one cut off by a crash |

A version stands for number, hash and content, a deployment for one event: a
rollback has an ID of its own, and a target list that names an instance twice
makes two events of one ID.  Nothing in the agent compares IDs.  `os.WriteFile` is two steps,
truncation and write; the file it has open may be renamed by the other goroutine
in between, and what is written over another content may be mixed (`Torn`).  A rename
that fails, because the other goroutine was first, is followed by the removal of
whatever temporary file there is by then (`RemoveTemp`).
`Save` is one step, under the state manager's lock, and separate from the change
it follows, as the lock is given back in between.  `Crash` is the end of the
process at any point, by a failure or by `Stop`, which waits for neither
goroutine.  Every call to the hub may fail where the agent acts on the failure;
attempts to connect and register that fail are repeated and change nothing.

**InstanceRecords** is the row of one instance, those who write it, and the agent
that follows what it is told.

| Variables | Code |
|---|---|
| `latest` | the latest row of config_versions, per configuration |
| `row` | the row in instances: there, the assignment (`current_config_id` and `current_config_version`), the status |
| `task` | those who write it: a handler of the agent's call (`Call`), one other handler at work (`Other`), the worker of each deployment; where it is and the copy it has read |
| `dep`, `named` | what each deployment deploys; whether deployment_instances names the instance, so that it cannot be deleted |
| `agent`, `ask` | where the agent's main goroutine is, the version it claims (`currentConfigVersion`, hash) and the one its last heartbeat named; the answer it acts on and the fetches left |
| `work`, `events` | how far the goroutine of `Subscribe` is with its event; deployment and rollback events on their way |
| `job` | `OnConfigUpdate` in each of the two goroutines: where it is, with which version, whether it was alone |
| `disk` | the version in the proxy's file, the version in the state file, whether that has an active deployment |
| `last`, `late` (in `task`), `astray`, `withdrawn` | history: what was last set in each field; which fields were set behind a copy; what may have set claim and file apart; versions rolled back from |

Reading and writing the row are separate steps (`ReadRow`, `UpdateInstance`): the
write carries every field.  `Register` writes a status and the address and keeps
the assignment, `Heartbeat` writes the status, the API names, labels and the status
if it is given one, the worker the assignment.  `ReportDeploymentStatus` writes
deploying at the start of a deployment and online or degraded at its end
(`Report`), also for a deployment that a restart interrupted
(`ReportInterrupted`), and `Deregister` offline: one statement each
(`UpdateInstanceStatus`).  Of the row's columns the model keeps the two that more
than one writer is after.

A configuration and a number stand for a version; the hash is the version's.
`GetConfig` looks the assignment up again, with the number the agent was told
before.  Both goroutines of the agent apply what they fetch in four steps, the
proxy's file, the claim, the state file and, in a deployment, the state file once
more, without a lock.  An application is `alone` until the other goroutine is found
at one, too; then the temporary file is shared, and the file may hold either
content, the old one or nothing whole (`Written`; Agent has the temporary file).
`astray` names what may have set claim and file apart since the last application
that was alone from its start to its end: a version taken from the answer to
Register (`adopt`), two applications at once (`overlap`), or the end of the process
between file and state file (`cut`); the next process claims what the state file
says.  A handler runs on when the agent's connection is gone (`CallFails`,
`Exit`); it is then `Other` that goes on, and it may be dropped at any step.  The
process ends anywhere, of itself or after `Stop` has deregistered (`Exit`).

**ConfigVersions** is the requests on configurations.

| Variables | Code |
|---|---|
| `configs` | the row in configs: state and `current_version` |
| `versions` | config_versions: the content of each version |
| `req` | a request: the configuration, the current version it has read, the version asked for, the content to store |
| `deployments` | configuration and version of deployments created |
| `acked`, `rollbacks`, `slips` | history: the highest version a request was answered with; what rollbacks made of which version; the ways in which current and latest version came apart |

A request reads the configuration, stores a version (the UNIQUE constraint refuses
a number that is taken) and writes the row, each in a step of its own, and may end
in between (`Abandon`).  `slips` names the three exceptions: a configuration
without its first version (`empty`), a version whose row was not written (`half`),
and a description that overlapped an update (`overlap`).  **ConfigHistory** is the
versions table alone: nothing is overwritten, skipped or overtaken, except that the
first version may come late.

**AuthSessions** is users and their sessions.

| Variables | Code |
|---|---|
| `users` | table users: there, password (counted in the order written), role |
| `sessions` | table user_sessions: state, user, the password it was given for, the session it replaced |
| `audited` | users that audit_logs names (they cannot be deleted) |
| `req` | a request: where it is, its actor, user, session, the copy it has read |
| `last`, `revoked`, `lost`, `late`, `raced`, `orphaned` | history: what was last set; the password up to which sessions were revoked; fields a stale copy came over; sessions that slipped past a revocation; refreshes that overlapped; a deletion by one already deleted |

A session stands for the refresh token whose hash its row has.  Access tokens are
not state of the hub: anyone who could log in may ask, and `RequireAuth` reads the
user's row when the request is let in (`LetIn`), not when the statement runs.  An
account's name is not given again after its deletion, as IDs are not.

**MCDeploymentRunner** holds the requests of the TLC instances;
**MCFleetSubscriptions**, **MCConfigVersions** and **MCAuthSessions** hold symmetry
sets (elements that nothing tells apart, in runs without liveness).
**MCInstanceRecords** adds nothing: its runs check liveness, so use no symmetry.  The runs of Agent need no definitions
of their own.  **RolloutPlanProofs**, **RolloutPlanCheckProofs**,
**DeploymentRunnerProofs**, **FleetSubscriptionsProofs**, **AgentProofs**, **ConfigVersionsProofs**,
**InstanceRecordsProofs** and **AuthSessionsProofs** hold the theorems.

Definitions called `Faulty...` are the next definition with a seeded mistake;
no specification uses them.  They document which mistake each property notices.

## 4. Runs

| Run | What it checks | Size |
|---|---|---|
| `rollout_plan` | `BatchesPartition`: the batches partition the targets, in order, none empty, none past the last | 1 792 states: up to 32 targets, sizes -1..12, every strategy and an unknown one |
| `runner_safety` | `TypeOK`, `CompletedIsRecorded`, `NoOrphan`, `RecoveryIsWhole`, `FinalStatusStays` | 2.9 million states: two instances, the three strategies, one crash |
| `runner_batches` | `BatchOrder`, `RollbackIsContained`, `GoroutineAdvances`, refinement of StagedRollout (`ImplementsRollout`) | 1.6 million states: two batches over three positions, one instance named twice |
| `runner_liveness` | `RunnerReturns`, `DeploymentSettles` under `FairSpec` | two batches of one, rolling and canary, one crash |
| `subscriptions` | `TypeOK`, `MapMatchesLoops`, refinement of EventStreams (`ImplementsStreams`); `AcceptedArrives`, `ReplacedStreamsEnd` under `FairSpec` | 1.06 million states: two streams with channels of two, three events, one deregistration, one sender and broadcast, one restart |
| `agent` | `TypeOK`, `WorkIsOnRecord`, `InterruptedMeansUnfinished`, `ClaimIsFile`, `WholeUnlessOverlapped`; `LoopEndsWithStream` under `FairSpec` | 431 000 states: one deployment, two versions, one config update event, two starts |
| `configs` | `TypeOK`, `CurrentIsLatest`, `AcknowledgedIsCurrent`, `RollbackRestores`, `VersionsAreThere`, `DeletedStaysDeleted`, refinement of ConfigHistory (`ImplementsHistory`) | 4.1 million states: one configuration, three requests at once, three versions, one deployment |
| `instances` | `TypeOK`, `RowKeepsWrites`, `FetchedIsAnnounced`; `ConvergesToLatest` under the fairness of `Spec` | 1.96 million states: one instance, two configurations, one deployment, one update through the API, one failure |
| `auth` | `TypeOK`, `PasswordEndsSessions`, `UserKeepsWrites`, `OneSuccessor`, `OnlyAdminsChangeUsers`, `SomeoneStays` | 3.7 million states: two accounts, three sessions, two requests at once |
| `subscriptions_panic`, `agent_torn`, `rollback_undone` | expected violations, section 6 | small |

What the properties say:

- `CompletedIsRecorded`: `deployToInstance` drops the error of `UpdateInstance`
  and the worker still succeeds.  The property holds only because the final write
  of `Run` shares the context whose end made that update fail.
- `NoOrphan`: a deployment that is not over and is served by a running hub has
  its goroutine, unless the goroutine's context ended and took the last write
  with it.
- `RecoveryIsWhole`: a deployment that recovery marked failed has no instance row
  left pending or in progress once the hub serves, and no worker or report of the
  time before the restart brings one back.  The exception is a second end of the
  process in the middle of recovery (section 6).
- `FinalStatusStays`: completed and failed change to nothing but cancelled, and a
  cancelled row is overwritten, if at all, only by a live goroutine whose context
  has not ended.
- `BatchOrder`, `RollbackIsContained`, `ImplementsRollout`: late, repeated and
  reordered reports neither open a batch early nor carry a rollback beyond the
  opened batches nor make `Run` return nil without every worker's success.
- `GoroutineAdvances`: nothing in the goroutine or its workers is done twice,
  whatever reports, cancellations and crashes come in between: no batch is opened
  again, no target deployed to again, no rollback list refilled.  `Place` and
  `Progress` count how far each has come.
- `RunnerReturns`: no agent can hang the goroutine.
- `DeploymentSettles`: an open deployment becomes final, or its context ended.
  The second disjunct is what the code does: after a timeout or a cancellation
  the final write uses the ended context and is lost.

- `MapMatchesLoops`: a mapped channel is open and its loop has not returned; a
  loop whose channel is open is the mapped one.  A cleanup that runs after a
  newer subscription must not remove it.
- `ImplementsStreams`, `AcceptedArrives`: an event whose send returned nil is given
  to its client once and in order, unless the client goes, although its channel may
  be replaced or deregistered right after; a stream whose channel was closed does
  not end before it has drained it.
- `ReplacedStreamsEnd`: an older stream of the instance ends.

- `WorkIsOnRecord`: while a deployment is applied it is in the state file,
  although the heartbeat's goroutine may save its own changes meanwhile.
- `InterruptedMeansUnfinished`: the work on a deployment event is never reported
  both interrupted and completed or failed, over restarts and reconnects.
- `ClaimIsFile`: the version in heartbeats is the one in the proxy's file and in
  the state; `drift` names the three ways in which it is not, and the property
  says there are no others.
- `WholeUnlessOverlapped`: the proxy finds a whole configuration at every moment,
  also when an application was cut off by a crash and the next one finds its
  temporary file, as long as no two applications have overlapped.
- `LoopEndsWithStream`: a stream that ends while the loop fetches or applies is
  still noticed.

- `RowKeepsWrites`: each field of the instances row is what was last set in it,
  whoever writes the row for the sake of another field, unless the writer had read
  the row before.  That covers the status of a report, written between another's read and
  write.
- `FetchedIsAnnounced`: the version an agent fetches is the one its heartbeat was
  told of, unless the instance was assigned another configuration in between.
- `ConvergesToLatest`: once nothing else happens, a connected agent claims the
  latest version of the configuration its row names, and its file holds it unless
  `astray` says why not; the row shows a state of a heartbeat and not the deploying,
  degraded or offline that a report or a Deregister left.

- `CurrentIsLatest`: a version above the current one is on its way to become
  current; otherwise every later update is refused, since its number is taken.
- `AcknowledgedIsCurrent`: a version that was answered to a client is not taken
  back by another request, except by an overlapping description.
- `RollbackRestores`, `VersionsAreThere`, `DeletedStaysDeleted`,
  `ImplementsHistory`: a rollback stores the content asked for; what a deployment
  or a row names is stored; a request that read before the deletion does not undo
  it; history is only appended to.

- `PasswordEndsSessions`: after a password change no session of an older password
  lives, except those `late` names: of a login or refresh that was under way, or
  of a profile update that wrote the old password back.
- `UserKeepsWrites`: the same for password and role as `RowKeepsWrites`.
- `OneSuccessor`: a refresh token is exchanged once, unless two exchanges overlap
  or the revocation of the old one fails, which the code only logs.
- `OnlyAdminsChangeUsers`: while a request administers users, its actor is an
  administrator or was one when it was let in.
- `SomeoneStays`: nobody deletes himself, and so the last account goes only by the
  request of one that was deleted meanwhile.

Bounds.  `Handler` has one element: one report handler at work at a time;
with the workers' own persists that gives two writers per instance, which is
what the races on `result` and `inst` need.  `MaxCrashes` is 1.  `MaxTargets` is the longest target list.  In FleetSubscriptions one
instance suffices because instances share nothing but the locks; two streams
are an old and a new one (`subscriptions_panic` has three); with a `Capacity` of 2
instead of 100 and `MaxEvents` of 3 a channel holds two events, whose order can go
wrong, and is full for the third.  In Agent one deployment event, one config
update and the heartbeats give each goroutine an application to overlap with the
other's; two versions are the least a file can be mixed from, two starts the
least with a restart.  Two instances and two
batches are the least in which a batch can be opened too early, a rollback can
reach too far and two workers can disagree.  In InstanceRecords two configurations
are the least between which an assignment can move, and two versions the least
with a rollback; one deployment, besides the one an instance may have had before,
one update through the API and one failure give every writer another to overlap
with.  Only `c1` gets further versions (`Growing`), heartbeats report one state
(`Reported`) and the API sets another (`Edited`), so that each status tells who
wrote it.  In ConfigVersions two requests can overlap and a third can come
after; three versions let a version be skipped; one configuration suffices because
configurations share nothing.  In AuthSessions one account logs in (`Watched`) and
another administers or is administered, three sessions are a token and two
successors, `MaxChanges` of 2 lets two administrative requests overlap and
`MaxPasswords` of 2 lets one password follow another; the theorems of section 5 cover all
sizes.

Deadlock is not checked: a deployment that is over, with its agents idle, is a
state in which nothing more has to happen.

Fairness (`Fairness`): weak fairness of the deployment goroutine, of each worker,
of each persist and handler, of the merging goroutine and of restart and
recovery: the Go scheduler runs what can run, timers fire, and the operator (or
supervisor) restarts the process.  Nothing is assumed of agents, streams, API
clients, or of when the hub stops or crashes.

In FleetSubscriptions weak fairness is on the handler of each open stream
(`LoopStep`): the scheduler runs it, and `stream.Send` returns, that is, a client
reads its stream or its connection ends.  Nothing is assumed of senders, of new
calls or of clients going away.

In Agent weak fairness is on the main goroutine, the events goroutine and each
application: the scheduler runs them, calls return or time out, and a process
that ended is started again.  Strong fairness is on leaving the loop (a `select`
whose stream case stays ready takes it sooner or later, although the ticker is
ready again and again) and on heartbeats and fetches that are tried again and
again, which succeed sometimes.

In InstanceRecords weak fairness is on the agent's main goroutine together with
the handler it waits for (`MainGoroutine`): the scheduler runs them, the ticker
goes on, calls return or time out, and while nothing fails at most one of its steps
is possible.  It is also on the steps of a deployment that touch local files only
(`ApplyDeployment`): an application that has begun ends, with or without an error.
Whether events are read, reported on and answered is left open.  Failures, publications, deployments and updates are bounded, and
nothing is assumed of them.  ConfigVersions and AuthSessions state safety only.

## 5. Proofs

Proved by TLAPS, from the named assumptions on the constants.  For the deployment
runner: for every set of instances and handlers, every target list, strategy and
batch size, and any number of crashes.  Assumptions: `RequestsAssumption` (requests are well typed, target lists are not empty and no
longer than `MaxTargets`), `BoundsAssumption`, `ThreadsAssumption` (handlers are
not positions).

RolloutPlanProofs: `BatchesDisjoint` and `BatchesCover`, the batches of a plan
are disjoint and cover the target list.  The arithmetic rests on `ProductOrder`
(multiples of the batch size are ordered and apart) and `BatchesForFacts` (the
ceiling division).  RolloutPlanCheckProofs: `BatchesArePartition`
(`BatchesPartition`), for every target list, strategy and batch size: the slices are
what one division says of each position (`SliceIsGroup`), and none is empty.

DeploymentRunnerProofs: the invariant `IInv` and what follows from it.

| Theorem | Property |
|---|---|
| `Inductive`, `Invariance` | `IInv` is inductive and holds |
| `TypesHold` | `TypeOK` |
| `BatchesInOrder` | `BatchOrder` |
| `CompletedRecorded` | `CompletedIsRecorded` |
| `NoOrphans` | `NoOrphan` |
| `RollbackContained` | `RollbackIsContained` |
| `VerdictsAreFinal` | `FinalStatusStays` |
| `RecoveryFinishes` | `RecoveryIsWhole` |
| `GoroutineNeverRepeats` | `GoroutineAdvances` |
| `GoroutineIsBounded` | `Place` stays below a bound the number of batches gives |
| `RunnerImplementsRollout` | `ImplementsRollout` |

None of the properties is inductive.  `BatchOrder` needs to know that only
opened batches have workers (`Started`) and that every batch before the open one
is done (`EarlierDone`); that in turn needs the batch counter's relation to the
program counter (`PlanInv`).  `CompletedIsRecorded` needs that a worker which
succeeded under a live context stored its version (`RecordedInv`) and that a
deployment judged completed has only successful workers (`JudgedDone`).
`NoOrphan` needs what the row may say at each program counter (`StatusInv`) and
that a goroutine lives only in a serving hub, with its context ended while the
hub stops (`HubInv`).  `RollbackIsContained` needs that every event, report and
completed result belongs to an opened batch (`Reached`) and that a goroutine
which rolled back is on its way to failed (`Judged`).  `RecoveryIsWhole` needs that
nobody is at work while the process is down or recovers (`Quiet`), that nobody finds
a runner for a recovered deployment, and that what recovery has still to mark includes
every unfinished row (`RestartInv`).  `GoroutineAdvances` needs
that a position is in one batch only (`BatchesDisjoint`) and that only opened
batches have workers (`Started`): a batch that is opened starts workers that never
ran.  Together with `GoroutineIsBounded` it is the part of `RunnerReturns` that does
not depend on fairness: the goroutine moves a bounded number of times, and so do the
workers; what fairness adds is that each wait ends.

The proof that a step keeps `IInv` has one lemma per part and in it one step per
action or group of actions that can disturb the part; the frame lemmas
(`WorkerFrame`, `HandlerFrame`, ...) say once what each thread leaves alone.
`RolloutStep` maps `OpenBatch` to `OpenNextBatch`, a worker's return to
`Settle`, the end of `Run` to `Complete` or `Abort`, the process's end to
`Abort`, and everything else to a stutter.

FleetSubscriptionsProofs: for all instances, tokens, streams, deregistrations,
senders, capacities and restarts, from `EventsAssumption` and `NamesAssumption`.

| Theorem | Property |
|---|---|
| `Invariance` | `IInv` holds |
| `TypesHold` | `TypeOK` |
| `MapAndLoopsAgree` | `MapMatchesLoops` |
| `LockHoldersDoNotPanic` | what works under the lock never closes a channel twice or sends on a closed one (`OnlySendsPanic`) |
| `NothingAcceptedIsLost` | a stream that returned with its client there has delivered what it accepted (`ReturnedMeansDelivered`) |
| `AcceptedIsUnderWay` | what is accepted and not delivered is in the channel of a loop that runs, or its client is gone (`UnderWay`) |
| `ImplementsEventStreams` | `ImplementsStreams` |

`ReturnedMeansDelivered` is not inductive: it needs that a loop which ended on
its own has drained a closed channel (`Finished`) and that an accepted event is
delivered or still in its channel (`Buffered`).  `MapMatchesLoops` needs that a
call that has not opened its channel left no trace of it (`Unopened`).  The
refinement needs that a stream is never given an event it has accepted before: an
event is created with a new number and is held by one sender (`Numbered`), and what
a channel holds was accepted, is not delivered, and is there once (`Once`).  A
successful send and a broadcast map to `Accept` for the streams with room, a receive
to `Deliver` or `Drop`, closing a channel to `Seal`, the end of the process to `Cut`
of every stream begun, and everything else to a stutter.  `UnderWay` is the part of
`AcceptedArrives` that does not depend on fairness.  Steps that touch neither the
map nor the streams are handled together (`Elsewhere`).

AgentProofs: for all deployments, versions, pushes and starts, from
`VersionsAssumption`, `StartsAssumption`, `DeploymentAssumption` and
`ContentAssumption`.

| Theorem | Property |
|---|---|
| `Inductive`, `Invariance` | `IInv` is inductive and holds |
| `TypesHold` | `TypeOK` |
| `StateFileFollows` | the state file is the state manager's copy unless a `Save` is due (`Saved`) |
| `WorkRecorded` | `WorkIsOnRecord` |
| `ReportsAgree` | `InterruptedMeansUnfinished` |
| `ClaimsAreTrue` | `ClaimIsFile` |
| `WholeWithoutOverlap` | `WholeUnlessOverlapped` |

`WorkIsOnRecord` speaks of the file, but another goroutine's `Save` writes the
copy: `RecordKept` therefore follows the deployment through both.
`InterruptedMeansUnfinished` needs that what is on record was not reported
finished (`Unanswered`), that a deployment arrives once (`Arrived`), and that no
events goroutine works while `Run` reports (`EventsOff`).  `ClaimIsFile` needs how
far a single application has come in the temporary file, the file, the claim, the
copy and the state file at each of its steps (`Undisturbed`).  That the file is whole
outlives a crash in the middle of an application, which `Undisturbed` does not:
`Untorn` says that the file lies apart from what is being written, and is whole.  There is one lemma
per part and group of steps; `Steady`, `Entered` and `Forgotten` say once what
the start, the end and the absence of an application mean for `Undisturbed`.

ConfigVersionsProofs: for any configurations, requests at once, contents, versions
and deployments, from `ConfigAssumption`, `BoundAssumption`,
`DeploymentsAssumption` and `ContentAssumption`.

| Theorem | Property |
|---|---|
| `Invariance` | `IInv` holds |
| `TypesHold` | `TypeOK` |
| `LatestIsCurrent` | `CurrentIsLatest` |
| `AnsweredIsCurrent` | `AcknowledgedIsCurrent` |
| `RollbacksRestore` | `RollbackRestores` |
| `VersionsFound` | `VersionsAreThere` |
| `DeletedStays` | `DeletedStaysDeleted` |
| `ImplementsConfigHistory` | `ImplementsHistory` |

`CurrentIsLatest` and `AcknowledgedIsCurrent` need to know how far the copies of
requests at work and the row are apart while nothing has slipped (`Apart`: at most
one of two writers made a version, and a copy to be written is one ahead or
level).  The refinement needs that versions are stored in order and that all below
a row's or a copy's number are there (`Prefixes`), and that a configuration not
created has none (`Untouched`).  `RollbackRestores` needs that a rollback carries
the content it was asked for (`Restoring`).

InstanceRecordsProofs: for any configurations, versions, deployments, states
reported or set through the API and bounds, from `ConfigAssumption`, `TaskAssumption`, `StateAssumption`
and `BoundAssumption`.

| Theorem | Property |
|---|---|
| `Invariance` | `IInv` holds |
| `TypesHold` | `TypeOK` |
| `RowsKeepWrites` | `RowKeepsWrites` |
| `AnnouncedIsFetched` | `FetchedIsAnnounced` |

`RowKeepsWrites` is not inductive: it needs what every copy at work says of each
field (`InCopies`).  `FetchedIsAnnounced` needs that the announced configuration is
the row's from the moment the heartbeat read it until it is noted to have moved
(`Following`), that the handler and the agent that waits for it agree on their
call (`Linked`), and that what the main goroutine applies is what it fetched,
although the other one applies beside it (`Applying`).  A step that writes only the
status is handled once for all who take it (`Settling`, `StatusSteps`): it is set
behind every copy at work.

AuthSessionsProofs: for any accounts, sessions, requests at once, passwords and
changes, from `NoneAssumption`, `WatchedAssumption` and `PasswordsAssumption`.

| Theorem | Property |
|---|---|
| `Invariance` | `IInv` holds |
| `TypesHold` | `TypeOK` |
| `PasswordsEndSessions` | `PasswordEndsSessions` |
| `UsersKeepWrites` | `UserKeepsWrites` |
| `SuccessorIsOne` | `OneSuccessor` |
| `AdminsOnly` | `OnlyAdminsChangeUsers` |
| `OneAccountStays` | `SomeoneStays` |

`PasswordEndsSessions` needs the order of what is revoked, given and last set
(`Revocations`), and `UserKeepsWrites`, since a login is given the row's password.
`OneSuccessor` needs `Lineage`: while a session has not been raced, it is refreshed
by one request at most, is revoked before its successor is stored, and has a
successor or a refresh under way but not both; after its user's deletion no
successor can be stored, because an account does not return.

Only model-checked: the liveness properties (`RunnerReturns`, `DeploymentSettles`,
`AcceptedArrives`, `ReplacedStreamsEnd`, `LoopEndsWithStream`, `ConvergesToLatest`).
They depend on fairness, whose proof needs ENABLED of the actions, which is out of
the prover's reach.  Of the first and the third the part that is safety is proved,
see above; of the second it is `NoOrphan`.  Every invariant, action property and
refinement that a passing run checks is a theorem.

## 6. What the code does not keep

Three runs show a statement of the repository's comments or documents that the
code does not keep.

- `subscriptions_panic`: `SendEventToInstance` uses a channel after it has given
  the lock back; a reconnect or a Deregister closes it in between and the send
  panics instead of returning an error (`SendsReturnErrors`).
- `agent_torn`: `WriteConfig` uses one name for its temporary file and runs in two
  goroutines; one truncates the file the other is about to rename, and the
  proxy's configuration file is empty or mixed (`ConfigIsWhole`).
- `rollback_undone`: the rollback of a deployment sends the version before, but
  the next heartbeat is compared with the latest version and answered with a
  fetch of it: the instance is back on the version it was rolled back from
  (`RolledBackStaysOff`).

The models have further behaviours of the code that a reader should know of.
Where a property would state the opposite, its exception is named.

- A cancelled deployment is set back to in_progress by the goroutine's own
  whole-row write; `FinalStatusStays` says when at most.
  `CancelDeployment` itself reads the row before the goroutine completes it and
  writes cancelled over it, which `FinalStatusStays` admits.
- A crash between the deployments row and its instance rows, in recovery, leaves
  instance rows that no later recovery visits: the case `RecoveryIsWhole` excepts.
- Two persists of one result may store their copies in the wrong order, so that
  the stored result differs from the runner's.
- An agent that registers after a new version was published takes over its version
  and hash from the answer, claims them in every heartbeat and does not fetch the
  content (`adopt` in `ConvergesToLatest`, `drift` in `ClaimIsFile`).
- The goroutines of an agent apply without a lock: the proxy's file may end up with
  one version and the claim with another, and a crash between file and state file
  makes the next process claim the older one.  The hub compares the claim, finds it
  up to date, and the file stays as it is until something else is applied
  (`overlap`, `cut`).
- After a rollback or a failed deployment the row keeps degraded or deploying only
  until the next heartbeat, which overwrites it whatever the deployment's state.
- A fetch that brings a newer version is not recorded in the instances row:
  `current_config_version` is what was last deployed.
- A heartbeat, registration or update that read the row before a deployment was
  recorded writes the old assignment back (`late`).
- A configuration whose update ended half-way, or was overlapped by a change of its
  description, refuses every later update and rollback, because the number it
  would take is taken (`slips`); one whose first version was not stored has a
  current version that is not there.
- A profile update that read the row before a password or role change writes the
  old one back (`lost`), and sessions of the old password live again.
- A login or refresh that had checked the old password stores its session after
  the revocation (`late`); two refreshes at once both succeed (`raced`).
- Access tokens are good until they expire, whatever becomes of their session; an
  administrator may take the role from the last one, himself included; a user
  whom audit_logs names cannot be deleted.
- The report of an interrupted deployment is tried once per connection, and its
  loss is not noticed; `runAgent` generates an instance ID whenever none is given,
  so the one in the state file is never used.

## 7. What is left out

- Storage errors other than an ended context: SQLite statements of an open
  database succeed.  `failDeployment`, which runs only after such an error,
  ends as "gone" does.
- How target labels are resolved: the model is given the target list.
- Who is subscribed: `IsInstanceSubscribed` and `SendEventToInstance` may
  succeed or fail at any time in DeploymentRunner; FleetSubscriptions says when.
- The expiry of sessions: `sessionTTL` is stored and read by nothing but a test.
- `NotifyConfigUpdate` and `CleanupExpiredSessions`, which nothing calls, and
  `AckDeployment`, which changes nothing.
- In InstanceRecords the status that a handler of ReportDeploymentStatus or Deregister
  writes after its agent has given the call up: such a call writes its status at
  once or never.  Disk errors of the state file; configuration update events, which
  nothing in the hub sends; what the goroutines do between `Stop`'s Deregister and the
  end of the process.
- Columns of the instances row other than assignment and status, `last_seen_at`
  among them; conflicts of names and labels in the API, lists and filters.
- Hashing, the rules for passwords, the encoding and the keys of tokens, the
  expiry of access tokens.
- File-system errors in the agent, its backup copy of the configuration, the
  reload signal (a failed reload is only logged), `SentinelManager.Rollback`
  (called by nobody), the choice of the instance ID, drain events (the handler is
  empty), health states and backoff times.
- In DeploymentRunner the other writers of the instances table: `recorded` holds
  what this deployment wrote.  InstanceRecords has them, and a deployment's part in
  the row only.
- Several deployments at once: they share only the instances table, and each
  has its own goroutine, row and results.  InstanceRecords admits several on one
  instance.
- gRPC and HTTP wiring, TLS, interceptors, logging, metrics, the SPIFFE
  allowlist (a pure check), the generated protocol code and the web UI.
