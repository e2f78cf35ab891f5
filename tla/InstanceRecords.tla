--------------------------- MODULE InstanceRecords ---------------------------
(***************************************************************************)
(* The row of one instance, those who write it and the agent that follows  *)
(*   internal/grpc/fleet_service.go, internal/api/handlers.go,             *)
(*   internal/fleet/runner.go, internal/store/store.go,                    *)
(*   internal/agent/agent.go, client.go                                    *)
(*                                                                         *)
(* Register, Heartbeat, the API's UpdateInstance and the end of a          *)
(* deployment all read the row, change some fields of their copy and write *)
(* the whole copy back, each in a goroutine of its own and none with a     *)
(* transaction; ReportDeploymentStatus and Deregister write the status     *)
(* alone.  The agent fetches what the answer to its heartbeat announces,   *)
(* by number: the hub looks up the configuration again.  Its main and its  *)
(* events goroutine apply what they fetch step by step and without a lock  *)
(* (Agent has the files and the state's copies in full).                   *)
(***************************************************************************)
EXTENDS Naturals, Sequences, FiniteSets

CONSTANTS
  Config,      \* configurations; version 1 of each is there
  Start,       \* those the instance may have been deployed from before (bound)
  Growing,     \* those that get further versions (bound)
  NoConfig,
  Deployment,  \* deployments that reach the instance (bound), besides one before Init
  Call, Other, \* the hub's handler of the agent's call; another one at work on the
               \* row: the API's, or one whose agent is gone (bound: one)
  Reported,    \* the states the agent's heartbeats report
  Edited,      \* the states the API's updates name (any string is taken)
  MaxVersion,  \* bound: versions of a configuration
  MaxEdits,    \* bound: updates of the row through the API
  MaxFaults    \* bound: calls that fail, streams that end, agents that stop

ASSUME ConfigAssumption == Start \cup Growing \subseteq Config /\ NoConfig \notin Config
ASSUME TaskAssumption == Call # Other /\ {Call, Other} \cap Deployment = {}
ASSUME StateAssumption == Reported \subseteq {"online", "degraded", "offline"}
ASSUME BoundAssumption == MaxVersion \in Nat \ {0} /\ MaxEdits \in Nat /\ MaxFaults \in Nat

Version == 1..MaxVersion
Handler == {Call, Other}
Task == Handler \cup Deployment
Goroutine == {"main", "events"}

VARIABLES
  latest,  \* the latest version of each configuration
  row,     \* the row: whether it is there, the assignment recorded, the status
  task,    \* those who write the row: where each one is, its copy, its new status,
           \* and the fields that were set behind its copy
  dep,     \* what each deployment deploys
  named,   \* whether deployment_instances names the row
  agent,   \* where its main goroutine is; the version it claims, said in its last heartbeat
  ask,     \* what the last heartbeat's answer announced, and fetches left
  work,    \* how far its events goroutine is with the first of events
  job,     \* what each goroutine applies: where it is, the version, whether the
           \* other goroutine has kept out of it
  disk,    \* the version in the configuration file; the one saved in the state
           \* file, and whether that names an active deployment
  events,  \* events on their way to the agent
  last,    \* field by field, what was last set
  astray,  \* what may have set the claim and the configuration file apart
  withdrawn, \* versions the agent was told to roll back
  edits, faults

hub == <<latest, dep, named>>
local == <<work, job, disk, astray, withdrawn>>
counters == <<edits, faults>>
vars == <<hub, row, task, last, agent, ask, events, local, counters>>

Nothing == <<NoConfig, 0>>
Missing == [there |-> FALSE, assignment |-> Nothing, status |-> "unknown"]
Unset == [assignment |-> Nothing, status |-> "unknown"]
Field == {"assignment", "status"}
Idle == [pc |-> "idle", copy |-> Missing, status |-> "unknown", late |-> {}]
NoAsk == [c |-> NoConfig, v |-> 0, left |-> 0, moved |-> FALSE]
NoJob == [pc |-> "idle", v |-> Nothing, alone |-> TRUE]

-----------------------------------------------------------------------------
\* Reading and writing the row.

At(t, pc) == task[t].pc = pc
WritePc == {"register write", "beat write", "edit write", "record write"}
Holds(t) == task[t].pc \in WritePc
Go(t, pc) == task' = [task EXCEPT ![t] = [Idle EXCEPT !.pc = pc]]
Finish(t) == Go(t, "idle")

\* GetInstance
ReadRow(t, pc, status) ==
  task' = [task EXCEPT ![t] = [pc |-> pc, copy |-> row, status |-> status, late |-> {}]]

\* Other copies miss that the fields in set are set.
Behind(tasks, set) ==
  [u \in Task |-> IF tasks[u].pc \in WritePc THEN [tasks[u] EXCEPT !.late = @ \cup set] ELSE tasks[u]]

\* The fields named in set get the values of new.
Note(new, set) ==
  last' = [assignment |-> IF "assignment" \in set THEN new.assignment ELSE last.assignment,
           status |-> IF "status" \in set THEN new.status ELSE last.status]

\* The assignment changes under the agent's heartbeat or fetch.
NoteMove(new) ==
  ask' = [ask EXCEPT !.moved = \/ @
                                 \/ /\ agent.pc \in {"wait", "fetch", "apply"}
                                    /\ new.assignment[1] # row.assignment[1]]

\* UpdateInstance writes the whole copy: it sets the fields in set, and those that
\* were set behind the copy.
UpdateInstance(t, new, set, then) ==
  /\ row.there
  /\ row' = new
  /\ Note(new, set \cup task[t].late)
  /\ task' = [Behind(task, set \cup task[t].late) EXCEPT ![t] = then]
  /\ NoteMove(new)

\* Neither name nor identity may be there already.
CreateInstance(t, new, then) ==
  /\ ~row.there
  /\ row' = new
  /\ Note(new, Field)
  /\ task' = [Behind(task, Field) EXCEPT ![t] = then]
  /\ NoteMove(new)

\* UpdateInstanceStatus writes one field, of whatever row is there, while those who
\* write the row are, or get to, where tasks has them.
UpdateInstanceStatus(status, tasks) ==
  IF row.there
  THEN /\ row' = [row EXCEPT !.status = status]
       /\ last' = [last EXCEPT !.status = status]
       /\ task' = Behind(tasks, {"status"})
  ELSE task' = tasks /\ UNCHANGED <<row, last>>

-----------------------------------------------------------------------------
\* The agent's calls and their handlers.

Fault == faults < MaxFaults /\ faults' = faults + 1

\* ReportDeploymentStatus writes the row and tells the runner, unless the call fails.
Report(status, tasks) ==
  \/ UpdateInstanceStatus(status, tasks) /\ UNCHANGED faults
  \/ Fault /\ UNCHANGED <<row, task, last>>

\* Registered, with a goroutine that receives events: runLoop.
Connected == agent.pc \in {"loop", "wait", "fetch", "apply"}

SendRegister ==
  /\ agent.pc = "out" /\ At(Call, "idle")
  /\ agent' = [agent EXCEPT !.pc = "register"]
  /\ Go(Call, "register read")
  /\ UNCHANGED <<hub, row, ask, events, last, local, counters>>

SendHeartbeat ==
  /\ agent.pc = "loop" /\ At(Call, "idle")
  /\ agent' = [agent EXCEPT !.pc = "wait", !.said = agent.claim]
  /\ \E s \in Reported : task' = [task EXCEPT ![Call] = [Idle EXCEPT !.pc = "beat read", !.status = s]]
  /\ ask' = NoAsk
  /\ UNCHANGED <<hub, row, events, last, local, counters>>

RegisterReads(t) ==
  /\ At(t, "register read")
  /\ ReadRow(t, "register write", "online")
  /\ UNCHANGED <<hub, row, agent, ask, events, last, local, counters>>

\* The call ends with nothing announced or in an error; after a heartbeat the agent
\* goes on.
Refused ==
  /\ agent' = [agent EXCEPT !.pc = IF @ = "wait" THEN "loop" ELSE "out", !.said = Nothing]
  /\ ask' = NoAsk
Answered(t) == IF t = Call THEN Refused ELSE UNCHANGED <<agent, ask>>

\* The handler has written new; one whose agent is gone stops.
Then(t, pc, new) == IF t = Call THEN [Idle EXCEPT !.pc = pc, !.copy = new] ELSE Idle

HeartbeatReads(t) ==
  /\ At(t, "beat read")
  /\ IF row.there
     THEN /\ ReadRow(t, "beat write", task[t].status)
          /\ ask' = [ask EXCEPT !.moved = IF t = Call THEN FALSE ELSE @]
          /\ UNCHANGED agent
     ELSE Finish(t) /\ Answered(t)
  /\ UNCHANGED <<hub, row, events, last, local, counters>>

\* Fault: the row is made anew.
FaultyRegistered(copy) == [Missing EXCEPT !.there = TRUE, !.status = "online"]

\* A row that was there keeps its assignment.
Registered(copy) == [copy EXCEPT !.there = TRUE, !.status = "online"]

RegisterWrites(t) ==
  /\ At(t, "register write")
  /\ LET copy == task[t].copy
         new == Registered(copy) IN
       \/ copy.there /\ UpdateInstance(t, new, {"status"}, Then(t, "register reread", new)) /\ UNCHANGED agent
       \/ ~copy.there /\ CreateInstance(t, new, Then(t, "register reread", new)) /\ UNCHANGED agent
       \/ copy.there # row.there /\ Finish(t) /\ Answered(t) /\ UNCHANGED <<row, last>>
  /\ UNCHANGED <<hub, events, local, counters>>

HeartbeatWrites(t) ==
  /\ At(t, "beat write")
  /\ LET new == [task[t].copy EXCEPT !.status = task[t].status] IN
       \/ UpdateInstance(t, new, {"status"}, Then(t, "beat answer", new)) /\ UNCHANGED agent
       \/ ~row.there /\ Finish(t) /\ Answered(t) /\ UNCHANGED <<row, last>>
  /\ UNCHANGED <<hub, events, local, counters>>

RegisterRereads ==
  /\ At(Call, "register reread")
  /\ ReadRow(Call, "register answer", "online")
  /\ UNCHANGED <<hub, row, agent, ask, events, last, local, counters>>

\* The latest version of the configuration in a handler's copy.
Announced(t) ==
  LET c == task[t].copy.assignment[1] IN IF c = NoConfig THEN Nothing ELSE <<c, latest[c]>>

\* The agent takes what it is answered for what it has.  A deployment that an agent
\* before was at is active still.
RegisterAnswers ==
  /\ At(Call, "register answer")
  /\ LET new == Announced(Call)
         adopts == new \notin {Nothing, agent.claim} IN
       /\ agent' = [agent EXCEPT !.pc = IF disk.active THEN "report" ELSE "loop",
                                 !.claim = IF adopts THEN new ELSE @]
       /\ astray' = IF adopts THEN astray \cup {"adopt"} ELSE astray
  /\ Finish(Call)
  /\ UNCHANGED <<hub, row, ask, events, work, job, disk, withdrawn, last, counters>>

\* reportInterruptedDeployment; a report whose answer is not an acknowledgement is
\* made again after the next Register, whatever its handler did.
ReportInterrupted ==
  /\ agent.pc = "report"
  /\ \/ Report("degraded", task) /\ disk' = [disk EXCEPT !.active = faults' # faults]
     \/ UpdateInstanceStatus("degraded", task) /\ Fault /\ UNCHANGED disk
  /\ agent' = [agent EXCEPT !.pc = "loop"]
  /\ UNCHANGED <<hub, ask, events, work, job, astray, withdrawn, edits>>

\* Fault: hashes are not compared.
FaultyUpToDate(claim, new) == claim[2] = new[2]

\* Version and hash: contents of two configurations differ.
UpToDate(claim, new) == claim = new

\* An answer that announces a version makes the agent fetch it twice: for the
\* action and for the flag.
HeartbeatAnswers ==
  /\ At(Call, "beat answer")
  /\ LET new == Announced(Call) IN
       IF new = Nothing \/ UpToDate(agent.said, new)
       THEN Refused
       ELSE /\ agent' = [agent EXCEPT !.pc = "fetch", !.said = Nothing]
            /\ ask' = [ask EXCEPT !.c = new[1], !.v = new[2], !.left = 2]
  /\ Finish(Call)
  /\ UNCHANGED <<hub, row, events, last, local, counters>>

\* Fault: the hub answers with the latest version.
FaultyVersionAsked(c) == latest[c]

VersionAsked(c) == ask.v

\* The agent names a number; the configuration is the one assigned by now.
GetConfig == LET c == row.assignment[1] IN
  IF row.there /\ c # NoConfig THEN IF VersionAsked(c) <= latest[c] THEN <<c, VersionAsked(c)>> ELSE Nothing
  ELSE Nothing

\* Fault: nothing is cleared.
FaultyNextFetch == ask' = [ask EXCEPT !.left = @ - 1]

\* The agent goes on to its next fetch or back to its loop.
NextFetch == ask' = IF ask.left > 1 THEN [ask EXCEPT !.left = @ - 1] ELSE NoAsk

FetchEnds ==
  /\ NextFetch
  /\ agent' = [agent EXCEPT !.pc = IF ask.left > 1 THEN "fetch" ELSE "loop"]

FetchConfigFails ==
  /\ agent.pc = "fetch"
  /\ (GetConfig = Nothing /\ UNCHANGED faults) \/ Fault
  /\ FetchEnds
  /\ UNCHANGED <<hub, row, task, events, last, local, edits>>

-----------------------------------------------------------------------------
\* OnConfigUpdate, called by the agent's goroutines, and what it is called for.

\* No lock keeps one goroutine out while the other is at it.
StartsApplying(g, v) ==
  LET beside == \E h \in Goroutine \ {g} : job[h].pc # "idle" IN
    /\ job' = [h \in Goroutine |-> IF h = g THEN [pc |-> "write", v |-> v, alone |-> ~beside]
                                   ELSE [job[h] EXCEPT !.alone = ~beside]]
    /\ astray' = IF beside THEN astray \cup {"overlap"} ELSE astray

FetchConfig ==
  /\ agent.pc = "fetch" /\ GetConfig # Nothing
  /\ StartsApplying("main", GetConfig)
  /\ agent' = [agent EXCEPT !.pc = "apply"]
  /\ UNCHANGED <<hub, row, task, ask, events, work, disk, withdrawn, last, counters>>

\* What the file may hold after a WriteConfig: of two at once either's content, none
\* of them or nothing whole, for they share the temporary file (Agent).
Written(g) == IF job[g].alone THEN {job[g].v}
              ELSE {disk.file, Nothing} \cup {job[h].v : h \in Goroutine}

WriteConfig(g) ==
  /\ job[g].pc = "write"
  /\ job' = [job EXCEPT ![g].pc = "claim"]
  /\ \E v \in Written(g) : disk' = [disk EXCEPT !.file = v]
  /\ UNCHANGED <<hub, row, task, agent, ask, events, work, astray, withdrawn, last, counters>>

\* For the want of a disk, or of the temporary file the other goroutine has renamed;
\* OnDeployment clears the active deployment.
WriteConfigFails(g) ==
  /\ job[g].pc = "write"
  /\ job' = [job EXCEPT ![g] = NoJob]
  /\ \/ job[g].alone /\ Fault /\ UNCHANGED edits
     \/ ~job[g].alone /\ UNCHANGED counters
  /\ \E v \in (Written(g) \ {job[g].v}) \cup {disk.file} :
       disk' = [disk EXCEPT !.file = v, !.active = @ /\ g = "main"]
  /\ IF g = "main" THEN FetchEnds /\ UNCHANGED work
     ELSE work' = "failed" /\ UNCHANGED <<agent, ask>>
  /\ UNCHANGED <<hub, row, task, events, astray, withdrawn, last>>

UpdateConfigState(g) ==
  /\ job[g].pc = "claim"
  /\ agent' = [agent EXCEPT !.claim = job[g].v]
  /\ job' = [job EXCEPT ![g].pc = "save"]
  /\ UNCHANGED <<hub, row, task, ask, events, work, disk, astray, withdrawn, last, counters>>

\* The goroutine is done: undisturbed, it has put claim, file and state together again.
EndsApplying(g) ==
  /\ job' = [job EXCEPT ![g] = NoJob]
  /\ astray' = IF job[g].alone THEN {} ELSE astray

SetConfigState(g) ==
  /\ job[g].pc = "save"
  /\ disk' = [disk EXCEPT !.saved = job[g].v]
  /\ IF g = "main" THEN EndsApplying(g) /\ FetchEnds
     ELSE job' = [job EXCEPT ![g].pc = "again"] /\ UNCHANGED <<agent, ask, astray>>
  /\ UNCHANGED <<hub, row, task, events, work, withdrawn, last, counters>>

\* handleEvent: IN_PROGRESS.
BeginDeployment ==
  /\ Connected /\ work = "recv" /\ events # <<>>
  /\ Report("deploying", task)
  /\ work' = "begin"
  /\ UNCHANGED <<hub, agent, ask, events, job, disk, astray, withdrawn, edits>>

\* SetActiveDeployment, and FetchConfigVersion of the configuration and version that
\* the event names; without an answer the active deployment is cleared again.
OnDeployment ==
  /\ work = "begin"
  /\ \/ /\ disk' = [disk EXCEPT !.active = TRUE]
        /\ LET e == Head(events) IN StartsApplying("events", <<dep[e.d].c, e.v>>)
        /\ work' = "apply"
     \/ disk' = [disk EXCEPT !.active = FALSE] /\ work' = "failed" /\ UNCHANGED <<job, astray>>
  /\ UNCHANGED <<hub, row, task, agent, ask, events, withdrawn, last, counters>>

OnConfigUpdate(g) ==
  WriteConfig(g) \/ WriteConfigFails(g) \/ UpdateConfigState(g) \/ SetConfigState(g)

\* The version is saved once more, and the active deployment cleared.
DeploymentApplied ==
  /\ job["events"].pc = "again"
  /\ disk' = [disk EXCEPT !.saved = job["events"].v, !.active = FALSE]
  /\ EndsApplying("events")
  /\ work' = "completed"
  /\ LET e == Head(events) IN
       withdrawn' = IF e.rollback /\ job["events"].alone THEN withdrawn \cup {<<dep[e.d].c, e.v + 1>>}
                    ELSE withdrawn
  /\ UNCHANGED <<hub, row, task, agent, ask, events, last, counters>>

\* COMPLETED or FAILED; a runner that waits for the former goes on.
EndDeployment ==
  /\ LET e == Head(events) IN
       \/ /\ work = "completed"
          /\ Report("online", IF ~e.rollback /\ At(e.d, "sent")
                              THEN [task EXCEPT ![e.d] = [Idle EXCEPT !.pc = "reported"]] ELSE task)
       \/ work = "failed" /\ Report("degraded", task)
  /\ events' = Tail(events)
  /\ work' = "recv"
  /\ UNCHANGED <<hub, agent, ask, job, disk, astray, withdrawn, edits>>

-----------------------------------------------------------------------------
\* The agent leaves.

\* The call's context ends with the call: its handler stops, or gets to the end of
\* the statement or two it is at first.
Abandoned ==
  {[task EXCEPT ![Call] = Idle]}
  \cup (IF At(Other, "idle") /\ task[Call].pc \in {"register read", "register write", "beat read", "beat write"}
        THEN {[task EXCEPT ![Other] = task[Call], ![Call] = Idle]} ELSE {})

CallFails ==
  /\ ~At(Call, "idle")
  /\ Fault
  /\ task' \in Abandoned /\ Refused
  /\ UNCHANGED <<hub, row, last, events, local, edits>>

\* Subscribe has returned, which handles one event at a time: Run deregisters and
\* starts over.
Leave ==
  /\ agent.pc = "loop" /\ work = "recv"
  /\ Fault
  /\ UpdateInstanceStatus("offline", task) \/ UNCHANGED <<row, task, last>>
  /\ agent' = [agent EXCEPT !.pc = "out"]
  /\ events' = <<>>
  /\ UNCHANGED <<hub, ask, local, edits>>

\* The process ends anywhere, of itself or after Stop has deregistered; the next one
\* claims what the state file says (without one "unknown", which is no version).
Exit ==
  /\ agent.pc # "out"
  /\ Fault
  /\ \E tasks \in Abandoned :
       \/ task' = tasks /\ UNCHANGED <<row, last>>
       \/ agent.pc # "register" /\ UpdateInstanceStatus("offline", tasks)
  /\ agent' = [pc |-> "out", claim |-> disk.saved, said |-> Nothing]
  /\ ask' = NoAsk /\ events' = <<>> /\ work' = "recv"
  /\ job' = [g \in Goroutine |-> NoJob]
  /\ astray' = (astray \ {"adopt"})
                \cup (IF \E g \in Goroutine : job[g].pc \in {"claim", "save"} THEN {"cut"} ELSE {})
  /\ UNCHANGED <<hub, disk, withdrawn, edits>>

-----------------------------------------------------------------------------
\* The API.

Publish(c) ==
  /\ c \in Growing /\ latest[c] < MaxVersion
  /\ latest' = [latest EXCEPT ![c] = @ + 1]
  /\ UNCHANGED <<row, task, dep, named, agent, ask, events, last, local, counters>>

\* UpdateInstance of the API; the body may name a status.
EditReads ==
  /\ At(Other, "idle") /\ row.there
  /\ edits < MaxEdits /\ edits' = edits + 1
  /\ \E s \in Edited \cup {row.status} : ReadRow(Other, "edit write", s)
  /\ UNCHANGED <<hub, row, agent, ask, events, last, local, faults>>

EditWrites ==
  /\ At(Other, "edit write")
  /\ LET t == task[Other] IN
       UpdateInstance(Other, [t.copy EXCEPT !.status = t.status],
                      IF t.status = t.copy.status THEN {} ELSE {"status"}, Idle)
  /\ UNCHANGED <<hub, agent, events, local, counters>>

\* A deployment_instances row that names the instance keeps it.
DeleteInstance ==
  /\ row.there /\ ~named
  /\ row' = Missing
  /\ last' = Unset
  /\ NoteMove(Missing)
  /\ UNCHANGED <<hub, task, agent, events, local, counters>>

\* A handler or a worker ends before its write, or its write fails.
Drop(t) ==
  /\ t # Call /\ (Holds(t) \/ task[t].pc \in {"register read", "beat read", "reported"})
  /\ Go(t, IF t = Other THEN "idle" ELSE "done")
  /\ UNCHANGED <<hub, row, agent, ask, events, last, local, counters>>

-----------------------------------------------------------------------------
\* Deployments, as far as they write the row (DeploymentRunner has the rest).

Send(d, v, rollback) == events' = Append(events, [d |-> d, v |-> v, rollback |-> rollback])

DeployToInstance(d, c, v) ==
  /\ At(d, "idle") /\ v <= latest[c]
  /\ Connected
  /\ dep' = [dep EXCEPT ![d] = [c |-> c, v |-> v]]
  /\ named' = (named \/ row.there)
  /\ Send(d, v, FALSE)
  /\ Go(d, "sent")
  /\ withdrawn' = withdrawn \ {<<c, v>>}
  /\ UNCHANGED <<latest, row, agent, ask, work, job, disk, astray, last, counters>>

\* waitForInstance ends without a success.
GiveUp(d) ==
  /\ At(d, "sent")
  /\ Go(d, "failed")
  /\ UNCHANGED <<hub, row, agent, ask, events, last, local, counters>>

RecordReads(d) ==
  /\ At(d, "reported")
  /\ IF row.there THEN ReadRow(d, "record write", "unknown") ELSE Go(d, "done")
  /\ UNCHANGED <<hub, row, agent, ask, events, last, local, counters>>

RecordWrites(d) ==
  /\ At(d, "record write")
  /\ UpdateInstance(d, [task[d].copy EXCEPT !.assignment = <<dep[d].c, dep[d].v>>], {"assignment"},
                    [Idle EXCEPT !.pc = "done"])
  /\ UNCHANGED <<hub, agent, events, local, counters>>

\* The deployment fails elsewhere: the instance is sent the version before.
Rollback(d) ==
  /\ At(d, "done") /\ dep[d].v > 1
  /\ Connected
  /\ Send(d, dep[d].v - 1, TRUE)
  /\ Go(d, "undone")
  /\ UNCHANGED <<hub, row, agent, ask, last, local, counters>>

-----------------------------------------------------------------------------
\* The instance is new, was made through the API (CreateInstance), or has been
\* deployed to and stopped.
Init ==
  \E start \in {Nothing} \cup (Start \X {1}), made \in BOOLEAN :
    /\ latest = [c \in Config |-> 1]
    /\ row = IF start # Nothing THEN [there |-> TRUE, assignment |-> start, status |-> "offline"]
             ELSE [Missing EXCEPT !.there = made]
    /\ named = (start # Nothing)
    /\ last = [assignment |-> row.assignment, status |-> row.status]
    /\ agent = [pc |-> "out", claim |-> start, said |-> Nothing]
    /\ disk = [file |-> start, saved |-> start, active |-> FALSE]
    /\ job = [g \in Goroutine |-> NoJob] /\ work = "recv" /\ astray = {}
    /\ task = [t \in Task |-> Idle]
    /\ dep = [d \in Deployment |-> [c |-> NoConfig, v |-> 0]]
    /\ ask = NoAsk /\ events = <<>>
    /\ withdrawn = {}
    /\ edits = 0 /\ faults = 0

\* What the agent's main goroutine does and waits for.
MainGoroutine ==
  \/ SendRegister \/ RegisterReads(Call) \/ RegisterWrites(Call) \/ RegisterRereads
  \/ RegisterAnswers \/ ReportInterrupted
  \/ SendHeartbeat \/ HeartbeatReads(Call) \/ HeartbeatWrites(Call) \/ HeartbeatAnswers
  \/ FetchConfig \/ FetchConfigFails \/ OnConfigUpdate("main")

\* The events goroutine's part without the hub.
ApplyDeployment == OnConfigUpdate("events") \/ DeploymentApplied

Next ==
  \/ MainGoroutine
  \/ RegisterReads(Other) \/ RegisterWrites(Other)
  \/ HeartbeatReads(Other) \/ HeartbeatWrites(Other)
  \/ CallFails \/ Leave \/ Exit
  \/ EditReads \/ EditWrites \/ DeleteInstance
  \/ \E c \in Config : Publish(c)
  \/ \E t \in Task : Drop(t)
  \/ \E d \in Deployment :
       \/ \E c \in Config, v \in Version : DeployToInstance(d, c, v)
       \/ GiveUp(d) \/ RecordReads(d) \/ RecordWrites(d) \/ Rollback(d)
  \/ BeginDeployment \/ OnDeployment \/ ApplyDeployment \/ EndDeployment

Spec == Init /\ [][Next]_vars /\ WF_vars(MainGoroutine) /\ WF_vars(ApplyDeployment)

-----------------------------------------------------------------------------
\* Properties.

Assignment == {Nothing} \cup (Config \X Version)
Status == {"unknown", "online", "offline", "degraded", "deploying", "draining"} \cup Edited
Row == [there : BOOLEAN, assignment : Assignment, status : Status]
HandlerPc == {"idle", "register read", "register write", "register reread", "register answer",
              "beat read", "beat write", "beat answer", "edit write"}
WorkerPc == {"idle", "sent", "reported", "record write", "done", "undone", "failed"}

TypeOK ==
  /\ latest \in [Config -> Version]
  /\ row \in Row
  /\ task \in [Task -> [pc : HandlerPc \cup WorkerPc, copy : Row, status : Status,
                        late : SUBSET Field]]
  /\ \A h \in Handler : task[h].pc \in HandlerPc
  /\ \A d \in Deployment : task[d].pc \in WorkerPc
  /\ dep \in [Deployment -> [c : Config \cup {NoConfig}, v : 0..MaxVersion]]
  /\ named \in BOOLEAN
  /\ agent \in [pc : {"out", "register", "report", "loop", "wait", "fetch", "apply"},
                claim : Assignment, said : Assignment]
  /\ ask \in [c : Config \cup {NoConfig}, v : 0..MaxVersion, left : 0..2, moved : BOOLEAN]
  /\ agent.pc \in {"fetch", "apply"} <=> ask.left > 0
  /\ agent.pc \in {"out", "loop"} => ask = NoAsk
  /\ job \in [Goroutine -> [pc : {"idle", "write", "claim", "save", "again"}, v : Assignment,
                            alone : BOOLEAN]]
  /\ agent.pc = "apply" <=> job["main"].pc # "idle"
  /\ work \in {"recv", "begin", "apply", "completed", "failed"}
  /\ work = "apply" <=> job["events"].pc # "idle"
  /\ work # "recv" => Connected /\ events # <<>>
  /\ disk \in [file : Assignment, saved : Assignment, active : BOOLEAN]
  /\ events \in Seq([d : Deployment, v : Version, rollback : BOOLEAN])
  /\ last \in [assignment : Assignment, status : Status]
  /\ astray \subseteq {"adopt", "overlap", "cut"}
  /\ withdrawn \subseteq Config \X Version
  /\ edits \in 0..MaxEdits /\ faults \in 0..MaxFaults

\* What was last recorded in a field of the row stays there whatever requests
\* write the row for the sake of other fields, except one that had read the row
\* before, whose write counts as the last: Register, Heartbeat, UpdateInstance,
\* deployToInstance, beside the status writes of ReportDeploymentStatus and Deregister.
RowKeepsWrites == row.assignment = last.assignment /\ row.status = last.status

\* The agent gets the version of the configuration it was announced, unless the
\* instance was assigned another one since the heartbeat read its row: GetConfig
\* looks the configuration up again.
FetchedIsAnnounced == agent.pc = "apply" => ask.moved \/ job["main"].v = <<ask.c, ask.v>>

\* Once faults, deployments, updates and new versions end, the row of an agent that
\* stays connected shows a state of its heartbeats, whatever the deployment's reports
\* left there, and the agent claims the latest version of the configuration its row
\* names.  It runs it, too, unless since the last application that was left alone it
\* has taken Register's answer for what it has ("adopt"), its goroutines have applied
\* at once ("overlap") or a process ended after WriteConfig and before SetConfigState
\* ("cut"): Heartbeat, sendHeartbeat, OnConfigUpdate.
Converged ==
  Connected /\ row.there =>
    /\ row.status \in Reported
    /\ row.assignment # Nothing =>
         LET c == row.assignment[1] IN
           /\ agent.claim = <<c, latest[c]>>
           /\ disk.file = agent.claim \/ astray # {}
ConvergesToLatest == <>[]Converged

\* An agent that was rolled back from a version does not run it again, unless it is
\* deployed again: "Instance rolled back to v1", docs/fleet-management.md.
RolledBackStaysOff == disk.file \notin withdrawn
=============================================================================
