------------------------------- MODULE Agent --------------------------------
(***************************************************************************)
(* The agent beside a Sentinel proxy                                       *)
(*   internal/agent/agent.go, client.go, state.go, sentinel.go             *)
(*                                                                         *)
(* Two goroutines: "main" registers, reports an interrupted deployment,    *)
(* sends heartbeats and fetches what the hub announces; "events" receives  *)
(* the events of one stream.  Both apply configurations through            *)
(* OnConfigUpdate, and both write the state file.  The process may end     *)
(* between any two steps; files survive it.                                *)
(*                                                                         *)
(* A version stands for its number, hash and content; 0 is no version.     *)
(***************************************************************************)
EXTENDS Naturals, FiniteSets

CONSTANTS
  Deployment,    \* deployment events the hub may send (bound); a target list that
                 \* names the instance twice makes two of one deployment
  MaxVersion,    \* bound: versions of the instance's configuration
  MaxPushes,     \* bound: config update events
  MaxStarts,     \* bound: times the agent is started
  NoDeployment,
  NoFile, Empty, Torn \* contents of a file that hold no version

ASSUME VersionsAssumption == MaxVersion \in Nat \ {0}
ASSUME StartsAssumption == MaxStarts \in Nat \ {0} /\ MaxPushes \in Nat
ASSUME DeploymentAssumption == NoDeployment \notin Deployment
ASSUME ContentAssumption ==
  /\ {NoFile, Empty, Torn} \cap Nat = {}
  /\ NoFile # Empty /\ NoFile # Torn /\ Empty # Torn

Thread == {"main", "events"}
Version == 1..MaxVersion

VARIABLES
  main,      \* where Run is: "down", "connect", "report", "save", "open",
             \* "beat", "fetch", "loop", "leave"
  todo,      \* fetches the last heartbeat asked for: how many, of what
  ev,        \* the events goroutine: where it is, deployment, version, outcome
  job,       \* OnConfigUpdate in a goroutine: where it is, version
  fd,        \* where the file lies that WriteFile of a goroutine has open
  tmp, file, \* the temporary and the proxy's configuration file
  claim,     \* currentConfigVersion: what heartbeats say
  mem, disk, \* the state manager's copy and the state file
  starts,    \* times the agent was started
  latest,    \* the latest version of the assigned config at the hub
  pushes,    \* config update events sent
  delivered, \* deployments whose event arrived
  sent,      \* <<deployment, outcome>> of final reports sent
  drift      \* what may have set claim and file apart

fileVars == <<job, fd, tmp, file>>
stateVars == <<mem, disk>>
hubVars == <<latest, pushes, delivered>>
vars == <<main, todo, ev, fileVars, claim, stateVars, starts, hubVars, sent, drift>>

NoJob == [pc |-> "none", v |-> 0]
NoFetch == [left |-> 0, v |-> 0]
NoEvents == [pc |-> "off", d |-> NoDeployment, v |-> 0, ok |-> TRUE]
Fresh == [active |-> NoDeployment, version |-> 0]
Applying(t) == job[t].pc # "none"

-----------------------------------------------------------------------------
\* Applying a configuration: OnConfigUpdate in goroutine t.  WriteConfig makes
\* a temporary file, always of the same name, and renames it.

\* The goroutine enters OnConfigUpdate with a version it fetched.
Apply(t, v) ==
  /\ job' = [job EXCEPT ![t] = [pc |-> "create", v |-> v]]
  /\ drift' = IF \E u \in Thread \ {t} : Applying(u) THEN drift \cup {"overlap"} ELSE drift

Advance(t, from, to) ==
  /\ job[t].pc = from
  /\ job' = [job EXCEPT ![t].pc = to]

\* Fault: the configuration file is written in place.
FaultyCreateTemp(t) ==
  /\ Advance(t, "create", "write")
  /\ file' = Empty /\ fd' = [fd EXCEPT ![t] = "file"]
  /\ UNCHANGED <<main, todo, ev, tmp, claim, stateVars, starts, hubVars, sent, drift>>

\* WriteFile creates the temporary file or truncates the one it finds ...
CreateTemp(t) ==
  /\ Advance(t, "create", "write")
  /\ tmp' = Empty /\ fd' = [fd EXCEPT ![t] = "tmp"]
  /\ UNCHANGED <<main, todo, ev, file, claim, stateVars, starts, hubVars, sent, drift>>

\* ... and writes from its start, over what another goroutine wrote meanwhile.
Overlay(old, v) == IF old \in {Empty, v} THEN {v} ELSE {v, Torn}

WriteTemp(t) ==
  /\ Advance(t, "write", "rename")
  /\ fd' = [fd EXCEPT ![t] = "closed"]
  /\ CASE fd[t] = "tmp"  -> tmp' \in Overlay(tmp, job[t].v) /\ UNCHANGED file
       [] fd[t] = "file" -> file' \in Overlay(file, job[t].v) /\ UNCHANGED tmp
       [] OTHER          -> UNCHANGED <<tmp, file>>
  /\ UNCHANGED <<main, todo, ev, claim, stateVars, starts, hubVars, sent, drift>>

\* The rename takes whatever file has the name; an open file moves with it.
RenameTemp(t) ==
  /\ Advance(t, "rename", "claim") /\ tmp # NoFile
  /\ file' = tmp /\ tmp' = NoFile
  /\ fd' = [u \in Thread |-> CASE fd[u] = "tmp"  -> "file"
                               [] fd[u] = "file" -> "closed"
                               [] OTHER          -> fd[u]]
  /\ UNCHANGED <<main, todo, ev, claim, stateVars, starts, hubVars, sent, drift>>

\* The other goroutine has renamed it already: WriteConfig fails, and removes
\* whatever temporary file there is by then.
RenameFails(t) ==
  /\ Advance(t, "rename", "remove") /\ tmp = NoFile
  /\ UNCHANGED <<main, todo, ev, fd, tmp, file, claim, stateVars, starts, hubVars,
                 sent, drift>>

RemoveTemp(t) ==
  /\ Advance(t, "remove", "failed")
  /\ tmp' = NoFile
  /\ fd' = [u \in Thread |-> IF fd[u] = "tmp" THEN "closed" ELSE fd[u]]
  /\ UNCHANGED <<main, todo, ev, file, claim, stateVars, starts, hubVars, sent, drift>>

\* A failed reload is only logged.
UpdateConfigState(t) ==
  /\ Advance(t, "claim", "record")
  /\ claim' = job[t].v
  /\ UNCHANGED <<main, todo, ev, fd, tmp, file, stateVars, starts, hubVars, sent, drift>>

\* Fault: the state is made anew.
FaultySetConfigState(v) == mem' = [Fresh EXCEPT !.version = v]

\* SetConfigState and SetActiveDeployment change the copy under the lock; Save
\* takes the lock again and writes the whole copy.
SetConfigState(v) == mem' = [mem EXCEPT !.version = v]

SetActiveDeployment(d) == mem' = [mem EXCEPT !.active = d]

Save == disk' = mem

RecordConfig(t) ==
  /\ Advance(t, "record", "save")
  /\ SetConfigState(job[t].v)
  /\ UNCHANGED <<main, todo, ev, fd, tmp, file, claim, disk, starts, hubVars, sent, drift>>

SaveConfig(t) ==
  /\ Advance(t, "save", "done")
  /\ Save
  /\ UNCHANGED <<main, todo, ev, fd, tmp, file, claim, mem, starts, hubVars, sent, drift>>

ApplyStep(t) ==
  CreateTemp(t) \/ WriteTemp(t) \/ RenameTemp(t) \/ RenameFails(t) \/ RemoveTemp(t)
    \/ UpdateConfigState(t) \/ RecordConfig(t) \/ SaveConfig(t)

-----------------------------------------------------------------------------
\* The main goroutine.

\* Fault: a restarted agent does not restore what it runs.
FaultyRestored(s) == 0

\* What New restores from the state file, for want of it "unknown".
Restored(s) == s.version

\* The command starts and New loads the state file.
Start ==
  /\ main = "down" /\ starts < MaxStarts
  /\ starts' = starts + 1
  /\ mem' = disk
  /\ claim' = Restored(disk)
  /\ main' = "connect"
  /\ UNCHANGED <<todo, ev, fileVars, disk, hubVars, sent, drift>>

\* The version the hub answers is adopted as the agent's own.
Register ==
  /\ main = "connect"
  /\ main' = "report"
  /\ IF latest # 0
       THEN /\ claim' = latest
            /\ drift' = IF claim = latest THEN drift ELSE drift \cup {"adopt"}
       ELSE UNCHANGED <<claim, drift>>
  /\ UNCHANGED <<todo, ev, fileVars, stateVars, starts, hubVars, sent>>

\* reportInterruptedDeployment: nothing on record,
NothingInterrupted ==
  /\ main = "report" /\ mem.active = NoDeployment
  /\ main' = "open"
  /\ UNCHANGED <<todo, ev, fileVars, claim, stateVars, starts, hubVars, sent, drift>>

\* reported and cleared,
ReportInterrupted ==
  /\ main = "report" /\ mem.active # NoDeployment
  /\ sent' = sent \cup {<<mem.active, "interrupted">>}
  /\ SetActiveDeployment(NoDeployment)
  /\ main' = "save"
  /\ UNCHANGED <<todo, ev, fileVars, claim, disk, starts, hubVars, drift>>

SaveReported ==
  /\ main = "save"
  /\ Save
  /\ main' = "open"
  /\ UNCHANGED <<todo, ev, fileVars, claim, mem, starts, hubVars, sent, drift>>

\* or the call fails, with or without having reached the hub, and Run goes on.
ReportInterruptedFails ==
  /\ main = "report" /\ mem.active # NoDeployment
  /\ sent' = sent \cup {<<mem.active, "interrupted">>}
  /\ main' = "open"
  /\ UNCHANGED <<todo, ev, fileVars, claim, stateVars, starts, hubVars, drift>>

\* runLoop starts the events goroutine and sends the first heartbeat.
OpenLoop ==
  /\ main = "open"
  /\ ev' = [NoEvents EXCEPT !.pc = "recv"]
  /\ main' = "beat"
  /\ UNCHANGED <<todo, fileVars, claim, stateVars, starts, hubVars, sent, drift>>

\* The answer asks twice for the same version when the claim is not the latest:
\* as an action and as an announcement.
Heartbeat ==
  /\ main = "beat"
  /\ IF latest # 0 /\ claim # latest
       THEN main' = "fetch" /\ todo' = [left |-> 2, v |-> latest]
       ELSE main' = "loop" /\ UNCHANGED todo
  /\ UNCHANGED <<ev, fileVars, claim, stateVars, starts, hubVars, sent, drift>>

HeartbeatFails ==
  /\ main = "beat"
  /\ main' = "loop"
  /\ UNCHANGED <<todo, ev, fileVars, claim, stateVars, starts, hubVars, sent, drift>>

FetchConfig ==
  /\ main = "fetch" /\ ~Applying("main")
  /\ Apply("main", todo.v)
  /\ UNCHANGED <<main, todo, ev, fd, tmp, file, claim, stateVars, starts, hubVars, sent>>

\* Fault: the last fetch is not the last.
FaultyNextFetch ==
  /\ todo' = [todo EXCEPT !.left = @ - 1]
  /\ main' = IF todo.left = 0 THEN "loop" ELSE "fetch"

NextFetch ==
  /\ todo' = IF todo.left = 1 THEN NoFetch ELSE [todo EXCEPT !.left = @ - 1]
  /\ main' = IF todo.left = 1 THEN "loop" ELSE "fetch"

FetchConfigFails ==
  /\ main = "fetch" /\ ~Applying("main")
  /\ NextFetch
  /\ UNCHANGED <<ev, fileVars, claim, stateVars, starts, hubVars, sent, drift>>

Fetched ==
  /\ main = "fetch" /\ job["main"].pc \in {"done", "failed"}
  /\ job' = [job EXCEPT !["main"] = NoJob]
  /\ NextFetch
  /\ UNCHANGED <<ev, fd, tmp, file, claim, stateVars, starts, hubVars, sent, drift>>

Tick ==
  /\ main = "loop"
  /\ main' = "beat"
  /\ UNCHANGED <<todo, ev, fileVars, claim, stateVars, starts, hubVars, sent, drift>>

\* Fault: the loop is left although the events goroutine runs on.
FaultyStreamEnded == TRUE

StreamEnded == ev.pc = "over"

\* Fault: a stream the hub has closed is taken for no reason to leave.
FaultyLeaveLoop ==
  /\ main = "loop" /\ StreamEnded /\ ~ev.ok
  /\ main' = "leave"
  /\ UNCHANGED <<todo, ev, fileVars, claim, stateVars, starts, hubVars, sent, drift>>

LeaveLoop ==
  /\ main = "loop" /\ StreamEnded
  /\ main' = "leave"
  /\ UNCHANGED <<todo, ev, fileVars, claim, stateVars, starts, hubVars, sent, drift>>

\* Deregister, whatever it answers, and Close.
Leave ==
  /\ main = "leave"
  /\ main' = "connect"
  /\ UNCHANGED <<todo, ev, fileVars, claim, stateVars, starts, hubVars, sent, drift>>

-----------------------------------------------------------------------------
\* The events goroutine.

EventsGo(from, to) == ev.pc = from /\ ev' = [ev EXCEPT !.pc = to]

\* The stream ends with an error, or at the hub's wish.
StreamEnds ==
  /\ ev.pc = "recv"
  /\ \E ok \in BOOLEAN : ev' = [ev EXCEPT !.pc = "over", !.ok = ok]
  /\ UNCHANGED <<main, todo, fileVars, claim, stateVars, starts, hubVars, sent, drift>>

\* A deployment event; its acknowledgement and the report in_progress are sent
\* whatever becomes of them.  The version may be of any config.
ReceiveDeployment(d) ==
  /\ ev.pc = "recv" /\ d \notin delivered
  /\ delivered' = delivered \cup {d}
  /\ \E v \in Version : ev' = [ev EXCEPT !.pc = "track", !.d = d, !.v = v, !.ok = TRUE]
  /\ UNCHANGED <<main, todo, fileVars, claim, stateVars, starts, latest, pushes, sent, drift>>

\* A config update event.
ReceiveUpdate ==
  /\ ev.pc = "recv" /\ latest # 0 /\ pushes < MaxPushes
  /\ pushes' = pushes + 1
  /\ ev' = [ev EXCEPT !.pc = "fetch", !.d = NoDeployment, !.v = latest, !.ok = TRUE]
  /\ UNCHANGED <<main, todo, fileVars, claim, stateVars, starts, latest, delivered, sent, drift>>

\* OnDeployment puts the deployment on record,
Track ==
  /\ EventsGo("track", "saveTrack")
  /\ SetActiveDeployment(ev.d)
  /\ UNCHANGED <<main, todo, fileVars, claim, disk, starts, hubVars, sent, drift>>

SaveTrack ==
  /\ EventsGo("saveTrack", "fetch")
  /\ Save
  /\ UNCHANGED <<main, todo, fileVars, claim, mem, starts, hubVars, sent, drift>>

\* fetches the version,
FetchVersion ==
  /\ EventsGo("fetch", "apply")
  /\ Apply("events", ev.v)
  /\ UNCHANGED <<main, todo, fd, tmp, file, claim, stateVars, starts, hubVars, sent>>

\* A failure of the fetch or of OnConfigUpdate takes the record back.
GiveUpEvent == ev' = [ev EXCEPT !.pc = IF ev.d = NoDeployment THEN "recv" ELSE "clear", !.ok = FALSE]

FetchVersionFails ==
  /\ ev.pc = "fetch"
  /\ GiveUpEvent
  /\ UNCHANGED <<main, todo, fileVars, claim, stateVars, starts, hubVars, sent, drift>>

ApplyFailed ==
  /\ ev.pc = "apply" /\ job["events"].pc = "failed"
  /\ GiveUpEvent
  /\ job' = [job EXCEPT !["events"] = NoJob]
  /\ UNCHANGED <<main, todo, fd, tmp, file, claim, stateVars, starts, hubVars, sent, drift>>

\* A deployment records its version once more, with the config's ID; a config
\* update claims its version once more.
RecordAgain ==
  /\ ev.pc = "apply" /\ job["events"].pc = "done"
  /\ IF ev.d # NoDeployment
       THEN /\ SetConfigState(ev.v) /\ ev' = [ev EXCEPT !.pc = "saveAgain"]
            /\ UNCHANGED <<claim, job>>
       ELSE /\ claim' = ev.v /\ ev' = [ev EXCEPT !.pc = "recv"]
            /\ job' = [job EXCEPT !["events"] = NoJob]
            /\ UNCHANGED mem
  /\ UNCHANGED <<main, todo, fd, tmp, file, disk, starts, hubVars, sent, drift>>

SaveAgain ==
  /\ EventsGo("saveAgain", "clear")
  /\ Save
  /\ job' = [job EXCEPT !["events"] = NoJob]
  /\ UNCHANGED <<main, todo, fd, tmp, file, claim, mem, starts, hubVars, sent, drift>>

\* The record is cleared before the outcome is reported.
Clear ==
  /\ EventsGo("clear", "saveClear")
  /\ SetActiveDeployment(NoDeployment)
  /\ UNCHANGED <<main, todo, fileVars, claim, disk, starts, hubVars, sent, drift>>

SaveClear ==
  /\ EventsGo("saveClear", "answer")
  /\ Save
  /\ UNCHANGED <<main, todo, fileVars, claim, mem, starts, hubVars, sent, drift>>

Outcome == <<ev.d, IF ev.ok THEN "completed" ELSE "failed">>

Answer ==
  /\ EventsGo("answer", "recv")
  /\ sent' = sent \cup {Outcome}
  /\ UNCHANGED <<main, todo, fileVars, claim, stateVars, starts, hubVars, drift>>

-----------------------------------------------------------------------------
\* The process ends, by a crash or by Stop, which waits for neither goroutine.
Crash ==
  /\ main # "down" /\ starts < MaxStarts
  /\ main' = "down" /\ todo' = NoFetch /\ ev' = NoEvents
  /\ job' = [t \in Thread |-> NoJob] /\ fd' = [t \in Thread |-> "closed"]
  /\ mem' = Fresh /\ claim' = 0
  /\ drift' = IF \E t \in Thread : Applying(t) THEN drift \cup {"crash"} ELSE drift
  /\ UNCHANGED <<tmp, file, disk, starts, hubVars, sent>>

\* At the hub: a config is assigned, or a version added to it.
Publish ==
  /\ latest < MaxVersion
  /\ latest' = latest + 1
  /\ UNCHANGED <<main, todo, ev, fileVars, claim, stateVars, starts, pushes, delivered,
                 sent, drift>>

-----------------------------------------------------------------------------
\* A machine the agent never ran on; 0 stands for whatever configuration is there.
Init ==
  /\ main = "down" /\ todo = NoFetch /\ ev = NoEvents
  /\ job = [t \in Thread |-> NoJob] /\ fd = [t \in Thread |-> "closed"]
  /\ tmp = NoFile /\ file = 0 /\ claim = 0
  /\ mem = Fresh /\ disk = Fresh /\ starts = 0
  /\ latest \in 0..MaxVersion /\ pushes = 0 /\ delivered = {}
  /\ sent = {} /\ drift = {}

MainStep ==
  \/ Start \/ Register \/ NothingInterrupted \/ ReportInterrupted \/ SaveReported
  \/ ReportInterruptedFails \/ OpenLoop \/ Heartbeat \/ HeartbeatFails
  \/ FetchConfig \/ FetchConfigFails \/ Fetched \/ Tick \/ LeaveLoop \/ Leave

EventsStep ==
  \/ Track \/ SaveTrack \/ FetchVersion \/ FetchVersionFails \/ ApplyFailed
  \/ RecordAgain \/ SaveAgain \/ Clear \/ SaveClear \/ Answer

Next ==
  \/ MainStep
  \/ EventsStep
  \/ StreamEnds \/ ReceiveUpdate
  \/ \E d \in Deployment : ReceiveDeployment(d)
  \/ \E t \in Thread : ApplyStep(t)
  \/ Crash
  \/ Publish

Spec == Init /\ [][Next]_vars

\* The scheduler runs both goroutines, every call returns, a process that ended
\* is started again; a select takes a case that is ready again and again, and a
\* call made again and again succeeds again and again.
Fairness ==
  /\ WF_vars(MainStep) /\ WF_vars(EventsStep)
  /\ \A t \in Thread : WF_vars(ApplyStep(t))
  /\ SF_vars(LeaveLoop)
  /\ SF_vars(Heartbeat) /\ SF_vars(FetchConfig)

FairSpec == Spec /\ Fairness

-----------------------------------------------------------------------------
MainPc == {"down", "connect", "report", "save", "open", "beat", "fetch", "loop", "leave"}
EventsPc == {"off", "recv", "track", "saveTrack", "fetch", "apply", "saveAgain", "clear",
             "saveClear", "answer", "over"}
JobPc == {"none", "create", "write", "rename", "remove", "claim", "record",
          "save", "done", "failed"}
Content == (0..MaxVersion) \cup {NoFile, Empty, Torn}
Tracked == Deployment \cup {NoDeployment}
StateRow == [active: Tracked, version: 0..MaxVersion]
Final == Deployment \X {"completed", "failed", "interrupted"}

\* Every variable keeps its type; the fetches a heartbeat asked for never run
\* below none.
TypeOK ==
  /\ main \in MainPc
  /\ todo \in [left: 0..2, v: 0..MaxVersion]
  /\ ev \in [pc: EventsPc, d: Tracked, v: 0..MaxVersion, ok: BOOLEAN]
  /\ job \in [Thread -> [pc: JobPc, v: 0..MaxVersion]]
  /\ fd \in [Thread -> {"tmp", "file", "closed"}]
  /\ tmp \in Content /\ file \in Content
  /\ claim \in 0..MaxVersion
  /\ mem \in StateRow /\ disk \in StateRow
  /\ starts \in 0..MaxStarts
  /\ latest \in 0..MaxVersion /\ pushes \in 0..MaxPushes
  /\ delivered \subseteq Deployment
  /\ sent \subseteq Final
  /\ drift \subseteq {"adopt", "overlap", "crash"}

\* While a deployment is worked on it is on record in the state file, whatever
\* the heartbeat's goroutine saves meanwhile: a crash finds it there
\* (OnDeployment: "Track active deployment for crash recovery").
WorkIsOnRecord ==
  ev.d # NoDeployment /\ ev.pc \in {"fetch", "apply", "saveAgain", "clear"} =>
    disk.active = ev.d

\* A deployment event reported as interrupted was not and will not be reported
\* finished: the record is cleared before the outcome is sent, and nobody
\* reports an interruption while a stream's goroutine still works
\* (reportInterruptedDeployment, runLoop).
InterruptedMeansUnfinished ==
  \A d \in Deployment :
    <<d, "interrupted">> \in sent =>
      <<d, "completed">> \notin sent /\ <<d, "failed">> \notin sent

\* Between applications the agent claims what is in the proxy's file and on
\* record, unless it adopted a version from Register, two applications
\* overlapped or one was cut off by a crash.
ClaimIsFile ==
  main # "down" /\ drift = {} /\ (\A t \in Thread : ~Applying(t)) =>
    claim = file /\ claim = mem.version

\* The proxy finds a whole configuration at every moment, also when an application
\* is cut off by a crash and its temporary file is found by the next one, as long as
\* no two applications have overlapped (WriteConfig).
WholeUnlessOverlapped == "overlap" \notin drift => file \notin {NoFile, Empty, Torn}

\* A stream that ended, for whatever reason, makes Run leave the loop and
\* reconnect.
LoopEndsWithStream ==
  (main \in {"beat", "fetch", "loop"} /\ StreamEnded) ~> main \in {"leave", "connect", "down"}

\* What the repository says and the code does not do.

\* sentinel.go: "Write new config atomically (write to temp file, then rename)".
ConfigIsWhole == file \notin {Empty, Torn}

=============================================================================
