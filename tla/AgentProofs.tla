---------------------------- MODULE AgentProofs -----------------------------
(***************************************************************************)
(* Theorems about Agent, for any number of deployments, versions, pushed   *)
(* updates and starts.                                                     *)
(*                                                                         *)
(* The invariant adds to the properties                                    *)
(*   Pending      fetches are counted down to none                         *)
(*   EventsOff    outside the loop no events goroutine is at work          *)
(*   Jobs         whose applications are at work, and of which version     *)
(*   RecordKept   from its tracking to its clearing a deployment is in the *)
(*                state, and afterwards it is not                          *)
(*   Unanswered   a deployment at work or on record was not reported       *)
(*                finished, and one at work was not reported interrupted   *)
(*   Arrived      what is at work, on record or reported has arrived       *)
(*   Saved        the state file is the state, or a Save is due            *)
(*   Untorn       how far one application has come in the files            *)
(*   Undisturbed  how far it has come in claim and record                  *)
(***************************************************************************)
EXTENDS Agent, TLAPS

\* A goroutine is between a change of the state and its Save.
Saving ==
  \/ main \in {"down", "save"}
  \/ ev.pc \in {"saveTrack", "saveAgain", "saveClear"}
  \/ \E t \in Thread : job[t].pc = "save"

\* The lock is given back between a change and its Save (SetConfigState,
\* SetActiveDeployment), and the other goroutine may save or change in between.
Saved == disk = mem \/ Saving

\* A heartbeat's fetches are counted down to none when the loop goes on.
Pending == main = "fetch" => todo.left \in 1..2

EventsOff ==
  main \in {"down", "connect", "report", "save", "open", "leave"} => ev.pc \in {"off", "over"}

Jobs ==
  /\ Applying("main") => main = "fetch"
  /\ Applying("events") => ev.pc \in {"apply", "saveAgain"} /\ job["events"].v = ev.v
  /\ ev.pc = "saveAgain" => job["events"].pc = "done"

Work == {"track", "saveTrack", "fetch", "apply", "saveAgain", "clear", "saveClear", "answer"}
AtWork(d) == ev.pc \in Work /\ ev.d = d

OnlyDeployments ==
  ev.pc \in Work \ {"fetch", "apply"} => ev.d \in Deployment

RecordKept ==
  /\ ev.d # NoDeployment /\ ev.pc \in {"saveTrack", "fetch", "apply", "saveAgain", "clear"} =>
       mem.active = ev.d
  /\ ev.d # NoDeployment /\ ev.pc \in {"fetch", "apply", "saveAgain", "clear"} =>
       disk.active = ev.d
  /\ ev.pc \in {"saveClear", "answer"} => mem.active = NoDeployment
  /\ ev.pc = "answer" => disk.active = NoDeployment

Finished(d) == <<d, "completed">> \in sent \/ <<d, "failed">> \in sent

Unanswered ==
  \A d \in Deployment :
    /\ AtWork(d) => ~Finished(d) /\ <<d, "interrupted">> \notin sent
    /\ mem.active = d \/ disk.active = d => ~Finished(d)

Arrived ==
  \A d \in Deployment :
    AtWork(d) \/ mem.active = d \/ disk.active = d \/ (\E o \in {"completed", "failed", "interrupted"} : <<d, o>> \in sent) =>
      d \in delivered

\* Where one application is in the files, when no two have overlapped: also after
\* a crash has cut one off.
Alone ==
  /\ Applying("main") => ~Applying("events")
  /\ \A t \in Thread :
       /\ job[t].pc \notin {"remove", "failed"}
       /\ fd[t] # "closed" => job[t].pc = "write"
       /\ job[t].pc = "write" => fd[t] = "tmp" /\ tmp = Empty
       /\ job[t].pc = "rename" => tmp = job[t].v
       /\ job[t].pc \in {"claim", "record", "save", "done"} => file = job[t].v

Untorn == "overlap" \notin drift => Alone /\ file \in 0..MaxVersion

\* Where it is in claim and record, when nothing has set them apart.
InStep ==
  /\ main = "down" => disk.version = file
  /\ main # "down" =>
       /\ (\A t \in Thread : job[t].pc # "claim") => claim = file
       /\ (\A t \in Thread : job[t].pc # "record") => mem.version = claim
       /\ (\A t \in Thread : job[t].pc # "save") => disk.version = mem.version

Undisturbed == drift = {} => InStep

IInv ==
  /\ TypeOK /\ Pending
  /\ Saved
  /\ EventsOff /\ Jobs /\ OnlyDeployments /\ RecordKept
  /\ Unanswered /\ Arrived
  /\ InterruptedMeansUnfinished
  /\ Untorn /\ Undisturbed

-----------------------------------------------------------------------------
EventsRow == [pc: EventsPc, d: Tracked, v: 0..MaxVersion, ok: BOOLEAN]
JobRow == [pc: JobPc, v: 0..MaxVersion]

\* What a step of the events goroutine does to its own record.
LEMMA EventsMove ==
  ASSUME TypeOK, NEW from, NEW to \in EventsPc, EventsGo(from, to)
  PROVE  /\ ev.pc = from /\ ev'.pc = to /\ ev'.d = ev.d /\ ev'.v = ev.v /\ ev'.ok = ev.ok
         /\ ev' \in EventsRow
  BY DEF TypeOK, EventsGo, EventsRow

\* An application moves on, and the other goroutine's does not.
LEMMA JobMove ==
  ASSUME TypeOK, NEW t \in Thread, NEW from, NEW to \in JobPc, Advance(t, from, to)
  PROVE  /\ job' \in [Thread -> JobRow]
         /\ job[t].pc = from /\ job'[t].pc = to /\ job'[t].v = job[t].v
         /\ \A u \in Thread \ {t} : job'[u] = job[u]
<1>1. job[t] \in JobRow
  BY DEF TypeOK, JobRow
<1>2. [job[t] EXCEPT !.pc = to] \in JobRow
  BY <1>1 DEF JobRow
<1>3. job' = [job EXCEPT ![t] = [job[t] EXCEPT !.pc = to]]
  BY DEF Advance
<1>. QED
  BY <1>1, <1>2, <1>3 DEF TypeOK, Advance, JobRow

\* An application starts.
LEMMA JobStarts ==
  ASSUME TypeOK, NEW t \in Thread, NEW v \in 0..MaxVersion, Apply(t, v)
  PROVE  /\ job' \in [Thread -> JobRow]
         /\ job'[t].pc = "create" /\ job'[t].v = v
         /\ \A u \in Thread \ {t} : job'[u] = job[u]
         /\ drift' \in {drift, drift \cup {"overlap"}}
         /\ (\E u \in Thread \ {t} : Applying(u)) => "overlap" \in drift'
  BY DEF TypeOK, Apply, JobRow, JobPc

\* An application is over.
LEMMA JobEnds ==
  ASSUME TypeOK, NEW t \in Thread, job' = [job EXCEPT ![t] = NoJob]
  PROVE  /\ job' \in [Thread -> JobRow]
         /\ job'[t].pc = "none"
         /\ \A u \in Thread \ {t} : job'[u] = job[u]
  BY VersionsAssumption DEF TypeOK, JobRow, JobPc, NoJob

\* The record of the configuration and of the deployment are apart.
LEMMA ConfigMove ==
  ASSUME TypeOK, NEW v \in 0..MaxVersion, SetConfigState(v)
  PROVE  mem' \in StateRow /\ mem'.active = mem.active /\ mem'.version = v
  BY DEF TypeOK, SetConfigState, StateRow

LEMMA ActiveMove ==
  ASSUME TypeOK, NEW d \in Tracked, SetActiveDeployment(d)
  PROVE  mem' \in StateRow /\ mem'.active = d /\ mem'.version = mem.version
  BY DEF TypeOK, SetActiveDeployment, StateRow

\* The values a state without work has are well typed.
LEMMA Nothing ==
  /\ NoFetch \in [left: 0..2, v: 0..MaxVersion]
  /\ NoEvents \in EventsRow
  /\ [t \in Thread |-> NoJob] \in [Thread -> JobRow]
  /\ [t \in Thread |-> "closed"] \in [Thread -> {"tmp", "file", "closed"}]
  /\ Fresh \in StateRow
  BY VersionsAssumption
  DEF NoFetch, NoEvents, NoJob, Fresh, EventsRow, EventsPc, JobRow, JobPc, StateRow, Tracked

-----------------------------------------------------------------------------
\* What a goroutine leaves alone.

LEMMA ApplyFrame ==
  ASSUME NEW t \in Thread, ApplyStep(t)
  PROVE  UNCHANGED <<main, todo, ev, starts, hubVars, sent, drift>>
  BY DEF ApplyStep, CreateTemp, WriteTemp, RenameTemp, RenameFails, RemoveTemp, UpdateConfigState,
         RecordConfig, SaveConfig

LEMMA EventsFrame ==
  ASSUME EventsStep
  PROVE  UNCHANGED <<main, todo, fd, tmp, file, starts, hubVars>>
  BY DEF EventsStep, Track, SaveTrack, FetchVersion, FetchVersionFails, ApplyFailed,
         RecordAgain, SaveAgain, Clear, SaveClear, Answer, fileVars

LEMMA MainFrame ==
  ASSUME MainStep
  PROVE  UNCHANGED <<fd, tmp, file, hubVars>>
  BY DEF MainStep, Start, Register, NothingInterrupted, ReportInterrupted, SaveReported,
         ReportInterruptedFails, OpenLoop, Heartbeat, HeartbeatFails, FetchConfig,
         FetchConfigFails, Fetched, Tick, LeaveLoop, Leave, fileVars

-----------------------------------------------------------------------------
\* Types.

LEMMA TypesApply ==
  ASSUME TypeOK, NEW t \in Thread, ApplyStep(t)
  PROVE  TypeOK'
<1>. JobRow = [pc: JobPc, v: 0..MaxVersion]
  BY DEF JobRow
<1>0. UNCHANGED <<main, todo, ev, starts, hubVars, sent, drift>>
  BY ApplyFrame
<1>v. job[t].v \in 0..MaxVersion
  BY DEF TypeOK
<1>1. CASE CreateTemp(t)
  <2>1. job' \in [Thread -> JobRow]
    BY <1>1, JobMove DEF CreateTemp, JobPc
  <2>. QED
    BY <1>0, <1>1, <2>1 DEF CreateTemp, TypeOK, hubVars, stateVars, Content
<1>2. CASE WriteTemp(t)
  <2>1. job' \in [Thread -> JobRow]
    BY <1>2, JobMove DEF WriteTemp, JobPc
  <2>2. tmp' \in Content /\ file' \in Content
    BY <1>2, <1>v DEF WriteTemp, Overlay, TypeOK, Content
  <2>. QED
    BY <1>0, <1>2, <2>1, <2>2 DEF WriteTemp, TypeOK, hubVars, stateVars
<1>3. CASE RenameTemp(t)
  <2>1. job' \in [Thread -> JobRow]
    BY <1>3, JobMove DEF RenameTemp, JobPc
  <2>. QED
    BY <1>0, <1>3, <2>1 DEF RenameTemp, TypeOK, hubVars, stateVars, Content
<1>4. CASE RenameFails(t)
  <2>1. job' \in [Thread -> JobRow]
    BY <1>4, JobMove DEF RenameFails, JobPc
  <2>. QED
    BY <1>0, <1>4, <2>1 DEF RenameFails, TypeOK, hubVars, stateVars
<1>r. CASE RemoveTemp(t)
  <2>1. job' \in [Thread -> JobRow]
    BY <1>r, JobMove DEF RemoveTemp, JobPc
  <2>. QED
    BY <1>0, <1>r, <2>1 DEF RemoveTemp, TypeOK, hubVars, stateVars, Content
<1>5. CASE UpdateConfigState(t)
  <2>1. job' \in [Thread -> JobRow]
    BY <1>5, JobMove DEF UpdateConfigState, JobPc
  <2>. QED
    BY <1>0, <1>5, <1>v, <2>1 DEF UpdateConfigState, TypeOK, hubVars, stateVars
<1>6. CASE RecordConfig(t)
  <2>1. job' \in [Thread -> JobRow]
    BY <1>6, JobMove DEF RecordConfig, JobPc
  <2>2. mem' \in StateRow
    BY <1>6, <1>v, ConfigMove DEF RecordConfig
  <2>. QED
    BY <1>0, <1>6, <2>1, <2>2 DEF RecordConfig, TypeOK, hubVars
<1>7. CASE SaveConfig(t)
  <2>1. job' \in [Thread -> JobRow]
    BY <1>7, JobMove DEF SaveConfig, JobPc
  <2>. QED
    BY <1>0, <1>7, <2>1 DEF SaveConfig, Save, TypeOK, hubVars
<1>. QED
  BY <1>1, <1>2, <1>3, <1>4, <1>r, <1>5, <1>6, <1>7 DEF ApplyStep

LEMMA TypesMain ==
  ASSUME TypeOK, Pending, MainStep
  PROVE  TypeOK'
<1>. JobRow = [pc: JobPc, v: 0..MaxVersion]
  BY DEF JobRow
<1>. EventsRow = [pc: EventsPc, d: Tracked, v: 0..MaxVersion, ok: BOOLEAN]
  BY DEF EventsRow
<1>0. UNCHANGED <<fd, tmp, file, hubVars>>
  BY MainFrame
<1>1. CASE Start
  BY <1>0, <1>1, StartsAssumption
  DEF Start, Restored, TypeOK, MainPc, StateRow, fileVars, hubVars
<1>2. CASE Register
  BY <1>0, <1>2 DEF Register, TypeOK, MainPc, fileVars, stateVars, hubVars
<1>3. CASE NothingInterrupted
  BY <1>0, <1>3 DEF NothingInterrupted, TypeOK, MainPc, fileVars, stateVars, hubVars
<1>11. CASE ReportInterruptedFails
  <2>1. mem.active \in Deployment
    BY <1>11 DEF ReportInterruptedFails, TypeOK, StateRow, Tracked
  <2>2. sent' \subseteq Final
    BY <1>11, <2>1 DEF ReportInterruptedFails, TypeOK, Final
  <2>. QED
    BY <1>0, <1>11, <2>2
    DEF ReportInterruptedFails, TypeOK, MainPc, fileVars, stateVars, hubVars
<1>4. CASE ReportInterrupted
  <2>1. mem.active \in Deployment
    BY <1>4 DEF ReportInterrupted, TypeOK, StateRow, Tracked
  <2>2. mem' \in StateRow
    BY <1>4, ActiveMove DEF ReportInterrupted, Tracked
  <2>. QED
    BY <1>0, <1>4, <2>1, <2>2 DEF ReportInterrupted, TypeOK, MainPc, Final, fileVars, hubVars
<1>5. CASE SaveReported
  BY <1>0, <1>5 DEF SaveReported, Save, TypeOK, MainPc, fileVars, hubVars
<1>6. CASE OpenLoop
  <2>1. ev' \in EventsRow
    BY <1>6, Nothing DEF OpenLoop, EventsPc
  <2>. QED
    BY <1>0, <1>6, <2>1 DEF OpenLoop, TypeOK, MainPc, fileVars, stateVars, hubVars
<1>7. CASE Heartbeat
  BY <1>0, <1>7 DEF Heartbeat, TypeOK, MainPc, fileVars, stateVars, hubVars
<1>8. CASE HeartbeatFails \/ Tick \/ LeaveLoop \/ Leave
  BY <1>0, <1>8
  DEF HeartbeatFails, Tick, LeaveLoop, Leave, TypeOK, MainPc, fileVars, stateVars, hubVars
<1>9. CASE FetchConfig
  <2>1. todo.v \in 0..MaxVersion
    BY DEF TypeOK
  <2>2. job' \in [Thread -> JobRow] /\ drift' \subseteq {"adopt", "overlap", "crash"}
    BY <1>9, <2>1, JobStarts DEF FetchConfig, Thread, TypeOK
  <2>. QED
    BY <1>0, <1>9, <2>2 DEF FetchConfig, TypeOK, stateVars, hubVars
<1>10. CASE FetchConfigFails \/ Fetched
  <2>1. job' \in [Thread -> JobRow]
    BY <1>10, JobEnds DEF FetchConfigFails, Fetched, TypeOK, Thread, fileVars
  <2>2. todo' \in [left: 0..2, v: 0..MaxVersion]
    <3>1. NextFetch /\ todo.left \in 1..2
      BY <1>10 DEF FetchConfigFails, Fetched, Pending
    <3>. QED
      BY <3>1, Nothing DEF NextFetch, TypeOK
  <2>3. main' \in MainPc
    BY <1>10 DEF FetchConfigFails, Fetched, NextFetch, MainPc
  <2>. QED
    BY <1>0, <1>10, <2>1, <2>2, <2>3
    DEF FetchConfigFails, Fetched, TypeOK, stateVars, hubVars
<1>. QED
  BY <1>1, <1>2, <1>3, <1>4, <1>5, <1>6, <1>7, <1>8, <1>9, <1>10, <1>11
  DEF MainStep

LEMMA TypesEvents ==
  ASSUME TypeOK, OnlyDeployments, EventsStep
  PROVE  TypeOK'
<1>. JobRow = [pc: JobPc, v: 0..MaxVersion]
  BY DEF JobRow
<1>. EventsRow = [pc: EventsPc, d: Tracked, v: 0..MaxVersion, ok: BOOLEAN]
  BY DEF EventsRow
<1>0. UNCHANGED <<main, todo, fd, tmp, file, starts, hubVars>>
  BY EventsFrame
<1>v. ev.v \in 0..MaxVersion /\ ev.d \in Tracked /\ ev \in EventsRow
  BY DEF TypeOK
<1>g. GiveUpEvent => ev' \in EventsRow
  BY <1>v DEF GiveUpEvent, EventsPc
<1>1. CASE Track
  <2>1. ev' \in EventsRow /\ mem' \in StateRow
    BY <1>1, <1>v, EventsMove, ActiveMove DEF Track, EventsPc
  <2>. QED
    BY <1>0, <1>1, <2>1 DEF Track, TypeOK, fileVars, hubVars
<1>2. CASE SaveTrack \/ SaveClear
  <2>1. ev' \in EventsRow
    BY <1>2, EventsMove DEF SaveTrack, SaveClear, EventsPc
  <2>. QED
    BY <1>0, <1>2, <2>1 DEF SaveTrack, SaveClear, Save, TypeOK, fileVars, hubVars
<1>3. CASE FetchVersion
  <2>1. ev' \in EventsRow
    BY <1>3, EventsMove DEF FetchVersion, EventsPc
  <2>2. job' \in [Thread -> JobRow] /\ drift' \subseteq {"adopt", "overlap", "crash"}
    BY <1>3, <1>v, JobStarts DEF FetchVersion, Thread, TypeOK
  <2>. QED
    BY <1>0, <1>3, <2>1, <2>2 DEF FetchVersion, TypeOK, stateVars, hubVars
<1>4. CASE FetchVersionFails
  BY <1>0, <1>4, <1>g DEF FetchVersionFails, TypeOK, fileVars, stateVars, hubVars
<1>5. CASE ApplyFailed
  <2>1. job' \in [Thread -> JobRow]
    BY <1>5, JobEnds DEF ApplyFailed, Thread
  <2>. QED
    BY <1>0, <1>5, <1>g, <2>1 DEF ApplyFailed, TypeOK, stateVars, hubVars
<1>6. CASE RecordAgain
  <2>1. job' \in [Thread -> JobRow]
    BY <1>6, JobEnds DEF RecordAgain, Thread, TypeOK
  <2>2. ev' \in EventsRow
    BY <1>6, <1>v DEF RecordAgain, EventsPc
  <2>3. mem' \in StateRow
    BY <1>6, <1>v, ConfigMove DEF RecordAgain, TypeOK
  <2>. QED
    BY <1>0, <1>6, <1>v, <2>1, <2>2, <2>3 DEF RecordAgain, TypeOK, hubVars
<1>7. CASE SaveAgain
  <2>1. job' \in [Thread -> JobRow] /\ ev' \in EventsRow
    BY <1>7, JobEnds, EventsMove DEF SaveAgain, Thread, EventsPc
  <2>. QED
    BY <1>0, <1>7, <2>1 DEF SaveAgain, Save, TypeOK, hubVars
<1>8. CASE Clear
  <2>1. ev' \in EventsRow /\ mem' \in StateRow
    BY <1>8, EventsMove, ActiveMove DEF Clear, EventsPc, Tracked
  <2>. QED
    BY <1>0, <1>8, <2>1 DEF Clear, TypeOK, fileVars, hubVars
<1>9. CASE Answer
  <2>1. ev' \in EventsRow
    BY <1>9, EventsMove DEF Answer, EventsPc
  <2>2. Outcome \in Final
    BY <1>9 DEF Answer, EventsGo, OnlyDeployments, Work, Outcome, Final
  <2>. QED
    BY <1>0, <1>9, <2>1, <2>2 DEF Answer, TypeOK, fileVars, stateVars, hubVars
<1>. QED
  BY <1>1, <1>2, <1>3, <1>4, <1>5, <1>6, <1>7, <1>8, <1>9 DEF EventsStep

\* What reaches the agent from outside, and its end.
Outside == StreamEnds \/ ReceiveUpdate \/ Publish \/ \E d \in Deployment : ReceiveDeployment(d)

LEMMA OutsideFrame ==
  ASSUME Outside
  PROVE  UNCHANGED <<main, todo, fileVars, claim, stateVars, starts, sent, drift>>
  BY DEF Outside, StreamEnds, ReceiveUpdate, Publish, ReceiveDeployment

LEMMA TypesOutside ==
  ASSUME TypeOK, Outside
  PROVE  TypeOK'
<1>0. UNCHANGED <<main, todo, fileVars, claim, stateVars, starts, sent, drift>>
  BY OutsideFrame
<1>v. latest \in 0..MaxVersion /\ Version \subseteq 0..MaxVersion /\ ev \in EventsRow
  BY VersionsAssumption DEF TypeOK, EventsRow, Version
<1>1. CASE StreamEnds
  BY <1>0, <1>1, <1>v DEF StreamEnds, TypeOK, EventsRow, EventsPc, fileVars, stateVars, hubVars
<1>2. CASE ReceiveUpdate
  <2>1. ev' \in EventsRow
    BY <1>2, <1>v DEF ReceiveUpdate, EventsRow, EventsPc, Tracked
  <2>2. pushes' \in 0..MaxPushes
    BY <1>2, StartsAssumption DEF ReceiveUpdate, TypeOK
  <2>. QED
    BY <1>0, <1>2, <2>1, <2>2 DEF ReceiveUpdate, TypeOK, EventsRow, fileVars, stateVars
<1>3. CASE Publish
  BY <1>0, <1>3, VersionsAssumption DEF Publish, TypeOK, fileVars, stateVars
<1>4. ASSUME NEW d \in Deployment, ReceiveDeployment(d)
      PROVE  TypeOK'
  <2>1. PICK v \in Version : ev' = [ev EXCEPT !.pc = "track", !.d = d, !.v = v, !.ok = TRUE]
    BY <1>4 DEF ReceiveDeployment
  <2>2. ev' \in EventsRow
    BY <2>1, <1>v DEF EventsRow, EventsPc, Tracked
  <2>. QED
    BY <1>0, <1>4, <2>2 DEF ReceiveDeployment, TypeOK, EventsRow, fileVars, stateVars
<1>. QED
  BY <1>1, <1>2, <1>3, <1>4 DEF Outside

LEMMA NextIs ==
  ASSUME Next
  PROVE  MainStep \/ EventsStep \/ Outside \/ (\E t \in Thread : ApplyStep(t)) \/ Crash
  BY DEF Next, Outside

LEMMA TypesStep ==
  ASSUME TypeOK, Pending, OnlyDeployments, [Next]_vars
  PROVE  TypeOK'
<1>1. CASE Crash
  <2>1. ev' \in EventsRow /\ job' \in [Thread -> JobRow] /\ mem' \in StateRow
        /\ fd' \in [Thread -> {"tmp", "file", "closed"}]
        /\ todo' \in [left: 0..2, v: 0..MaxVersion]
    BY <1>1, Nothing DEF Crash
  <2>2. claim' \in 0..MaxVersion /\ drift' \subseteq {"adopt", "overlap", "crash"}
    BY <1>1, VersionsAssumption DEF Crash, TypeOK
  <2>. QED
    BY <1>1, <2>1, <2>2 DEF Crash, TypeOK, MainPc, EventsRow, JobRow, hubVars
<1>2. CASE UNCHANGED vars
  BY <1>2 DEF vars, TypeOK, fileVars, stateVars, hubVars
<1>. QED
  BY <1>1, <1>2, NextIs, TypesMain, TypesEvents, TypesOutside, TypesApply

-----------------------------------------------------------------------------
\* Where the goroutines are.

Control == Pending /\ EventsOff /\ Jobs /\ OnlyDeployments

LEMMA ControlApply ==
  ASSUME TypeOK, Control, NEW t \in Thread, ApplyStep(t)
  PROVE  Control'
<1>0. UNCHANGED <<main, todo, ev>>
  BY ApplyFrame
<1>1. /\ job[t].pc # "none" /\ job[t].pc # "done"
      /\ job'[t].v = job[t].v
      /\ \A u \in Thread \ {t} : job'[u] = job[u]
  BY JobMove
  DEF ApplyStep, CreateTemp, WriteTemp, RenameTemp, RenameFails, RemoveTemp, UpdateConfigState, RecordConfig,
      SaveConfig, JobPc
<1>2. Jobs'
  BY <1>0, <1>1 DEF Control, Jobs, Applying, Thread
<1>. QED
  BY <1>0, <1>2 DEF Control, Pending, EventsOff, OnlyDeployments

LEMMA ControlMain ==
  ASSUME TypeOK, Control, MainStep
  PROVE  Control'
<1>0. \/ ev' = ev
      \/ OpenLoop /\ ev'.pc = "recv"
  BY DEF MainStep, Start, Register, NothingInterrupted, ReportInterrupted, SaveReported,
         ReportInterruptedFails, OpenLoop, Heartbeat, HeartbeatFails, FetchConfig,
         FetchConfigFails, Fetched, Tick, LeaveLoop, Leave, fileVars, NoEvents
<1>1. CASE OpenLoop
  <2>1. ~Applying("events") /\ ~Applying("main")
    BY <1>1 DEF OpenLoop, Control, Jobs, EventsOff
  <2>2. ev'.pc = "recv" /\ main' = "beat" /\ job' = job
    BY <1>1 DEF OpenLoop, NoEvents, fileVars
  <2>. QED
    BY <2>1, <2>2 DEF Control, Pending, EventsOff, Jobs, OnlyDeployments, Applying, Work
<1>2. CASE Start \/ Register \/ NothingInterrupted \/ ReportInterrupted \/ SaveReported
           \/ ReportInterruptedFails \/ HeartbeatFails \/ Tick \/ LeaveLoop \/ Leave
  BY <1>0, <1>2
  DEF Start, Register, NothingInterrupted, ReportInterrupted, SaveReported,
      ReportInterruptedFails, OpenLoop, HeartbeatFails, Tick, LeaveLoop, Leave, fileVars,
      StreamEnded, Control, Pending, EventsOff, Jobs, OnlyDeployments, Applying
<1>3. CASE Heartbeat
  BY <1>3
  DEF Heartbeat, fileVars, Control, Pending, EventsOff, Jobs, OnlyDeployments, Applying
<1>4. CASE FetchConfig
  <2>1. todo.v \in 0..MaxVersion
    BY DEF TypeOK
  <2>2. main' = "fetch" /\ main = "fetch" /\ UNCHANGED <<todo, ev>> /\ job'["events"] = job["events"]
    BY <1>4, <2>1, JobStarts DEF FetchConfig, Thread
  <2>. QED
    BY <2>2 DEF Control, Pending, EventsOff, Jobs, OnlyDeployments, Applying
<1>5. CASE FetchConfigFails \/ Fetched
  <2>1. ~Applying("main")' /\ job'["events"] = job["events"] /\ ev' = ev
    BY <1>5, JobEnds DEF FetchConfigFails, Fetched, Applying, Thread, fileVars
  <2>2. NextFetch /\ todo.left \in 1..2
    BY <1>5 DEF FetchConfigFails, Fetched, Control, Pending
  <2>3. main' \in {"loop", "fetch"} /\ (main' = "fetch" => todo'.left \in 1..2)
    BY <2>2 DEF NextFetch, TypeOK
  <2>. QED
    BY <2>1, <2>3 DEF Control, Pending, EventsOff, Jobs, OnlyDeployments, Applying
<1>. QED
  BY <1>1, <1>2, <1>3, <1>4, <1>5 DEF MainStep

LEMMA ControlEvents ==
  ASSUME TypeOK, Control, EventsStep
  PROVE  Control'
<1>0. UNCHANGED <<main, todo, fd, tmp, file, starts, hubVars>>
  BY EventsFrame
<1>v. ev.v \in 0..MaxVersion /\ ev.d \in Tracked /\ ev \in EventsRow
  BY DEF TypeOK, EventsRow
<1>on. main \notin {"down", "connect", "report", "save", "open", "leave"}
  BY DEF EventsStep, Track, SaveTrack, FetchVersion, FetchVersionFails, ApplyFailed,
         RecordAgain, SaveAgain, Clear, SaveClear, Answer, EventsGo, Control, EventsOff
<1>g. GiveUpEvent => /\ ev'.pc \in {"recv", "clear"}
                     /\ ev'.pc = "clear" => ev'.d \in Deployment
  BY <1>v DEF GiveUpEvent, EventsRow, Tracked
<1>1. CASE Track \/ SaveTrack \/ Clear \/ SaveClear \/ Answer
  <2>1. /\ ev.pc \in Work \ {"fetch", "apply", "saveAgain"} /\ ev'.d = ev.d
        /\ ev'.pc \in {"saveTrack", "fetch", "saveClear", "answer", "recv"}
    BY <1>1, EventsMove DEF Track, SaveTrack, Clear, SaveClear, Answer, EventsPc, Work
  <2>2. job' = job
    BY <1>1 DEF Track, SaveTrack, Clear, SaveClear, Answer, fileVars
  <2>. QED
    BY <1>0, <1>on, <2>1, <2>2
    DEF Control, Pending, EventsOff, Jobs, OnlyDeployments, Applying, Work
<1>2. CASE FetchVersion
  <2>1. ev'.pc = "apply" /\ ev'.v = ev.v
    BY <1>2, EventsMove DEF FetchVersion, EventsPc
  <2>2. job'["events"].v = ev.v /\ job'["main"] = job["main"]
    BY <1>2, <1>v, JobStarts DEF FetchVersion, Thread
  <2>. QED
    BY <1>0, <1>on, <2>1, <2>2
    DEF Control, Pending, EventsOff, Jobs, OnlyDeployments, Applying, Work
<1>3. CASE FetchVersionFails
  <2>1. ev.pc = "fetch" /\ GiveUpEvent /\ job' = job
    BY <1>3 DEF FetchVersionFails, fileVars
  <2>. QED
    BY <1>0, <1>on, <1>g, <2>1
    DEF Control, Pending, EventsOff, Jobs, OnlyDeployments, Applying, Work
<1>4. CASE ApplyFailed
  <2>1. GiveUpEvent /\ job'["events"].pc = "none" /\ job'["main"] = job["main"]
    BY <1>4, JobEnds DEF ApplyFailed, Thread
  <2>. QED
    BY <1>0, <1>on, <1>g, <2>1
    DEF Control, Pending, EventsOff, Jobs, OnlyDeployments, Applying, Work
<1>5. CASE RecordAgain
  <2>1. CASE ev.d # NoDeployment
    <3>1. ev'.pc = "saveAgain" /\ ev'.d \in Deployment /\ ev'.v = ev.v /\ job' = job
          /\ job["events"].pc = "done"
      BY <1>5, <2>1, <1>v DEF RecordAgain, EventsRow, Tracked
    <3>. QED
      BY <1>0, <1>5, <1>on, <3>1
      DEF RecordAgain, Control, Pending, EventsOff, Jobs, OnlyDeployments, Applying, Work
  <2>2. CASE ev.d = NoDeployment
    <3>1. ev'.pc = "recv" /\ job'["events"].pc = "none" /\ job'["main"] = job["main"]
      BY <1>5, <2>2, <1>v, JobEnds DEF RecordAgain, EventsRow, Thread
    <3>. QED
      BY <1>0, <1>on, <3>1
      DEF Control, Pending, EventsOff, Jobs, OnlyDeployments, Applying, Work
  <2>. QED
    BY <2>1, <2>2
<1>6. CASE SaveAgain
  <2>1. ev.pc = "saveAgain" /\ ev'.pc = "clear" /\ ev'.d = ev.d
    BY <1>6, EventsMove DEF SaveAgain, EventsPc
  <2>2. job'["events"].pc = "none" /\ job'["main"] = job["main"]
    BY <1>6, JobEnds DEF SaveAgain, Thread
  <2>. QED
    BY <1>0, <1>on, <2>1, <2>2
    DEF Control, Pending, EventsOff, Jobs, OnlyDeployments, Applying, Work
<1>. QED
  BY <1>1, <1>2, <1>3, <1>4, <1>5, <1>6 DEF EventsStep

LEMMA ControlStep ==
  ASSUME TypeOK, Control, [Next]_vars
  PROVE  Control'
<1>1. CASE Crash
  <2>1. main' = "down" /\ ev'.pc = "off" /\ \A t \in Thread : job'[t].pc = "none"
    BY <1>1 DEF Crash, NoEvents, NoJob
  <2>. QED
    BY <2>1 DEF Control, Pending, EventsOff, Jobs, OnlyDeployments, Applying, Thread, Work
<1>2. CASE UNCHANGED vars
  BY <1>2
  DEF vars, fileVars, Control, Pending, EventsOff, Jobs, OnlyDeployments, Applying
<1>3. CASE Outside
  <2>0. UNCHANGED <<main, todo, fileVars, claim, stateVars, starts, sent, drift>>
    BY <1>3, OutsideFrame
  <2>1. CASE ev' = ev
    BY <2>0, <2>1 DEF fileVars, Control, Pending, EventsOff, Jobs, OnlyDeployments, Applying
  <2>2. CASE ev' # ev
    <3>1. /\ ev.pc = "recv" /\ ev'.pc \in {"over", "track", "fetch"}
          /\ ev'.pc = "track" => ev'.d \in Deployment
      BY <1>3, <2>2
      DEF Outside, StreamEnds, ReceiveUpdate, Publish, ReceiveDeployment, TypeOK
    <3>. QED
      BY <2>0, <3>1
      DEF fileVars, Control, Pending, EventsOff, Jobs, OnlyDeployments, Applying, Work
  <2>. QED
    BY <2>1, <2>2
<1>. QED
  BY <1>1, <1>2, <1>3, NextIs, ControlMain, ControlEvents, ControlApply

-----------------------------------------------------------------------------
\* The state file follows the state.

LEMMA StateFileApply ==
  ASSUME TypeOK, Saved, NEW t \in Thread, ApplyStep(t)
  PROVE  Saved'
<1>0. UNCHANGED <<main, ev>>
  BY ApplyFrame
<1>1. CASE RecordConfig(t)
  <2>1. job'[t].pc = "save"
    BY <1>1, JobMove DEF RecordConfig, JobPc
  <2>. QED
    BY <2>1 DEF Saved, Saving
<1>2. CASE SaveConfig(t)
  BY <1>2 DEF SaveConfig, Save, Saved
<1>3. CASE ~RecordConfig(t) /\ ~SaveConfig(t)
  <2>1. mem' = mem /\ disk' = disk
    BY <1>3 DEF ApplyStep, CreateTemp, WriteTemp, RenameTemp, RenameFails, RemoveTemp, UpdateConfigState,
                stateVars
  <2>2. job[t].pc # "save" /\ \A u \in Thread \ {t} : job'[u] = job[u]
    BY <1>3, JobMove
    DEF ApplyStep, CreateTemp, WriteTemp, RenameTemp, RenameFails, RemoveTemp, UpdateConfigState, JobPc
  <2>. QED
    BY <1>0, <2>1, <2>2 DEF Saved, Saving
<1>. QED
  BY <1>1, <1>2, <1>3

LEMMA StateFileMain ==
  ASSUME TypeOK, Control, Saved, MainStep
  PROVE  Saved'
<1>1. CASE Start \/ ReportInterrupted \/ SaveReported
  BY <1>1 DEF Start, ReportInterrupted, SaveReported, Save, Saved, Saving
<1>2. CASE OpenLoop
  BY <1>2 DEF OpenLoop, Control, EventsOff, Saved, Saving, stateVars, fileVars
<1>3. CASE Register \/ NothingInterrupted \/ ReportInterruptedFails \/ Heartbeat \/ HeartbeatFails
           \/ Tick \/ LeaveLoop \/ Leave \/ FetchConfigFails
  BY <1>3
  DEF Register, NothingInterrupted, ReportInterruptedFails, Heartbeat, HeartbeatFails, Tick,
      LeaveLoop, Leave, FetchConfigFails, Saved, Saving, stateVars, fileVars
<1>4. CASE FetchConfig \/ Fetched
  <2>0. todo.v \in 0..MaxVersion
    BY DEF TypeOK
  <2>1. job'["events"] = job["events"] /\ job["main"].pc # "save" /\ main = "fetch"
    BY <1>4, <2>0, JobStarts, JobEnds DEF FetchConfig, Fetched, Thread, Applying
  <2>2. UNCHANGED <<ev, mem, disk>>
    BY <1>4 DEF FetchConfig, Fetched, stateVars
  <2>. QED
    BY <2>1, <2>2 DEF Saved, Saving, Thread
<1>. QED
  BY <1>1, <1>2, <1>3, <1>4 DEF MainStep

LEMMA StateFileEvents ==
  ASSUME TypeOK, Control, Saved, EventsStep
  PROVE  Saved'
<1>0. main' = main
  BY EventsFrame
<1>v. ev.v \in 0..MaxVersion /\ ev \in EventsRow
  BY DEF TypeOK, EventsRow
<1>1. CASE Track \/ Clear
  <2>1. ev'.pc \in {"saveTrack", "saveClear"}
    BY <1>1, EventsMove DEF Track, Clear, EventsPc
  <2>. QED
    BY <2>1 DEF Saved, Saving
<1>2. CASE SaveTrack \/ SaveAgain \/ SaveClear
  BY <1>2 DEF SaveTrack, SaveAgain, SaveClear, Save, Saved
<1>3. CASE FetchVersion \/ FetchVersionFails \/ Answer
  <2>1. UNCHANGED <<mem, disk>> /\ ev.pc \in {"fetch", "answer"}
    BY <1>3 DEF FetchVersion, FetchVersionFails, Answer, EventsGo, stateVars
  <2>2. job["events"].pc = "none" /\ job'["main"] = job["main"]
    BY <1>3, <1>v, <2>1, JobStarts
    DEF FetchVersion, FetchVersionFails, Answer, fileVars, Control, Jobs, Applying, Thread
  <2>. QED
    BY <1>0, <2>1, <2>2 DEF Saved, Saving, Thread
<1>4. CASE ApplyFailed \/ (RecordAgain /\ ev.d = NoDeployment)
  <2>1. UNCHANGED <<mem, disk>> /\ ev.pc = "apply" /\ job["events"].pc \in {"done", "failed"}
    BY <1>4 DEF ApplyFailed, RecordAgain, stateVars
  <2>2. job'["main"] = job["main"]
    BY <1>4, JobEnds DEF ApplyFailed, RecordAgain, Thread
  <2>. QED
    BY <1>0, <2>1, <2>2 DEF Saved, Saving, Thread
<1>5. CASE RecordAgain /\ ev.d # NoDeployment
  <2>1. ev'.pc = "saveAgain"
    BY <1>5, <1>v DEF RecordAgain, EventsRow
  <2>. QED
    BY <2>1 DEF Saved, Saving
<1>. QED
  BY <1>1, <1>2, <1>3, <1>4, <1>5 DEF EventsStep

LEMMA StateFileStep ==
  ASSUME TypeOK, Control, Saved, [Next]_vars
  PROVE  Saved'
<1>1. CASE Crash
  BY <1>1 DEF Crash, Saved, Saving
<1>2. CASE UNCHANGED vars
  BY <1>2 DEF vars, fileVars, stateVars, Saved, Saving
<1>3. CASE Outside
  <2>1. UNCHANGED <<main, job, mem, disk>>
    BY <1>3, OutsideFrame DEF fileVars, stateVars
  <2>2. ev' = ev \/ ev.pc = "recv"
    BY <1>3 DEF Outside, StreamEnds, ReceiveUpdate, Publish, ReceiveDeployment
  <2>. QED
    BY <2>1, <2>2 DEF Saved, Saving
<1>. QED
  BY <1>1, <1>2, <1>3, NextIs, StateFileApply, StateFileMain, StateFileEvents

-----------------------------------------------------------------------------
\* What is on record.

LEMMA RecordApply ==
  ASSUME TypeOK, RecordKept, NEW t \in Thread, ApplyStep(t)
  PROVE  RecordKept'
<1>0. UNCHANGED <<main, ev>>
  BY ApplyFrame
<1>1. mem'.active = mem.active /\ disk' \in {disk, mem}
  <2>1. job[t].v \in 0..MaxVersion
    BY DEF TypeOK
  <2>. QED
    BY <2>1, ConfigMove
    DEF ApplyStep, CreateTemp, WriteTemp, RenameTemp, RenameFails, RemoveTemp, UpdateConfigState,
        RecordConfig, SaveConfig, Save, stateVars
<1>. QED
  BY <1>0, <1>1 DEF RecordKept

LEMMA RecordMain ==
  ASSUME TypeOK, Control, RecordKept, MainStep
  PROVE  RecordKept'
<1>1. CASE Start \/ ReportInterrupted \/ SaveReported \/ OpenLoop
  <2>1. ev'.pc \in {"off", "over", "recv"}
    BY <1>1 DEF Start, ReportInterrupted, SaveReported, OpenLoop, NoEvents, Control, EventsOff
  <2>. QED
    BY <2>1 DEF RecordKept
<1>2. CASE ~(Start \/ ReportInterrupted \/ SaveReported \/ OpenLoop)
  <2>1. UNCHANGED <<ev, mem, disk>>
    BY <1>2
    DEF MainStep, Register, NothingInterrupted, ReportInterruptedFails, Heartbeat,
        HeartbeatFails, FetchConfig, FetchConfigFails, Fetched, Tick, LeaveLoop, Leave, stateVars
  <2>. QED
    BY <2>1 DEF RecordKept
<1>. QED
  BY <1>1, <1>2

LEMMA RecordEvents ==
  ASSUME TypeOK, Control, RecordKept, EventsStep
  PROVE  RecordKept'
<1>v. ev.v \in 0..MaxVersion /\ ev \in EventsRow /\ ev.d \in Tracked
  BY DEF TypeOK, EventsRow
<1>g. GiveUpEvent => ev'.d = ev.d /\ ev'.pc \in {"recv", "clear"}
  BY <1>v DEF GiveUpEvent, EventsRow
<1>1. CASE Track
  <2>1. ev'.pc = "saveTrack" /\ ev'.d = ev.d /\ mem'.active = ev.d
    BY <1>1, <1>v, EventsMove, ActiveMove DEF Track, EventsPc
  <2>. QED
    BY <2>1 DEF RecordKept
<1>2. CASE SaveTrack
  <2>1. ev.pc = "saveTrack" /\ ev'.pc = "fetch" /\ ev'.d = ev.d /\ mem' = mem /\ disk' = mem
    BY <1>2, EventsMove DEF SaveTrack, Save, EventsPc
  <2>. QED
    BY <2>1 DEF RecordKept
<1>3. CASE FetchVersion
  <2>1. ev.pc = "fetch" /\ ev'.pc = "apply" /\ ev'.d = ev.d /\ UNCHANGED <<mem, disk>>
    BY <1>3, EventsMove DEF FetchVersion, EventsPc, stateVars
  <2>. QED
    BY <2>1 DEF RecordKept
<1>4. CASE FetchVersionFails \/ ApplyFailed
  BY <1>4, <1>g DEF FetchVersionFails, ApplyFailed, RecordKept, stateVars
<1>5. CASE RecordAgain
  <2>1. /\ ev.pc = "apply" /\ ev'.pc \in {"saveAgain", "recv"} /\ ev'.d = ev.d
        /\ mem'.active = mem.active /\ disk' = disk
    BY <1>5, <1>v, ConfigMove DEF RecordAgain, EventsRow
  <2>. QED
    BY <2>1 DEF RecordKept
<1>6. CASE SaveAgain
  <2>1. /\ ev.pc = "saveAgain" /\ ev'.pc = "clear" /\ ev'.d = ev.d /\ mem' = mem /\ disk' = mem
    BY <1>6, EventsMove DEF SaveAgain, Save, EventsPc
  <2>. QED
    BY <2>1 DEF RecordKept
<1>7. CASE Clear
  <2>1. ev'.pc = "saveClear" /\ mem'.active = NoDeployment
    BY <1>7, EventsMove, ActiveMove DEF Clear, EventsPc, Tracked
  <2>. QED
    BY <2>1 DEF RecordKept
<1>8. CASE SaveClear
  <2>1. ev.pc = "saveClear" /\ ev'.pc = "answer" /\ mem' = mem /\ disk' = mem
    BY <1>8, EventsMove DEF SaveClear, Save, EventsPc
  <2>. QED
    BY <2>1 DEF RecordKept
<1>9. CASE Answer
  <2>1. ev'.pc = "recv"
    BY <1>9, EventsMove DEF Answer, EventsPc
  <2>. QED
    BY <2>1 DEF RecordKept
<1>. QED
  BY <1>1, <1>2, <1>3, <1>4, <1>5, <1>6, <1>7, <1>8, <1>9 DEF EventsStep

LEMMA RecordStep ==
  ASSUME TypeOK, Control, RecordKept, [Next]_vars
  PROVE  RecordKept'
<1>1. CASE Crash
  BY <1>1 DEF Crash, NoEvents, RecordKept
<1>2. CASE UNCHANGED vars
  BY <1>2 DEF vars, stateVars, RecordKept
<1>3. CASE Outside
  <2>1. UNCHANGED <<mem, disk>>
    BY <1>3, OutsideFrame DEF stateVars
  <2>2. \/ ev' = ev
        \/ ev'.pc \in {"over", "track"}
        \/ ev'.pc = "fetch" /\ ev'.d = NoDeployment
    BY <1>3
    DEF Outside, StreamEnds, ReceiveUpdate, Publish, ReceiveDeployment, TypeOK
  <2>. QED
    BY <2>1, <2>2 DEF RecordKept
<1>. QED
  BY <1>1, <1>2, <1>3, NextIs, RecordApply, RecordMain, RecordEvents

-----------------------------------------------------------------------------
\* What was reported.

Reports == Unanswered /\ Arrived /\ InterruptedMeansUnfinished

\* Nothing is reported and nothing new is on record.
LEMMA NothingNew ==
  ASSUME Reports,
         UNCHANGED <<sent, delivered>>,
         \A d \in Deployment : AtWork(d)' => AtWork(d),
         \A d \in Deployment : mem'.active = d =>
            AtWork(d) \/ mem.active = d \/ disk.active = d,
         \A d \in Deployment : disk'.active = d => mem.active = d \/ disk.active = d
  PROVE  Reports'
  BY DEF Reports, Unanswered, Arrived, InterruptedMeansUnfinished, Finished

LEMMA ReportsApply ==
  ASSUME TypeOK, Reports, NEW t \in Thread, ApplyStep(t)
  PROVE  Reports'
<1>0. UNCHANGED <<ev, sent, delivered>>
  BY ApplyFrame DEF hubVars
<1>1. mem'.active = mem.active /\ disk' \in {disk, mem}
  <2>1. job[t].v \in 0..MaxVersion
    BY DEF TypeOK
  <2>. QED
    BY <2>1, ConfigMove
    DEF ApplyStep, CreateTemp, WriteTemp, RenameTemp, RenameFails, RemoveTemp, UpdateConfigState,
        RecordConfig, SaveConfig, Save, stateVars
<1>. QED
  BY <1>0, <1>1, NothingNew DEF AtWork

LEMMA ReportsMain ==
  ASSUME TypeOK, Control, Reports, MainStep
  PROVE  Reports'
<1>0. UNCHANGED delivered
  BY MainFrame DEF hubVars
<1>1. CASE Start \/ SaveReported
  BY <1>0, <1>1, NothingNew DEF Start, SaveReported, Save, AtWork
<1>2. CASE OpenLoop
  <2>1. ev'.pc = "recv" /\ UNCHANGED <<sent, mem, disk>>
    BY <1>2 DEF OpenLoop, NoEvents, stateVars
  <2>. QED
    BY <1>0, <2>1, NothingNew DEF AtWork, Work
<1>3. CASE ReportInterrupted \/ ReportInterruptedFails
  <2>1. mem.active \in Deployment
    BY <1>3 DEF ReportInterrupted, ReportInterruptedFails, TypeOK, StateRow, Tracked
  <2>2. mem'.active \in {mem.active, NoDeployment}
    BY <1>3, ActiveMove DEF ReportInterrupted, ReportInterruptedFails, Tracked, stateVars
  <2>3. /\ sent' = sent \cup {<<mem.active, "interrupted">>}
        /\ UNCHANGED <<ev, disk>>
    BY <1>3 DEF ReportInterrupted, ReportInterruptedFails, stateVars
  <2>4. \A d : ~AtWork(d) /\ ~AtWork(d)'
    BY <1>3, <2>3
    DEF ReportInterrupted, ReportInterruptedFails, Control, EventsOff, AtWork, Work
  <2>5. \A d \in Deployment : Finished(d)' <=> Finished(d)
    BY <2>3 DEF Finished
  <2>6. \A d \in Deployment : <<d, "interrupted">> \in sent' <=>
          <<d, "interrupted">> \in sent \/ d = mem.active
    BY <2>3
  <2>7. Unanswered' /\ InterruptedMeansUnfinished'
    BY <2>1, <2>2, <2>3, <2>4, <2>5, <2>6, DeploymentAssumption
    DEF Reports, Unanswered, InterruptedMeansUnfinished, Finished
  <2>8. Arrived'
    BY <1>0, <2>1, <2>2, <2>3, <2>4, DeploymentAssumption DEF Reports, Arrived
  <2>. QED
    BY <2>7, <2>8 DEF Reports
<1>4. CASE ~(Start \/ ReportInterrupted \/ ReportInterruptedFails \/ SaveReported \/ OpenLoop)
  <2>1. UNCHANGED <<ev, mem, disk, sent>>
    BY <1>4
    DEF MainStep, Register, NothingInterrupted, Heartbeat, HeartbeatFails, FetchConfig,
        FetchConfigFails, Fetched, Tick, LeaveLoop, Leave, stateVars
  <2>. QED
    BY <1>0, <2>1, NothingNew DEF AtWork
<1>. QED
  BY <1>1, <1>2, <1>3, <1>4

LEMMA ReportsEvents ==
  ASSUME TypeOK, Control, RecordKept, Reports, EventsStep
  PROVE  Reports'
<1>0. UNCHANGED delivered
  BY EventsFrame DEF hubVars
<1>v. ev.v \in 0..MaxVersion /\ ev \in EventsRow /\ ev.d \in Tracked
  BY DEF TypeOK, EventsRow
<1>g. GiveUpEvent => ev'.d = ev.d
  BY <1>v DEF GiveUpEvent, EventsRow
<1>1. CASE Track
  <2>1. ev.pc = "track" /\ ev'.d = ev.d /\ mem'.active = ev.d /\ UNCHANGED <<disk, sent>>
    BY <1>1, <1>v, EventsMove, ActiveMove DEF Track, EventsPc
  <2>. QED
    BY <1>0, <2>1, NothingNew DEF AtWork, Work
<1>2. CASE SaveTrack \/ SaveAgain \/ SaveClear
  <2>1. ev.pc \in Work /\ ev'.d = ev.d /\ UNCHANGED <<mem, sent>> /\ disk' = mem
    BY <1>2, EventsMove DEF SaveTrack, SaveAgain, SaveClear, Save, EventsPc, Work
  <2>. QED
    BY <1>0, <2>1, NothingNew DEF AtWork
<1>3. CASE FetchVersion
  <2>1. ev.pc = "fetch" /\ ev'.d = ev.d /\ UNCHANGED <<mem, disk, sent>>
    BY <1>3, EventsMove DEF FetchVersion, EventsPc, stateVars
  <2>. QED
    BY <1>0, <2>1, NothingNew DEF AtWork, Work
<1>4. CASE FetchVersionFails \/ ApplyFailed
  <2>1. ev.pc \in Work /\ ev'.d = ev.d /\ UNCHANGED <<mem, disk, sent>>
    BY <1>4, <1>g DEF FetchVersionFails, ApplyFailed, stateVars, Work
  <2>. QED
    BY <1>0, <2>1, NothingNew DEF AtWork
<1>5. CASE RecordAgain
  <2>1. /\ ev.pc = "apply" /\ ev'.d = ev.d /\ mem'.active = mem.active
        /\ UNCHANGED <<disk, sent>>
    BY <1>5, <1>v, ConfigMove DEF RecordAgain, EventsRow
  <2>. QED
    BY <1>0, <2>1, NothingNew DEF AtWork, Work
<1>6. CASE Clear
  <2>1. ev.pc = "clear" /\ ev'.d = ev.d /\ mem'.active = NoDeployment /\ UNCHANGED <<disk, sent>>
    BY <1>6, EventsMove, ActiveMove DEF Clear, EventsPc, Tracked
  <2>. QED
    BY <1>0, <2>1, DeploymentAssumption, NothingNew DEF AtWork, Work
<1>7. CASE Answer
  <2>1. ev.pc = "answer" /\ ev'.pc = "recv" /\ UNCHANGED <<mem, disk>>
    BY <1>7, EventsMove DEF Answer, EventsPc, stateVars
  <2>2. mem.active = NoDeployment /\ disk.active = NoDeployment
    BY <2>1 DEF RecordKept
  <2>3. AtWork(ev.d) /\ ev.d \in Deployment /\ \A d : ~AtWork(d)'
    BY <2>1 DEF AtWork, Work, Control, OnlyDeployments
  <2>4. PICK o \in {"completed", "failed"} : sent' = sent \cup {<<ev.d, o>>}
    BY <1>7 DEF Answer, Outcome
  <2>5. \A d \in Deployment : <<d, "interrupted">> \in sent' <=> <<d, "interrupted">> \in sent
    BY <2>4
  <2>6. \A d \in Deployment : d # ev.d => (Finished(d)' <=> Finished(d))
    BY <2>4 DEF Finished
  <2>7. Unanswered'
    BY <2>1, <2>2, <2>3, DeploymentAssumption DEF Unanswered
  <2>8. InterruptedMeansUnfinished'
    BY <2>3, <2>5, <2>6 DEF Reports, Unanswered, InterruptedMeansUnfinished, Finished
  <2>9. Arrived'
    BY <1>0, <2>1, <2>2, <2>3, <2>4, DeploymentAssumption DEF Reports, Arrived
  <2>. QED
    BY <2>7, <2>8, <2>9 DEF Reports
<1>. QED
  BY <1>1, <1>2, <1>3, <1>4, <1>5, <1>6, <1>7 DEF EventsStep

LEMMA ReportsStep ==
  ASSUME TypeOK, Control, RecordKept, Reports, [Next]_vars
  PROVE  Reports'
<1>1. CASE Crash
  <2>1. /\ ev'.pc = "off" /\ mem'.active = NoDeployment
        /\ UNCHANGED <<disk, sent, delivered>>
    BY <1>1 DEF Crash, NoEvents, Fresh, hubVars
  <2>. QED
    BY <2>1, DeploymentAssumption, NothingNew DEF AtWork, Work
<1>2. CASE UNCHANGED vars
  BY <1>2, NothingNew DEF vars, stateVars, hubVars, AtWork
<1>3. CASE Outside
  <2>0. UNCHANGED <<mem, disk, sent>>
    BY <1>3, OutsideFrame DEF stateVars
  <2>1. ASSUME NEW d \in Deployment, ReceiveDeployment(d)
        PROVE  Reports'
    <3>1. /\ ev'.pc = "track" /\ ev'.d = d
          /\ d \notin delivered /\ delivered' = delivered \cup {d}
      BY <2>1 DEF ReceiveDeployment, TypeOK
    <3>2. \A e \in Deployment : AtWork(e)' <=> e = d
      BY <3>1 DEF AtWork, Work
    <3>3. ~Finished(d) /\ <<d, "interrupted">> \notin sent
      BY <3>1 DEF Reports, Arrived, Finished
    <3>. QED
      BY <2>0, <3>1, <3>2, <3>3
      DEF Reports, Unanswered, Arrived, InterruptedMeansUnfinished, Finished
  <2>2. CASE StreamEnds \/ ReceiveUpdate \/ Publish
    <3>1. /\ UNCHANGED delivered
          /\ ev' = ev \/ ev'.pc = "over" \/ (ev'.pc = "fetch" /\ ev'.d = NoDeployment)
      BY <2>2 DEF StreamEnds, ReceiveUpdate, Publish, TypeOK, hubVars
    <3>. QED
      BY <2>0, <3>1, DeploymentAssumption, NothingNew DEF AtWork, Work
  <2>. QED
    BY <1>3, <2>1, <2>2 DEF Outside
<1>. QED
  BY <1>1, <1>2, <1>3, NextIs, ReportsApply, ReportsMain, ReportsEvents

-----------------------------------------------------------------------------
\* How far an application has come in the files.

\* The files stay as they are, and so do the applications, but for one that is
\* over.
LEMMA FilesStay ==
  ASSUME Untorn, drift \subseteq drift', UNCHANGED <<fd, tmp, file>>,
         \A t \in Thread :
           job'[t] = job[t] \/ (job[t].pc \in {"done", "failed"} /\ job'[t].pc = "none")
  PROVE  Untorn'
<1>. SUFFICES ASSUME "overlap" \notin drift'
              PROVE  Alone' /\ file' \in 0..MaxVersion
  BY DEF Untorn
<1>1. Alone /\ file \in 0..MaxVersion
  BY DEF Untorn
<1>. QED
  BY <1>1 DEF Alone, Applying, Thread

\* An application starts while no other is at work.
LEMMA FilesEntered ==
  ASSUME TypeOK, Untorn, NEW t \in Thread, NEW v \in 0..MaxVersion,
         job[t].pc = "none", Apply(t, v), UNCHANGED <<fd, tmp, file>>
  PROVE  Untorn'
<1>. SUFFICES ASSUME "overlap" \notin drift'
              PROVE  Alone' /\ file' \in 0..MaxVersion
  BY DEF Untorn
<1>1. /\ "overlap" \notin drift /\ job'[t].pc = "create"
      /\ \A u \in Thread \ {t} : job'[u] = job[u] /\ job[u].pc = "none"
  BY JobStarts DEF Applying
<1>2. Alone /\ file \in 0..MaxVersion
  BY <1>1 DEF Untorn
<1>. QED
  BY <1>1, <1>2 DEF Alone, Applying, Thread

\* CreateTemp, WriteTemp and RenameTemp, one application at a time: what is renamed
\* is whole, whatever an application that was cut off has left.
LEMMA UntornApply ==
  ASSUME TypeOK, Untorn, NEW t \in Thread, ApplyStep(t)
  PROVE  Untorn'
<1>. SUFFICES ASSUME "overlap" \notin drift'
              PROVE  Alone' /\ file' \in 0..MaxVersion
  BY DEF Untorn
<1>0. drift' = drift
  BY ApplyFrame
<1>a. Alone /\ file \in 0..MaxVersion
  BY <1>0 DEF Untorn
<1>v. job[t].v \in 0..MaxVersion
  BY DEF TypeOK
<1>at. Applying(t)
  BY DEF ApplyStep, CreateTemp, WriteTemp, RenameTemp, RenameFails, RemoveTemp, UpdateConfigState,
         RecordConfig, SaveConfig, Advance, Applying
<1>u. \A u \in Thread \ {t} : job[u].pc = "none" /\ fd[u] = "closed"
  BY <1>a, <1>at DEF Alone, Applying, Thread
<1>1. CASE CreateTemp(t)
  <2>1. /\ job[t].pc = "create" /\ job'[t].pc = "write"
        /\ \A u \in Thread \ {t} : job'[u] = job[u]
    BY <1>1, JobMove DEF CreateTemp, JobPc
  <2>2. /\ tmp' = Empty /\ fd'[t] = "tmp" /\ (\A u \in Thread \ {t} : fd'[u] = fd[u])
        /\ file' = file
    BY <1>1 DEF CreateTemp, TypeOK
  <2>. QED
    BY <1>a, <1>u, <2>1, <2>2 DEF Alone, Applying, Thread
<1>2. CASE WriteTemp(t)
  <2>1. /\ job[t].pc = "write" /\ job'[t].pc = "rename" /\ job'[t].v = job[t].v
        /\ \A u \in Thread \ {t} : job'[u] = job[u]
    BY <1>2, JobMove DEF WriteTemp, JobPc
  <2>2. fd[t] = "tmp" /\ tmp = Empty
    BY <1>a, <2>1 DEF Alone
  <2>3. /\ tmp' = job[t].v /\ fd'[t] = "closed" /\ (\A u \in Thread \ {t} : fd'[u] = fd[u])
        /\ file' = file
    BY <1>2, <2>2 DEF WriteTemp, Overlay, TypeOK
  <2>. QED
    BY <1>a, <1>u, <2>1, <2>3 DEF Alone, Applying, Thread
<1>3. CASE RenameTemp(t)
  <2>1. /\ job[t].pc = "rename" /\ job'[t].pc = "claim" /\ job'[t].v = job[t].v
        /\ \A u \in Thread \ {t} : job'[u] = job[u]
    BY <1>3, JobMove DEF RenameTemp, JobPc
  <2>2. tmp = job[t].v /\ \A u \in Thread : fd[u] = "closed"
    BY <1>a, <1>u, <2>1 DEF Alone, Thread
  <2>3. file' = job[t].v /\ \A u \in Thread : fd'[u] = "closed"
    BY <1>3, <2>2 DEF RenameTemp
  <2>. QED
    BY <1>a, <1>u, <1>v, <2>1, <2>3 DEF Alone, Applying, Thread
<1>4. CASE RenameFails(t)
  <2>1. tmp = job[t].v /\ tmp = NoFile
    BY <1>4, <1>a DEF RenameFails, Advance, Alone
  <2>. QED
    BY <1>v, <2>1, ContentAssumption
<1>r. ~RemoveTemp(t)
  BY <1>a DEF RemoveTemp, Advance, Alone
<1>5. ASSUME NEW from \in {"claim", "record", "save"}, NEW to \in {"record", "save", "done"},
             Advance(t, from, to), UNCHANGED <<fd, tmp, file>>
      PROVE  Alone' /\ file' \in 0..MaxVersion
  <2>1. /\ job[t].pc = from /\ job'[t].pc = to /\ job'[t].v = job[t].v
        /\ \A u \in Thread \ {t} : job'[u] = job[u]
    BY <1>5, JobMove DEF JobPc
  <2>. QED
    BY <1>a, <1>u, <1>5, <2>1 DEF Alone, Applying, Thread
<1>6. CASE UpdateConfigState(t) \/ RecordConfig(t) \/ SaveConfig(t)
  BY <1>5, <1>6 DEF UpdateConfigState, RecordConfig, SaveConfig
<1>. QED
  BY <1>1, <1>2, <1>3, <1>4, <1>r, <1>6 DEF ApplyStep

\* The steps around an application; a crash closes every file.
LEMMA UntornStep ==
  ASSUME TypeOK, Control, Untorn, [Next]_vars
  PROVE  Untorn'
<1>t. "main" \in Thread /\ "events" \in Thread
  BY DEF Thread
<1>1. CASE MainStep
  <2>0. UNCHANGED <<fd, tmp, file>>
    BY <1>1, MainFrame
  <2>1. CASE FetchConfig
    <3>1. todo.v \in 0..MaxVersion
      BY DEF TypeOK
    <3>. QED
      BY <1>t, <2>0, <2>1, <3>1, FilesEntered DEF FetchConfig, Applying
  <2>2. CASE Fetched
    <3>1. job'["main"].pc = "none" /\ \A u \in Thread \ {"main"} : job'[u] = job[u]
      BY <1>t, <2>2, JobEnds DEF Fetched
    <3>. QED
      BY <2>0, <2>2, <3>1, FilesStay DEF Fetched
  <2>3. CASE ~FetchConfig /\ ~Fetched
    <3>1. job' = job /\ drift \subseteq drift'
      BY <1>1, <2>3
      DEF MainStep, Start, Register, NothingInterrupted, ReportInterrupted, SaveReported,
          ReportInterruptedFails, OpenLoop, Heartbeat, HeartbeatFails, FetchConfigFails,
          Tick, LeaveLoop, Leave, fileVars
    <3>. QED
      BY <2>0, <3>1, FilesStay
  <2>. QED
    BY <2>1, <2>2, <2>3
<1>2. CASE EventsStep
  <2>0. UNCHANGED <<fd, tmp, file>>
    BY <1>2, EventsFrame
  <2>1. CASE FetchVersion
    <3>1. job["events"].pc = "none" /\ ev.v \in 0..MaxVersion
      BY <2>1 DEF FetchVersion, EventsGo, Control, Jobs, Applying, TypeOK
    <3>. QED
      BY <1>t, <2>0, <2>1, <3>1, FilesEntered DEF FetchVersion
  <2>2. CASE job' = [job EXCEPT !["events"] = NoJob] /\ job["events"].pc \in {"done", "failed"}
    <3>1. job'["events"].pc = "none" /\ \A u \in Thread \ {"events"} : job'[u] = job[u]
      BY <1>t, <2>2, JobEnds
    <3>2. drift' = drift
      BY <1>2, <2>2, <3>1
      DEF EventsStep, Track, SaveTrack, FetchVersion, FetchVersionFails, ApplyFailed,
          RecordAgain, SaveAgain, Clear, SaveClear, Answer, Apply, EventsGo, Control, Jobs,
          Applying
    <3>. QED
      BY <2>0, <2>2, <3>1, <3>2, FilesStay
  <2>3. CASE job' = job
    <3>1. drift \subseteq drift'
      BY <1>2
      DEF EventsStep, Track, SaveTrack, FetchVersion, FetchVersionFails, ApplyFailed,
          RecordAgain, SaveAgain, Clear, SaveClear, Answer, Apply
    <3>. QED
      BY <2>0, <2>3, <3>1, FilesStay
  <2>. QED
    BY <1>2, <2>1, <2>2, <2>3
    DEF EventsStep, Track, SaveTrack, FetchVersionFails, ApplyFailed, RecordAgain, SaveAgain,
        Clear, SaveClear, Answer, EventsGo, Control, Jobs, fileVars
<1>3. CASE Crash
  <2>. SUFFICES ASSUME "overlap" \notin drift'
                PROVE  Alone' /\ file' \in 0..MaxVersion
    BY DEF Untorn
  <2>1. "overlap" \notin drift
    BY <1>3 DEF Crash
  <2>2. /\ file' = file
        /\ \A t \in Thread : job'[t].pc = "none" /\ fd'[t] = "closed"
    BY <1>3 DEF Crash, NoJob
  <2>. QED
    BY <2>1, <2>2 DEF Untorn, Alone, Applying, Thread
<1>4. CASE UNCHANGED vars
  BY <1>4, FilesStay DEF vars, fileVars
<1>5. CASE Outside
  BY <1>5, OutsideFrame, FilesStay DEF fileVars
<1>. QED
  BY <1>1, <1>2, <1>3, <1>4, <1>5, NextIs, UntornApply

-----------------------------------------------------------------------------
\* How far an application has come in claim and record.

\* Applications stay where they are.
LEMMA Steady ==
  ASSUME Untorn, Undisturbed, drift \subseteq drift',
         main = "down" <=> main' = "down",
         UNCHANGED <<job, fd, tmp, file, claim>>,
         mem'.version = mem.version,
         disk'.version = disk.version \/ (main # "down" /\ disk' = mem)
  PROVE  Undisturbed'
  BY DEF Undisturbed, Untorn, Alone, InStep, Applying

\* An application that is done is forgotten.
LEMMA Forgotten ==
  ASSUME Untorn, Undisturbed, drift' = drift, main # "down", main' # "down",
         NEW t \in Thread, job[t].pc = "done", job'[t].pc = "none",
         \A u \in Thread \ {t} : job'[u] = job[u],
         UNCHANGED <<fd, tmp, file, claim>>,
         mem'.version = mem.version,
         disk'.version = disk.version \/ disk' = mem
  PROVE  Undisturbed'
  BY DEF Undisturbed, Untorn, Alone, InStep, Applying, Thread

\* An application starts while no other is at work.
LEMMA Entered ==
  ASSUME TypeOK, Untorn, Undisturbed, NEW t \in Thread, NEW v \in 0..MaxVersion,
         job[t].pc = "none", Apply(t, v), main # "down", main' # "down",
         UNCHANGED <<fd, tmp, file, claim, mem, disk>>
  PROVE  Undisturbed'
<1>. SUFFICES ASSUME drift' = {}
              PROVE  InStep'
  BY DEF Undisturbed
<1>1. /\ drift = {} /\ job'[t].pc = "create"
      /\ \A u \in Thread \ {t} : job'[u] = job[u] /\ job[u].pc = "none"
  BY JobStarts DEF Applying
<1>2. Alone /\ InStep
  BY <1>1 DEF Untorn, Undisturbed
<1>. QED
  BY <1>1, <1>2 DEF Alone, InStep, Applying, Thread

LEMMA UndisturbedApply ==
  ASSUME TypeOK, Control, Untorn, Undisturbed, NEW t \in Thread, ApplyStep(t)
  PROVE  Undisturbed'
<1>. SUFFICES ASSUME drift' = {}
              PROVE  InStep'
  BY DEF Undisturbed
<1>0. UNCHANGED <<main, drift>>
  BY ApplyFrame
<1>a. Alone /\ InStep
  BY <1>0 DEF Untorn, Undisturbed
<1>v. job[t].v \in 0..MaxVersion
  BY DEF TypeOK
<1>at. Applying(t)
  BY DEF ApplyStep, CreateTemp, WriteTemp, RenameTemp, RenameFails, RemoveTemp, UpdateConfigState,
         RecordConfig, SaveConfig, Advance, Applying
<1>u. \A u \in Thread \ {t} : job[u].pc = "none" /\ fd[u] = "closed"
  BY <1>a, <1>at DEF Alone, Applying, Thread
<1>m. main # "down" /\ main' # "down"
  BY <1>0, <1>at DEF Control, Jobs, EventsOff, Thread
<1>1. CASE CreateTemp(t)
  <2>1. /\ job[t].pc = "create" /\ job'[t].pc = "write"
        /\ \A u \in Thread \ {t} : job'[u] = job[u]
    BY <1>1, JobMove DEF CreateTemp, JobPc
  <2>2. /\ tmp' = Empty /\ fd'[t] = "tmp" /\ (\A u \in Thread \ {t} : fd'[u] = fd[u])
        /\ UNCHANGED <<file, claim, mem, disk>>
    BY <1>1 DEF CreateTemp, stateVars, TypeOK
  <2>. QED
    BY <1>a, <1>u, <1>m, <2>1, <2>2 DEF Alone, InStep, Applying, Thread
<1>2. CASE WriteTemp(t)
  <2>1. /\ job[t].pc = "write" /\ job'[t].pc = "rename" /\ job'[t].v = job[t].v
        /\ \A u \in Thread \ {t} : job'[u] = job[u]
    BY <1>2, JobMove DEF WriteTemp, JobPc
  <2>2. fd[t] = "tmp" /\ tmp = Empty
    BY <1>a, <2>1 DEF Alone
  <2>3. /\ tmp' = job[t].v /\ fd'[t] = "closed" /\ (\A u \in Thread \ {t} : fd'[u] = fd[u])
        /\ UNCHANGED <<file, claim, mem, disk>>
    BY <1>2, <2>2 DEF WriteTemp, Overlay, stateVars, TypeOK
  <2>. QED
    BY <1>a, <1>u, <1>m, <2>1, <2>3 DEF Alone, InStep, Applying, Thread
<1>3. CASE RenameTemp(t)
  <2>1. /\ job[t].pc = "rename" /\ job'[t].pc = "claim" /\ job'[t].v = job[t].v
        /\ \A u \in Thread \ {t} : job'[u] = job[u]
    BY <1>3, JobMove DEF RenameTemp, JobPc
  <2>2. tmp = job[t].v /\ \A u \in Thread : fd[u] = "closed"
    BY <1>a, <1>u, <2>1 DEF Alone, Thread
  <2>3. /\ file' = job[t].v /\ (\A u \in Thread : fd'[u] = "closed")
        /\ UNCHANGED <<claim, mem, disk>>
    BY <1>3, <2>2 DEF RenameTemp, stateVars
  <2>. QED
    BY <1>a, <1>u, <1>m, <2>1, <2>3 DEF Alone, InStep, Applying, Thread
<1>4. CASE RenameFails(t)
  <2>1. tmp = job[t].v /\ tmp = NoFile
    BY <1>4, <1>a DEF RenameFails, Advance, Alone
  <2>. QED
    BY <1>v, <2>1, ContentAssumption
<1>r. ~RemoveTemp(t)
  BY <1>a DEF RemoveTemp, Advance, Alone
<1>5. CASE UpdateConfigState(t)
  <2>1. /\ job[t].pc = "claim" /\ job'[t].pc = "record" /\ job'[t].v = job[t].v
        /\ \A u \in Thread \ {t} : job'[u] = job[u]
    BY <1>5, JobMove DEF UpdateConfigState, JobPc
  <2>2. file = job[t].v /\ claim' = job[t].v /\ UNCHANGED <<fd, tmp, file, mem, disk>>
    BY <1>5, <1>a, <2>1 DEF UpdateConfigState, Alone, stateVars
  <2>. QED
    BY <1>a, <1>u, <1>m, <2>1, <2>2 DEF Alone, InStep, Applying, Thread
<1>6. CASE RecordConfig(t)
  <2>1. /\ job[t].pc = "record" /\ job'[t].pc = "save" /\ job'[t].v = job[t].v
        /\ \A u \in Thread \ {t} : job'[u] = job[u]
    BY <1>6, JobMove DEF RecordConfig, JobPc
  <2>2. mem'.version = job[t].v /\ UNCHANGED <<fd, tmp, file, claim, disk>>
    BY <1>6, <1>v, ConfigMove DEF RecordConfig
  <2>3. file = job[t].v
    BY <1>a, <2>1 DEF Alone
  <2>. QED
    BY <1>a, <1>u, <1>m, <2>1, <2>2, <2>3 DEF Alone, InStep, Applying, Thread
<1>7. CASE SaveConfig(t)
  <2>1. /\ job[t].pc = "save" /\ job'[t].pc = "done" /\ job'[t].v = job[t].v
        /\ \A u \in Thread \ {t} : job'[u] = job[u]
    BY <1>7, JobMove DEF SaveConfig, JobPc
  <2>2. disk' = mem /\ UNCHANGED <<fd, tmp, file, claim, mem>>
    BY <1>7 DEF SaveConfig, Save
  <2>. QED
    BY <1>a, <1>u, <1>m, <2>1, <2>2 DEF Alone, InStep, Applying, Thread
<1>. QED
  BY <1>1, <1>2, <1>3, <1>4, <1>r, <1>5, <1>6, <1>7 DEF ApplyStep

LEMMA UndisturbedMain ==
  ASSUME TypeOK, Control, Untorn, Undisturbed, MainStep
  PROVE  Undisturbed'
<1>0. UNCHANGED <<fd, tmp, file>>
  BY MainFrame
<1>1. CASE Start
  <2>1. \A t \in Thread : job[t].pc = "none"
    BY <1>1 DEF Start, Control, Jobs, EventsOff, Applying, Thread
  <2>. QED
    BY <1>0, <1>1, <2>1
    DEF Start, Restored, fileVars, Undisturbed, Untorn, Alone, InStep, Applying
<1>2. CASE Register
  <2>1. drift \subseteq drift' /\ (drift' = {} => claim' = claim) /\ UNCHANGED <<job, mem, disk>>
        /\ main # "down" /\ main' # "down"
    BY <1>2 DEF Register, fileVars, stateVars
  <2>. QED
    BY <1>0, <2>1 DEF Undisturbed, Untorn, Alone, InStep, Applying
<1>3. CASE ReportInterrupted
  <2>1. mem'.version = mem.version
    BY <1>3, ActiveMove DEF ReportInterrupted, Tracked
  <2>. QED
    BY <1>0, <1>3, <2>1, Steady DEF ReportInterrupted, fileVars
<1>4. CASE SaveReported
  BY <1>0, <1>4, Steady DEF SaveReported, Save, fileVars
<1>5. CASE NothingInterrupted \/ ReportInterruptedFails \/ OpenLoop \/ Heartbeat \/ HeartbeatFails
           \/ Tick \/ LeaveLoop \/ Leave
  BY <1>0, <1>5, Steady
  DEF NothingInterrupted, ReportInterruptedFails, OpenLoop, Heartbeat, HeartbeatFails, Tick,
      LeaveLoop, Leave, fileVars, stateVars
<1>6. CASE FetchConfigFails
  <2>1. main # "down" /\ main' # "down"
    BY <1>6 DEF FetchConfigFails, NextFetch
  <2>. QED
    BY <1>0, <1>6, <2>1, Steady DEF FetchConfigFails, fileVars, stateVars
<1>7. CASE FetchConfig
  <2>1. todo.v \in 0..MaxVersion /\ "main" \in Thread
    BY DEF TypeOK, Thread
  <2>. QED
    BY <1>0, <1>7, <2>1, Entered DEF FetchConfig, Applying, stateVars
<1>8. CASE Fetched
  <2>1. CASE job["main"].pc = "failed"
    <3>1. drift' = drift /\ (drift = {} => FALSE)
      BY <1>8, <2>1 DEF Fetched, Undisturbed, Untorn, Alone, Thread
    <3>. QED
      BY <3>1 DEF Undisturbed
  <2>2. CASE job["main"].pc = "done"
    <3>1. "main" \in Thread /\ main # "down" /\ main' # "down"
      BY <1>8 DEF Fetched, NextFetch, Thread
    <3>2. job'["main"].pc = "none" /\ \A u \in Thread \ {"main"} : job'[u] = job[u]
      BY <1>8, <3>1, JobEnds DEF Fetched
    <3>. QED
      BY <1>0, <1>8, <2>2, <3>1, <3>2, Forgotten DEF Fetched, stateVars
  <2>. QED
    BY <1>8, <2>1, <2>2 DEF Fetched
<1>. QED
  BY <1>1, <1>2, <1>3, <1>4, <1>5, <1>6, <1>7, <1>8 DEF MainStep

LEMMA UndisturbedEvents ==
  ASSUME TypeOK, Control, Untorn, Undisturbed, EventsStep
  PROVE  Undisturbed'
<1>0. UNCHANGED <<main, fd, tmp, file>>
  BY EventsFrame
<1>v. ev.v \in 0..MaxVersion /\ ev.d \in Tracked /\ "events" \in Thread
  BY DEF TypeOK, Thread
<1>on. main # "down"
  BY DEF EventsStep, Track, SaveTrack, FetchVersion, FetchVersionFails, ApplyFailed,
         RecordAgain, SaveAgain, Clear, SaveClear, Answer, EventsGo, Control, EventsOff
<1>1. CASE Track \/ Clear
  <2>1. mem'.version = mem.version
    BY <1>1, <1>v, ActiveMove DEF Track, Clear, Tracked
  <2>. QED
    BY <1>0, <1>1, <2>1, Steady DEF Track, Clear, fileVars
<1>2. CASE SaveTrack \/ SaveClear \/ FetchVersionFails \/ Answer
  BY <1>0, <1>2, <1>on, Steady
  DEF SaveTrack, SaveClear, FetchVersionFails, Answer, Save, fileVars, stateVars
<1>3. CASE FetchVersion
  <2>1. job["events"].pc = "none"
    BY <1>3 DEF FetchVersion, EventsGo, Control, Jobs, Applying
  <2>. QED
    BY <1>0, <1>3, <1>v, <1>on, <2>1, Entered DEF FetchVersion, stateVars
<1>4. CASE ApplyFailed
  <2>1. drift' = drift /\ (drift = {} => FALSE)
    BY <1>4, <1>v DEF ApplyFailed, Undisturbed, Untorn, Alone
  <2>. QED
    BY <2>1 DEF Undisturbed
<1>5. CASE RecordAgain
  <2>. SUFFICES ASSUME drift = {}
                PROVE  Undisturbed'
    BY <1>5 DEF RecordAgain, Undisturbed
  <2>1. job["events"].pc = "done" /\ job["events"].v = ev.v
    BY <1>5 DEF RecordAgain, Control, Jobs, Applying
  <2>2. job["main"].pc = "none"
    BY <2>1 DEF Undisturbed, Untorn, Alone, Applying
  <2>3. file = ev.v /\ claim = ev.v /\ mem.version = ev.v
    BY <1>on, <1>v, <2>1, <2>2 DEF Undisturbed, Untorn, Alone, InStep, Thread
  <2>4. CASE ev.d # NoDeployment
    <3>1. mem'.version = mem.version
      BY <1>5, <1>v, <2>3, <2>4, ConfigMove DEF RecordAgain
    <3>. QED
      BY <1>0, <1>5, <2>4, <3>1, Steady DEF RecordAgain
  <2>5. CASE ev.d = NoDeployment
    <3>1. job'["events"].pc = "none" /\ \A u \in Thread \ {"events"} : job'[u] = job[u]
      BY <1>5, <1>v, <2>5, JobEnds DEF RecordAgain
    <3>2. UNCHANGED <<claim, mem, disk, drift>>
      BY <1>5, <2>3, <2>5 DEF RecordAgain
    <3>. QED
      BY <1>0, <1>v, <1>on, <2>1, <3>1, <3>2, Forgotten
  <2>. QED
    BY <2>4, <2>5
<1>6. CASE SaveAgain
  <2>1. job["events"].pc = "done"
    BY <1>6 DEF SaveAgain, EventsGo, Control, Jobs
  <2>2. job'["events"].pc = "none" /\ \A u \in Thread \ {"events"} : job'[u] = job[u]
    BY <1>6, <1>v, JobEnds DEF SaveAgain
  <2>. QED
    BY <1>0, <1>6, <1>v, <1>on, <2>1, <2>2, Forgotten DEF SaveAgain, Save
<1>. QED
  BY <1>1, <1>2, <1>3, <1>4, <1>5, <1>6 DEF EventsStep

LEMMA UndisturbedStep ==
  ASSUME TypeOK, Control, Untorn, Undisturbed, [Next]_vars
  PROVE  Undisturbed'
<1>1. CASE Crash
  <2>. SUFFICES ASSUME drift' = {}
                PROVE  InStep'
    BY DEF Undisturbed
  <2>1. drift = {} /\ main # "down" /\ \A t \in Thread : job[t].pc = "none"
    BY <1>1 DEF Crash, Applying
  <2>2. disk.version = file
    BY <2>1 DEF Undisturbed, InStep
  <2>3. /\ main' = "down" /\ file' = file /\ disk' = disk
        /\ \A t \in Thread : job'[t].pc = "none" /\ fd'[t] = "closed"
    BY <1>1 DEF Crash, NoJob
  <2>. QED
    BY <2>2, <2>3 DEF Alone, InStep, Applying, Thread
<1>2. CASE UNCHANGED vars
  BY <1>2, Steady DEF vars, fileVars, stateVars
<1>3. CASE Outside
  BY <1>3, OutsideFrame, Steady DEF fileVars, stateVars
<1>. QED
  BY <1>1, <1>2, <1>3, NextIs, UndisturbedApply, UndisturbedMain, UndisturbedEvents

-----------------------------------------------------------------------------
\* Every initial state and every step keeps the invariant.
LEMMA InitIInv ==
  ASSUME Init
  PROVE  IInv
<1>. latest \in 0..MaxVersion /\ pushes \in 0..MaxPushes /\ starts \in 0..MaxStarts /\ 0 \in 0..MaxVersion
  BY VersionsAssumption, StartsAssumption DEF Init
<1>1. TypeOK
  BY Nothing DEF Init, TypeOK, MainPc, Content, EventsRow, JobRow
<1>2. Pending /\ EventsOff /\ Jobs /\ OnlyDeployments /\ RecordKept
  BY DEF Init, NoEvents, NoJob, Pending, EventsOff, Jobs, Applying, OnlyDeployments, RecordKept,
         Work, Thread
<1>3. Saved /\ InterruptedMeansUnfinished
  BY DEF Init, Saved, InterruptedMeansUnfinished
<1>4. Unanswered /\ Arrived
  BY DeploymentAssumption
  DEF Init, NoEvents, Fresh, Unanswered, Arrived, AtWork, Work, Finished
<1>5. Untorn /\ Undisturbed
  BY DEF Init, NoJob, Fresh, Untorn, Undisturbed, Alone, InStep, Applying, Thread
<1>. QED
  BY <1>1, <1>2, <1>3, <1>4, <1>5 DEF IInv

\* The invariant is inductive: whatever the two goroutines, the hub and a crash
\* do, in any order.
THEOREM Inductive ==
  IInv /\ [Next]_vars => IInv'
  BY TypesStep, ControlStep, StateFileStep, RecordStep, ReportsStep, UntornStep, UndisturbedStep
  DEF IInv, Control, Reports

\* The invariant holds in every reachable state.
THEOREM Invariance ==
  Spec => []IInv
<1>1. Init => IInv
  BY InitIInv
<1>. QED
  BY <1>1, Inductive, PTL DEF Spec

\* Every variable keeps its type.
THEOREM TypesHold ==
  Spec => []TypeOK
<1>1. IInv => TypeOK
  BY DEF IInv
<1>. QED
  BY <1>1, Invariance, PTL

\* The state file is the state unless somebody is about to save it, although the
\* lock is given back between a change and its Save (StateManager).
THEOREM StateFileFollows ==
  Spec => []Saved
<1>1. IInv => Saved
  BY DEF IInv
<1>. QED
  BY <1>1, Invariance, PTL

\* A deployment being worked on is in the state file, for a crash to be found
\* (OnDeployment).
THEOREM WorkRecorded ==
  Spec => []WorkIsOnRecord
<1>1. IInv => WorkIsOnRecord
  BY DEF IInv, RecordKept, WorkIsOnRecord
<1>. QED
  BY <1>1, Invariance, PTL

\* No deployment event is reported both interrupted and finished
\* (reportInterruptedDeployment).
THEOREM ReportsAgree ==
  Spec => []InterruptedMeansUnfinished
<1>1. IInv => InterruptedMeansUnfinished
  BY DEF IInv
<1>. QED
  BY <1>1, Invariance, PTL

\* The proxy's configuration file is whole at every moment, through failed fetches,
\* crashes in the middle of an application and restarts, as long as no two
\* applications have overlapped (WriteConfig's temporary file and rename).
THEOREM WholeWithoutOverlap ==
  Spec => []WholeUnlessOverlapped
<1>1. IInv => WholeUnlessOverlapped
  BY ContentAssumption DEF IInv, Untorn, WholeUnlessOverlapped
<1>. QED
  BY <1>1, Invariance, PTL

\* Without an adopted version, an overlap or a crash in the middle, what the
\* agent claims between applications is in the proxy's file and on record
\* (UpdateConfigState, SetConfigState).
THEOREM ClaimsAreTrue ==
  Spec => []ClaimIsFile
<1>1. IInv => ClaimIsFile
  BY DEF IInv, Untorn, Undisturbed, Alone, InStep, Applying, ClaimIsFile
<1>. QED
  BY <1>1, Invariance, PTL

=============================================================================
