------------------------- MODULE InstanceRecordsProofs -------------------------
(***************************************************************************)
(* Theorems about InstanceRecords, for any configurations, versions and    *)
(* deployments, any reported and edited states and any bounds.             *)
(*                                                                         *)
(* The invariant adds to the properties                                    *)
(*   Linked      the handler of the agent's call and the agent that waits  *)
(*               for it agree on which call it is                          *)
(*   Asked       what is still to be fetched is a version                  *)
(*   Applying    the main goroutine applies while it says so, the events   *)
(*               goroutine while it has an event, and is connected         *)
(*   Dispatched  a deployment that was begun, and so each event's, names a *)
(*               version                                                   *)
(*   InCopies    a copy holds what was last set in a field, or the field   *)
(*               was set behind it                                         *)
(*   Following   the announced configuration is the row's until it moves   *)
(***************************************************************************)
EXTENDS InstanceRecords, TLAPS

TaskRow == [pc : HandlerPc \cup WorkerPc, copy : Row, status : Status, late : SUBSET Field]
AgentRow == [pc : {"out", "register", "report", "loop", "wait", "fetch", "apply"}, claim : Assignment,
             said : Assignment]
AskRow == [c : Config \cup {NoConfig}, v : 0..MaxVersion, left : 0..2, moved : BOOLEAN]
JobRow == [pc : {"idle", "write", "claim", "save", "again"}, v : Assignment, alone : BOOLEAN]
DiskRow == [file : Assignment, saved : Assignment, active : BOOLEAN]
Event == [d : Deployment, v : Version, rollback : BOOLEAN]
Fields == [assignment : Assignment, status : Status]

Typed(tasks) ==
  /\ tasks \in [Task -> TaskRow]
  /\ \A h \in Handler : tasks[h].pc \in HandlerPc
  /\ \A d \in Deployment : tasks[d].pc \in WorkerPc
Tasks == Typed(task)

Table == row \in Row /\ last \in Fields

Asked ==
  /\ agent \in AgentRow /\ ask \in AskRow
  /\ agent.pc \in {"fetch", "apply"} <=> ask.left > 0
  /\ agent.pc \in {"out", "register", "report", "loop"} => ask = NoAsk
  /\ ask.left > 0 => ask.c \in Config /\ ask.v \in Version

Rest ==
  /\ latest \in [Config -> Version]
  /\ named \in BOOLEAN
  /\ withdrawn \subseteq Config \X Version
  /\ edits \in 0..MaxEdits /\ faults \in 0..MaxFaults

RegisterPc == {"register read", "register write", "register reread", "register answer"}
BeatPc == {"beat read", "beat write", "beat answer"}

Linked ==
  /\ task[Call].pc \in RegisterPc => agent.pc = "register"
  /\ task[Call].pc \in BeatPc => agent.pc = "wait"
  /\ task[Call].pc # "edit write"

Applying ==
  /\ job \in [Goroutine -> JobRow] /\ disk \in DiskRow
  /\ work \in {"recv", "begin", "apply", "completed", "failed"}
  /\ astray \subseteq {"adopt", "overlap", "cut"}
  /\ agent.pc = "apply" <=> job["main"].pc # "idle"
  /\ work = "apply" <=> job["events"].pc # "idle"
  /\ work # "recv" => Connected /\ events # <<>>

Dispatched ==
  /\ dep \in [Deployment -> [c : Config \cup {NoConfig}, v : 0..MaxVersion]]
  /\ events \in Seq(Event)
  /\ \A d \in Deployment : task[d].pc # "idle" => dep[d].c \in Config /\ dep[d].v \in Version
  /\ \A i \in 1..Len(events) :
       /\ task[events[i].d].pc # "idle"
       /\ events[i].rollback => events[i].v + 1 \in Version

InCopies ==
  row.there =>
    \A t \in Task : Holds(t) =>
      /\ "assignment" \notin task[t].late => task[t].copy.assignment = last.assignment
      /\ "status" \notin task[t].late => task[t].copy.status = last.status

Following ==
  ~ask.moved =>
    /\ task[Call].pc \in {"beat write", "beat answer"} =>
         task[Call].copy.assignment[1] = row.assignment[1]
    /\ agent.pc \in {"fetch", "apply"} => ask.c = row.assignment[1]

IInv ==
  /\ Tasks /\ Table /\ Asked /\ Rest /\ Linked /\ Applying /\ Dispatched
  /\ InCopies /\ RowKeepsWrites
  /\ Following /\ FetchedIsAnnounced

-----------------------------------------------------------------------------
\* The parts of a step: what a task does.

LEMMA Typing ==
  /\ Nothing \in Assignment /\ Missing \in Row /\ Idle \in TaskRow /\ NoAsk \in AskRow /\ Unset \in Fields
  /\ NoJob \in JobRow
  /\ Call \in Task /\ Other \in Task /\ Deployment \subseteq Task /\ Handler \subseteq Task
  /\ Call \in Handler /\ Other \in Handler /\ Call # Other
  /\ Call \notin Deployment /\ Other \notin Deployment /\ Handler \cap Deployment = {}
  /\ \A t \in Task : t \in Handler \/ t \in Deployment
  /\ Reported \subseteq Status /\ Edited \subseteq Status
  BY TaskAssumption, StateAssumption, BoundAssumption
  DEF Nothing, Assignment, Missing, Row, Idle, TaskRow, NoAsk, AskRow, Unset, Fields, Task, Handler, Status,
      HandlerPc, WorkerPc, NoJob, JobRow

LEMMA TaskOf ==
  ASSUME Tasks, NEW t \in Task
  PROVE  task[t] \in TaskRow /\ task[t].copy \in Row /\ task[t].status \in Status
         /\ task[t].pc \in HandlerPc \cup WorkerPc /\ task[t].late \in SUBSET Field
  BY DEF Tasks, Typed, TaskRow

\* One task moves; others may fall behind.
Same(f, g, u) == g[u].pc = f[u].pc /\ g[u].copy = f[u].copy /\ f[u].late \subseteq g[u].late
Moves(t) == \A u \in Task \ {t} : Same(task, task', u)

LEMMA BehindOf ==
  ASSUME NEW tasks, Typed(tasks), NEW set \in SUBSET Field
  PROVE  /\ Typed(Behind(tasks, set))
         /\ \A u \in Task : /\ Same(tasks, Behind(tasks, set), u)
                            /\ tasks[u].pc \in WritePc => set \subseteq Behind(tasks, set)[u].late
<1>1. ASSUME NEW u \in Task
      PROVE  /\ Behind(tasks, set)[u] \in TaskRow /\ Same(tasks, Behind(tasks, set), u)
             /\ tasks[u].pc \in WritePc => set \subseteq Behind(tasks, set)[u].late
  <2>1. tasks[u] \in TaskRow
    BY DEF Typed
  <2>2. Behind(tasks, set)[u] = IF tasks[u].pc \in WritePc THEN [tasks[u] EXCEPT !.late = @ \cup set] ELSE tasks[u]
    BY DEF Behind
  <2>3. tasks[u].late \cup set \in SUBSET Field
    BY <2>1 DEF TaskRow
  <2>. QED
    BY <2>1, <2>2, <2>3 DEF TaskRow, Same
<1>2. Behind(tasks, set) \in [Task -> TaskRow]
  BY <1>1 DEF Behind
<1>. QED
  BY <1>1, <1>2, Typing DEF Typed, Same

LEMMA Moving ==
  ASSUME Tasks, NEW t \in Task, NEW x \in TaskRow, task' = [task EXCEPT ![t] = x],
         t \in Handler => x.pc \in HandlerPc, t \in Deployment => x.pc \in WorkerPc
  PROVE  Tasks' /\ Moves(t) /\ task'[t] = x
<1>1. task' \in [Task -> TaskRow] /\ task'[t] = x /\ \A u \in Task \ {t} : task'[u] = task[u]
  BY DEF Tasks, Typed
<1>. QED
  BY <1>1, Typing DEF Tasks, Typed, Moves, Same

LEMMA MovingPast ==
  ASSUME Tasks, NEW t \in Task, NEW x \in TaskRow, NEW set \in SUBSET Field,
         task' = [Behind(task, set) EXCEPT ![t] = x],
         t \in Handler => x.pc \in HandlerPc, t \in Deployment => x.pc \in WorkerPc
  PROVE  /\ Tasks' /\ Moves(t) /\ task'[t] = x
         /\ \A u \in Task \ {t} : Holds(u) => set \subseteq task'[u].late
<1>. DEFINE b == Behind(task, set)
<1>1. /\ b \in [Task -> TaskRow] /\ \A h \in Handler : b[h].pc \in HandlerPc
      /\ \A d \in Deployment : b[d].pc \in WorkerPc
      /\ \A u \in Task : Same(task, b, u) /\ (Holds(u) => set \subseteq b[u].late)
  BY BehindOf DEF Tasks, Typed, Holds
<1>. HIDE DEF b
<1>2. task' \in [Task -> TaskRow] /\ task'[t] = x /\ \A u \in Task \ {t} : task'[u] = b[u]
  BY <1>1 DEF b
<1>3. Moves(t) /\ \A u \in Task \ {t} : Holds(u) => set \subseteq task'[u].late
  BY <1>1, <1>2 DEF Moves, Same
<1>. QED
  BY <1>1, <1>2, <1>3, Typing DEF Tasks, Typed

LEMMA Going ==
  ASSUME Tasks, NEW t \in Task, NEW pc \in HandlerPc \cup WorkerPc, Go(t, pc),
         t \in Handler => pc \in HandlerPc, t \in Deployment => pc \in WorkerPc
  PROVE  Tasks' /\ Moves(t) /\ task'[t].pc = pc
<1>1. [Idle EXCEPT !.pc = pc] \in TaskRow /\ [Idle EXCEPT !.pc = pc].pc = pc
  BY Typing DEF TaskRow
<1>2. task' = [task EXCEPT ![t] = [Idle EXCEPT !.pc = pc]]
  BY DEF Go
<1>3. Tasks' /\ Moves(t) /\ task'[t] = [Idle EXCEPT !.pc = pc]
  BY <1>1, <1>2, Moving
<1>. QED
  BY <1>1, <1>3

LEMMA Finishing ==
  ASSUME Tasks, NEW t \in Handler, Finish(t)
  PROVE  Tasks' /\ Moves(t) /\ task'[t].pc = "idle"
<1>1. "idle" \in HandlerPc /\ t \in Task /\ t \notin Deployment
  BY Typing DEF HandlerPc
<1>. QED
  BY <1>1, Going DEF Finish

LEMMA Reading ==
  ASSUME Tasks, Table, NEW t \in Task, NEW pc \in HandlerPc \cup WorkerPc, NEW s \in Status,
         ReadRow(t, pc, s),
         t \in Handler => pc \in HandlerPc, t \in Deployment => pc \in WorkerPc
  PROVE  Tasks' /\ Moves(t) /\ task'[t].pc = pc /\ task'[t].copy = row
<1>1. [pc |-> pc, copy |-> row, status |-> s, late |-> {}] \in TaskRow
  BY DEF TaskRow, Table
<1>2. task' = [task EXCEPT ![t] = [pc |-> pc, copy |-> row, status |-> s, late |-> {}]]
  BY DEF ReadRow
<1>3. Tasks' /\ Moves(t) /\ task'[t] = [pc |-> pc, copy |-> row, status |-> s, late |-> {}]
  BY <1>1, <1>2, Moving
<1>. QED
  BY <1>3

\* Ways the tasks may be after calls that end: handlers go on under another name.
From(tasks) ==
  \A t \in Task : tasks[t].pc \in WritePc =>
    \E u \in Task : Holds(u) /\ tasks[t].copy = task[u].copy /\ task[u].late \subseteq tasks[t].late

Passed(tasks) ==
  /\ Typed(tasks) /\ From(tasks)
  /\ \A d \in Deployment : tasks[d].pc # "idle" <=> task[d].pc # "idle"
  /\ tasks[Call].pc \in {task[Call].pc, "idle"}
  /\ tasks[Call].pc # "idle" => tasks[Call].copy = task[Call].copy

LEMMA Staying ==
  ASSUME Tasks
  PROVE  Passed(task)
  BY DEF Tasks, Passed, From, Holds

LEMMA Abandoning ==
  ASSUME Tasks, NEW tasks \in Abandoned
  PROVE  Passed(tasks) /\ tasks[Call].pc = "idle"
<1>0. Idle.pc = "idle" /\ "idle" \in HandlerPc /\ "idle" \notin WritePc
  BY DEF Idle, HandlerPc, WritePc
<1>1. CASE tasks = [task EXCEPT ![Call] = Idle]
  <2>1. /\ tasks \in [Task -> TaskRow] /\ tasks[Call] = Idle
        /\ \A t \in Task \ {Call} : tasks[t] = task[t]
    BY <1>1, Typing DEF Tasks, Typed
  <2>. QED
    BY <1>0, <2>1, Typing DEF Tasks, Passed, Typed, From, Holds
<1>2. CASE At(Other, "idle") /\ tasks = [task EXCEPT ![Other] = task[Call], ![Call] = Idle]
  <2>1. /\ tasks \in [Task -> TaskRow]
        /\ tasks[Call] = Idle /\ tasks[Other] = task[Call]
        /\ \A t \in Task : t # Call /\ t # Other => tasks[t] = task[t]
    BY <1>2, Typing DEF Tasks, Typed
  <2>2. Typed(tasks)
    <3>1. \A h \in Handler : tasks[h].pc \in HandlerPc
      BY <1>0, <2>1, Typing DEF Tasks, Typed, Handler
    <3>2. \A d \in Deployment : tasks[d] = task[d]
      BY <2>1, Typing
    <3>. QED
      BY <2>1, <3>1, <3>2 DEF Tasks, Typed
  <2>3. From(tasks)
    BY <1>0, <2>1, Typing DEF From, Holds
  <2>. QED
    BY <1>0, <2>1, <2>2, <2>3, Typing DEF Passed
<1>. QED
  BY <1>1, <1>2 DEF Abandoned

\* A deployment that was sent its event is reported.
LEMMA Reporting ==
  ASSUME Tasks, NEW d \in Deployment, task[d].pc # "idle",
         NEW tasks, tasks = [task EXCEPT ![d] = [Idle EXCEPT !.pc = "reported"]]
  PROVE  Passed(tasks)
<1>1. /\ [Idle EXCEPT !.pc = "reported"] \in TaskRow /\ [Idle EXCEPT !.pc = "reported"].pc = "reported"
      /\ "reported" \in WorkerPc /\ "reported" \notin WritePc
  BY Typing DEF TaskRow, WorkerPc, WritePc
<1>2. /\ tasks \in [Task -> TaskRow] /\ tasks[d].pc = "reported"
      /\ \A t \in Task \ {d} : tasks[t] = task[t]
  BY <1>1, Typing DEF Tasks, Typed
<1>. QED
  BY <1>1, <1>2, Typing DEF Tasks, Passed, Typed, From, Holds

LEMMA Arriving ==
  ASSUME events \in Seq(Event), events # <<>>
  PROVE  /\ Head(events) = events[1] /\ 1 \in 1..Len(events)
         /\ Head(events) \in Event /\ Head(events).d \in Deployment /\ Head(events).v \in Version
         /\ Tail(events) \in Seq(Event)
         /\ \A i \in 1..Len(Tail(events)) : i + 1 \in 1..Len(events) /\ Tail(events)[i] = events[i + 1]
<1>1. /\ Head(events) = events[1] /\ 1 \in 1..Len(events) /\ events[1] \in Event
      /\ Tail(events) \in Seq(Event)
      /\ \A i \in 1..Len(Tail(events)) : i + 1 \in 1..Len(events) /\ Tail(events)[i] = events[i + 1]
  OBVIOUS
<1>. QED
  BY <1>1 DEF Event

-----------------------------------------------------------------------------
\* What a step does to the row, to what was last set and to the tasks.

\* UpdateInstance of a task: fields that it does not set are its copy's.
Writes(t) ==
  \E new \in Row, set \in SUBSET Field, then \in TaskRow :
    /\ "assignment" \notin set => new.assignment = task[t].copy.assignment
    /\ "status" \notin set => new.status = task[t].copy.status
    /\ UpdateInstance(t, new, set, then)

Creates(t) ==
  \E new \in Row, then \in TaskRow : CreateInstance(t, new, then)

\* One task's step; a deployment begins when it is sent.
Steps(t) ==
  /\ Tasks' /\ Moves(t)
  /\ t \in Deployment =>
       /\ task'[t].pc # "idle"
       /\ task[t].pc # "idle" \/ \E c \in Config, v \in Version : DeployToInstance(t, c, v)
  /\ \/ UNCHANGED <<row, last>> /\ (~Holds(t)' \/ task'[t].copy = row)
     \/ Holds(t) /\ ~Holds(t)' /\ (Writes(t) \/ Creates(t))

LEMMA Writing ==
  ASSUME Tasks, Table, NEW t \in Task, Holds(t), NEW new \in Row, NEW set \in SUBSET Field, NEW then \in TaskRow,
         "assignment" \notin set => new.assignment = task[t].copy.assignment,
         "status" \notin set => new.status = task[t].copy.status,
         then.pc \notin WritePc, t \in Handler => then.pc \in HandlerPc,
         t \in Deployment => then.pc \in WorkerPc \ {"idle"},
         UpdateInstance(t, new, set, then)
  PROVE  Steps(t) /\ task'[t] = then
<1>. DEFINE all == set \cup task[t].late
<1>1. all \in SUBSET Field /\ task' = [Behind(task, all) EXCEPT ![t] = then]
  BY TaskOf DEF UpdateInstance
<1>. HIDE DEF all
<1>2. Tasks' /\ Moves(t) /\ task'[t] = then
  BY <1>1, MovingPast
<1>3. Writes(t)
  BY DEF Writes
<1>4. task[t].pc # "idle"
  BY DEF Holds, WritePc
<1>. QED
  BY <1>2, <1>3, <1>4 DEF Steps, Holds

LEMMA RegisterWriting ==
  ASSUME Tasks, Table, NEW t \in Handler, RegisterWrites(t)
  PROVE  /\ Steps(t)
         /\ \/ /\ task'[t].pc = "idle" \/ (t = Call /\ task'[t].pc = "register reread")
               /\ agent' = agent /\ \E new \in Row : row' = new /\ NoteMove(new)
            \/ UNCHANGED row /\ Finish(t) /\ Answered(t)
<1>. DEFINE new == Registered(task[t].copy)
            then == Then(t, "register reread", new)
<1>0. t \in Task /\ t \notin Deployment /\ Holds(t) /\ "register reread" \in HandlerPc
  BY Typing DEF RegisterWrites, At, Holds, WritePc, HandlerPc
<1>1. task[t].copy \in Row
  BY <1>0, TaskOf
<1>2. new \in Row /\ new.assignment = task[t].copy.assignment
  BY <1>1 DEF Registered, Row, Status
<1>. HIDE DEF new
<1>3. then \in TaskRow /\ then.pc \in HandlerPc /\ (then.pc = "idle" \/ (t = Call /\ then.pc = "register reread"))
  BY <1>0, <1>2, Typing DEF Then, TaskRow, Idle, HandlerPc
<1>4. {"status"} \in SUBSET Field /\ Field \in SUBSET Field /\ "assignment" \notin {"status"} /\ "status" \in {"status"}
  BY DEF Field
<1>5. then.pc \notin WritePc
  BY <1>3 DEF WritePc
<1>6. \/ UpdateInstance(t, new, {"status"}, then) /\ UNCHANGED agent
      \/ CreateInstance(t, new, then) /\ UNCHANGED agent
      \/ Finish(t) /\ Answered(t) /\ UNCHANGED <<row, last>>
  BY DEF RegisterWrites, new
<1>. HIDE DEF then
<1>7. CASE UpdateInstance(t, new, {"status"}, then) /\ UNCHANGED agent
  <2>1. Steps(t) /\ task'[t] = then
    BY <1>0, <1>2, <1>3, <1>4, <1>5, <1>7, Writing
  <2>. QED
    BY <1>2, <1>3, <1>7, <2>1 DEF UpdateInstance
<1>8. CASE CreateInstance(t, new, then) /\ UNCHANGED agent
  <2>1. Tasks' /\ Moves(t) /\ task'[t] = then
    BY <1>0, <1>3, <1>4, <1>8, MovingPast DEF CreateInstance
  <2>2. Creates(t)
    BY <1>2, <1>3, <1>8 DEF Creates
  <2>. QED
    BY <1>0, <1>2, <1>3, <1>5, <1>8, <2>1, <2>2 DEF Steps, CreateInstance, Holds
<1>9. CASE Finish(t) /\ Answered(t) /\ UNCHANGED <<row, last>>
  <2>1. Tasks' /\ Moves(t) /\ task'[t].pc = "idle"
    BY <1>9, Finishing
  <2>. QED
    BY <1>0, <1>9, <2>1 DEF Steps, Holds, WritePc
<1>. QED
  BY <1>6, <1>7, <1>8, <1>9

LEMMA HeartbeatWriting ==
  ASSUME Tasks, Table, NEW t \in Handler, HeartbeatWrites(t)
  PROVE  /\ Steps(t)
         /\ \/ /\ \/ task'[t].pc = "idle"
                  \/ /\ t = Call /\ task'[t].pc = "beat answer"
                     /\ task'[t].copy.assignment = task[t].copy.assignment
               /\ agent' = agent /\ \E new \in Row : row' = new /\ NoteMove(new)
            \/ UNCHANGED row /\ Finish(t) /\ Answered(t)
<1>. DEFINE new == [task[t].copy EXCEPT !.status = task[t].status]
            then == Then(t, "beat answer", new)
<1>0. t \in Task /\ t \notin Deployment /\ Holds(t) /\ "beat answer" \in HandlerPc
  BY Typing DEF HeartbeatWrites, At, Holds, WritePc, HandlerPc
<1>1. task[t].copy \in Row /\ task[t].status \in Status
  BY <1>0, TaskOf
<1>2. new \in Row /\ new.assignment = task[t].copy.assignment
  BY <1>1 DEF Row
<1>. HIDE DEF new
<1>3. /\ then \in TaskRow /\ then.pc \in HandlerPc
      /\ then.pc = "idle" \/ (t = Call /\ then.pc = "beat answer" /\ then.copy = new)
  BY <1>0, <1>2, Typing DEF Then, TaskRow, Idle, HandlerPc
<1>4. {"status"} \in SUBSET Field /\ "assignment" \notin {"status"} /\ "status" \in {"status"}
  BY DEF Field
<1>5. then.pc \notin WritePc
  BY <1>3 DEF WritePc
<1>6. \/ UpdateInstance(t, new, {"status"}, then) /\ UNCHANGED agent
      \/ Finish(t) /\ Answered(t) /\ UNCHANGED <<row, last>>
  BY DEF HeartbeatWrites, new
<1>. HIDE DEF then
<1>7. CASE UpdateInstance(t, new, {"status"}, then) /\ UNCHANGED agent
  <2>1. Steps(t) /\ task'[t] = then
    BY <1>0, <1>2, <1>3, <1>4, <1>5, <1>7, Writing
  <2>. QED
    BY <1>2, <1>3, <1>7, <2>1 DEF UpdateInstance
<1>8. CASE Finish(t) /\ Answered(t) /\ UNCHANGED <<row, last>>
  <2>1. Tasks' /\ Moves(t) /\ task'[t].pc = "idle"
    BY <1>8, Finishing
  <2>. QED
    BY <1>0, <1>8, <2>1 DEF Steps, Holds, WritePc
<1>. QED
  BY <1>6, <1>7, <1>8

LEMMA EditWriting ==
  ASSUME Tasks, Table, EditWrites
  PROVE  Steps(Other) /\ \E new \in Row : row' = new /\ NoteMove(new)
<1>. DEFINE new == [task[Other].copy EXCEPT !.status = task[Other].status]
            set == IF task[Other].status = task[Other].copy.status THEN {} ELSE {"status"}
<1>0. Other \in Task /\ Other \notin Deployment /\ Holds(Other)
  BY Typing DEF EditWrites, At, Holds, WritePc
<1>1. task[Other].copy \in Row /\ task[Other].status \in Status
  BY <1>0, TaskOf
<1>2. new \in Row /\ new.assignment = task[Other].copy.assignment /\ new.status = task[Other].status
  BY <1>1 DEF Row
<1>3. set \in SUBSET Field /\ "assignment" \notin set /\ ("status" \notin set => new.status = task[Other].copy.status)
  BY <1>2 DEF Field
<1>4. Idle \in TaskRow /\ Idle.pc \in HandlerPc /\ Idle.pc \notin WritePc
  BY Typing DEF Idle, HandlerPc, WritePc
<1>5. UpdateInstance(Other, new, set, Idle)
  BY DEF EditWrites
<1>. HIDE DEF new, set
<1>6. Steps(Other)
  BY <1>0, <1>2, <1>3, <1>4, <1>5, Writing
<1>. QED
  BY <1>2, <1>5, <1>6 DEF UpdateInstance

LEMMA RecordWriting ==
  ASSUME Tasks, Table, Dispatched, NEW d \in Deployment, RecordWrites(d)
  PROVE  Steps(d) /\ \E new \in Row : row' = new /\ NoteMove(new)
<1>. DEFINE new == [task[d].copy EXCEPT !.assignment = <<dep[d].c, dep[d].v>>]
            then == [Idle EXCEPT !.pc = "done"]
<1>0. d \in Task /\ d \notin Handler /\ Holds(d)
  BY Typing DEF RecordWrites, At, Holds, WritePc
<1>1. task[d].copy \in Row /\ dep[d].c \in Config /\ dep[d].v \in Version
  BY <1>0, TaskOf DEF Dispatched, RecordWrites, At
<1>2. <<dep[d].c, dep[d].v>> \in Assignment
  BY <1>1 DEF Assignment
<1>3. new \in Row /\ new.status = task[d].copy.status
  BY <1>1, <1>2 DEF Row
<1>4. then \in TaskRow /\ then.pc \in WorkerPc \ {"idle"} /\ then.pc \notin WritePc
  BY Typing DEF TaskRow, WorkerPc, WritePc
<1>5. {"assignment"} \in SUBSET Field /\ "status" \notin {"assignment"} /\ "assignment" \in {"assignment"}
  BY DEF Field
<1>6. UpdateInstance(d, new, {"assignment"}, then)
  BY DEF RecordWrites
<1>. HIDE DEF new, then
<1>7. Steps(d)
  BY <1>0, <1>3, <1>4, <1>5, <1>6, Writing
<1>. QED
  BY <1>3, <1>6, <1>7 DEF UpdateInstance

LEMMA Sending ==
  ASSUME Tasks, SendHeartbeat
  PROVE  Tasks' /\ Moves(Call) /\ task'[Call].pc = "beat read"
<1>1. PICK s \in Reported : task' = [task EXCEPT ![Call] = [Idle EXCEPT !.pc = "beat read", !.status = s]]
  BY DEF SendHeartbeat
<1>. DEFINE x == [Idle EXCEPT !.pc = "beat read", !.status = s]
<1>2. x \in TaskRow /\ x.pc = "beat read" /\ "beat read" \in HandlerPc
  BY Typing DEF TaskRow, HandlerPc
<1>3. task' = [task EXCEPT ![Call] = x]
  BY <1>1
<1>. HIDE DEF x
<1>4. Tasks' /\ Moves(Call) /\ task'[Call] = x
  BY <1>2, <1>3, Moving, Typing
<1>. QED
  BY <1>2, <1>4

LEMMA HandlerPcs ==
  /\ RegisterPc \cup BeatPc \cup {"idle", "edit write"} = HandlerPc
  /\ {"sent", "reported", "record write", "done", "undone", "failed"} = WorkerPc \ {"idle"}
  /\ "online" \in Status /\ "unknown" \in Status /\ "offline" \in Status /\ "degraded" \in Status
  /\ "deploying" \in Status
  BY DEF RegisterPc, BeatPc, HandlerPc, WorkerPc, Status

\* Steps of the handlers of calls, by the agent or by one that is gone.
LEMMA HandlerSteps ==
  ASSUME Tasks, Table, NEW t \in Handler,
         \/ RegisterReads(t) \/ RegisterWrites(t) \/ HeartbeatReads(t) \/ HeartbeatWrites(t)
  PROVE  Steps(t)
<1>. t \in Task /\ t \notin Deployment
  BY Typing
<1>1. CASE RegisterReads(t)
  <2>1. Tasks' /\ Moves(t) /\ task'[t].copy = row
    BY <1>1, HandlerPcs, Reading DEF RegisterReads, RegisterPc
  <2>. QED
    BY <1>1, <2>1 DEF Steps, RegisterReads
<1>2. CASE HeartbeatReads(t)
  <2>1. CASE ReadRow(t, "beat write", task[t].status)
    <3>1. Tasks' /\ Moves(t) /\ task'[t].copy = row
      BY <2>1, HandlerPcs, Reading, TaskOf DEF BeatPc
    <3>. QED
      BY <1>2, <3>1 DEF Steps, HeartbeatReads
  <2>2. CASE Finish(t)
    <3>1. Tasks' /\ Moves(t) /\ task'[t].pc = "idle"
      BY <2>2, Finishing
    <3>. QED
      BY <1>2, <3>1 DEF Steps, HeartbeatReads, Holds, WritePc
  <2>. QED
    BY <1>2, <2>1, <2>2 DEF HeartbeatReads
<1>. QED
  BY <1>1, <1>2, RegisterWriting, HeartbeatWriting

\* Steps of the main goroutine's calls that leave the row alone.
LEMMA CallSteps ==
  ASSUME Tasks, Table,
         SendRegister \/ RegisterRereads \/ RegisterAnswers \/ SendHeartbeat \/ HeartbeatAnswers
  PROVE  Steps(Call) /\ task'[Call].pc \in {"register read", "register answer", "beat read", "idle"}
<1>. Call \in Task /\ Call \in Handler /\ Call \notin Deployment
  BY Typing
<1>0. UNCHANGED <<row, last>>
  BY DEF SendRegister, RegisterRereads, RegisterAnswers, SendHeartbeat, HeartbeatAnswers
<1>1. CASE SendRegister
  <2>1. Tasks' /\ Moves(Call) /\ task'[Call].pc = "register read"
    BY <1>1, HandlerPcs, Going DEF SendRegister, RegisterPc
  <2>. QED
    BY <1>0, <2>1 DEF Steps, Holds, WritePc
<1>2. CASE RegisterRereads
  <2>1. Tasks' /\ Moves(Call) /\ task'[Call].pc = "register answer"
    BY <1>2, HandlerPcs, Reading DEF RegisterRereads, RegisterPc
  <2>. QED
    BY <1>0, <2>1 DEF Steps, Holds, WritePc
<1>3. CASE SendHeartbeat
  <2>1. Tasks' /\ Moves(Call) /\ task'[Call].pc = "beat read"
    BY <1>3, Sending
  <2>. QED
    BY <1>0, <2>1 DEF Steps, Holds, WritePc
<1>4. CASE RegisterAnswers \/ HeartbeatAnswers
  <2>1. Tasks' /\ Moves(Call) /\ task'[Call].pc = "idle"
    BY <1>4, Finishing DEF RegisterAnswers, HeartbeatAnswers
  <2>. QED
    BY <1>0, <2>1 DEF Steps, Holds, WritePc
<1>. QED
  BY <1>1, <1>2, <1>3, <1>4

LEMMA OtherSteps ==
  ASSUME Tasks, Table, NEW t \in Task,
         (t = Other /\ (EditReads \/ EditWrites)) \/ Drop(t)
  PROVE  Steps(t) /\ t # Call
<1>1. CASE t = Other /\ EditReads
  <2>1. PICK s \in Edited \cup {row.status} : ReadRow(Other, "edit write", s)
    BY <1>1 DEF EditReads
  <2>2. s \in Status
    BY Typing DEF Table, Row
  <2>3. Tasks' /\ Moves(Other) /\ task'[Other].copy = row
    BY <2>1, <2>2, HandlerPcs, Reading, Typing
  <2>. QED
    BY <1>1, <2>3, Typing DEF Steps, EditReads
<1>2. CASE t = Other /\ EditWrites
  BY <1>2, EditWriting, Typing
<1>3. CASE Drop(t) /\ t = Other
  <2>1. Tasks' /\ Moves(t) /\ task'[t].pc = "idle"
    BY <1>3, Finishing, Typing DEF Drop, Finish
  <2>. QED
    BY <1>3, <2>1, Typing DEF Steps, Drop, Holds, WritePc
<1>4. CASE Drop(t) /\ t # Other
  <2>1. t # Call /\ Go(t, "done") /\ UNCHANGED <<row, last>> /\ task[t].pc # "idle"
    BY <1>4 DEF Drop, Holds, WritePc
  <2>2. t \notin Handler /\ "done" \in WorkerPc
    BY <1>4, <2>1, HandlerPcs DEF Handler
  <2>3. Tasks' /\ Moves(t) /\ task'[t].pc = "done"
    BY <2>1, <2>2, Going
  <2>. QED
    BY <2>1, <2>3 DEF Steps, Holds, WritePc
<1>. QED
  BY <1>1, <1>2, <1>3, <1>4

LEMMA DeploymentSteps ==
  ASSUME Tasks, Table, Dispatched, NEW d \in Deployment,
         \/ \E c \in Config, v \in Version : DeployToInstance(d, c, v)
         \/ GiveUp(d) \/ RecordReads(d) \/ RecordWrites(d) \/ Rollback(d)
  PROVE  Steps(d)
<1>. d \in Task /\ d \notin Handler
  BY Typing
<1>1. CASE RecordWrites(d)
  BY <1>1, RecordWriting
<1>2. CASE RecordReads(d) /\ ReadRow(d, "record write", "unknown")
  <2>1. Tasks' /\ Moves(d) /\ task'[d].copy = row /\ task'[d].pc = "record write"
    BY <1>2, HandlerPcs, Reading
  <2>. QED
    BY <1>2, <2>1 DEF Steps, RecordReads, At
<1>3. CASE RecordReads(d) /\ Go(d, "done")
  <2>1. Tasks' /\ Moves(d) /\ task'[d].pc = "done"
    BY <1>3, HandlerPcs, Going
  <2>. QED
    BY <1>3, <2>1 DEF Steps, RecordReads, At, Holds, WritePc
<1>4. CASE GiveUp(d)
  <2>1. Tasks' /\ Moves(d) /\ task'[d].pc = "failed"
    BY <1>4, HandlerPcs, Going DEF GiveUp
  <2>. QED
    BY <1>4, <2>1 DEF Steps, GiveUp, At, Holds, WritePc
<1>5. CASE Rollback(d)
  <2>1. Tasks' /\ Moves(d) /\ task'[d].pc = "undone"
    BY <1>5, HandlerPcs, Going DEF Rollback
  <2>. QED
    BY <1>5, <2>1 DEF Steps, Rollback, At, Holds, WritePc
<1>6. ASSUME NEW c \in Config, NEW v \in Version, DeployToInstance(d, c, v) PROVE Steps(d)
  <2>1. Tasks' /\ Moves(d) /\ task'[d].pc = "sent"
    BY <1>6, HandlerPcs, Going DEF DeployToInstance
  <2>2. UNCHANGED <<row, last>>
    BY <1>6 DEF DeployToInstance
  <2>. QED
    BY <1>6, <2>1, <2>2 DEF Steps, Holds, WritePc
<1>. QED
  BY <1>1, <1>2, <1>3, <1>4, <1>5, <1>6 DEF RecordReads

\* The row's status is written, or the row stays, while calls may have ended.
Settles(tasks) ==
  /\ Passed(tasks)
  /\ \/ task' = tasks /\ UNCHANGED <<row, last>>
     \/ \E s \in Status : UpdateInstanceStatus(s, tasks)

LEMMA Settling ==
  ASSUME NEW tasks, Settles(tasks)
  PROVE  Tasks' /\ \A u \in Task : Same(tasks, task', u)
<1>1. Typed(tasks) /\ {"status"} \in SUBSET Field
  BY DEF Settles, Passed, Field
<1>2. CASE task' = tasks
  BY <1>1, <1>2 DEF Tasks, Typed, Same
<1>3. CASE task' = Behind(tasks, {"status"})
  BY <1>1, <1>3, BehindOf DEF Tasks, Typed
<1>. QED
  BY <1>2, <1>3 DEF Settles, UpdateInstanceStatus

LEMMA StatusSteps ==
  ASSUME Tasks, Table, Dispatched, Applying,
         Leave \/ ReportInterrupted \/ BeginDeployment \/ EndDeployment
  PROVE  \E tasks \in [Task -> TaskRow] : Settles(tasks)
<1>0. task \in [Task -> TaskRow] /\ Passed(task)
  BY Staying DEF Tasks, Typed
<1>1. ASSUME NEW s \in Status, NEW tasks \in [Task -> TaskRow], Passed(tasks), Report(s, tasks)
      PROVE  Settles(tasks) \/ Settles(task)
  BY <1>0, <1>1 DEF Report, Settles
<1>2. CASE Leave
  BY <1>0, <1>2, HandlerPcs DEF Leave, Settles
<1>3. CASE ReportInterrupted \/ BeginDeployment
  <2>1. "degraded" \in Status /\ "deploying" \in Status
    BY HandlerPcs
  <2>2. CASE UpdateInstanceStatus("degraded", task)
    BY <1>0, <2>1, <2>2 DEF Settles
  <2>3. CASE Report("degraded", task) \/ Report("deploying", task)
    BY <1>0, <1>1, <2>1, <2>3
  <2>. QED
    BY <1>3, <2>2, <2>3 DEF ReportInterrupted, BeginDeployment
<1>4. CASE EndDeployment
  <2>. DEFINE d == Head(events).d
              done == [task EXCEPT ![d] = [Idle EXCEPT !.pc = "reported"]]
  <2>1. CASE Report("degraded", task) \/ Report("online", task)
    BY <1>0, <1>1, <2>1, HandlerPcs
  <2>2. CASE Report("online", done) /\ At(d, "sent")
    <3>1. events # <<>>
      BY <1>4 DEF EndDeployment, Applying
    <3>2. d \in Deployment /\ task[d].pc # "idle"
      BY <2>2, <3>1, Arriving DEF Dispatched, At
    <3>3. Passed(done)
      BY <3>2, Reporting
    <3>4. done \in [Task -> TaskRow]
      BY <3>3 DEF Passed, Typed
    <3>. QED
      BY <1>0, <1>1, <2>2, <3>3, <3>4, HandlerPcs
  <2>. QED
    BY <1>4, <2>1, <2>2 DEF EndDeployment
<1>. QED
  BY <1>2, <1>3, <1>4

LEMMA AbandonSteps ==
  ASSUME Tasks, Table, CallFails \/ Exit
  PROVE  /\ \E tasks \in [Task -> TaskRow] : Settles(tasks)
         /\ task'[Call].pc = "idle"
<1>1. PICK tasks \in Abandoned :
        \/ task' = tasks /\ UNCHANGED <<row, last>>
        \/ UpdateInstanceStatus("offline", tasks)
  BY DEF CallFails, Exit
<1>2. Passed(tasks) /\ tasks[Call].pc = "idle" /\ tasks \in [Task -> TaskRow]
  BY Abandoning DEF Passed, Typed
<1>3. Settles(tasks)
  BY <1>1, <1>2, HandlerPcs DEF Settles
<1>4. task'[Call].pc = "idle"
  BY <1>2, <1>3, Settling, Typing DEF Same
<1>. QED
  BY <1>2, <1>3, <1>4

\* The other steps leave the tasks and the row alone.
LEMMA StepsBy ==
  ASSUME Tasks, Table, Dispatched, Applying, [Next]_vars
  PROVE  \/ \E t \in Task : Steps(t)
         \/ \E tasks \in [Task -> TaskRow] : Settles(tasks)
         \/ DeleteInstance
<1>1. CASE UNCHANGED <<row, last, task>>
  BY <1>1, Staying DEF Settles, Tasks, Typed
<1>2. CASE OnConfigUpdate("main") \/ ApplyDeployment \/ OnDeployment \/ FetchConfig \/ FetchConfigFails
  BY <1>1, <1>2
  DEF OnConfigUpdate, WriteConfig, WriteConfigFails, UpdateConfigState, SetConfigState, ApplyDeployment,
      DeploymentApplied, OnDeployment, FetchConfig, FetchConfigFails
<1>3. CASE UNCHANGED vars \/ \E c \in Config : Publish(c)
  BY <1>1, <1>3 DEF vars, Publish
<1>4. CASE RegisterReads(Call) \/ RegisterWrites(Call) \/ HeartbeatReads(Call) \/ HeartbeatWrites(Call)
  BY <1>4, HandlerSteps, Typing
<1>5. CASE RegisterReads(Other) \/ RegisterWrites(Other) \/ HeartbeatReads(Other) \/ HeartbeatWrites(Other)
  BY <1>5, HandlerSteps, Typing
<1>. QED
  BY <1>2, <1>3, <1>4, <1>5, CallSteps, OtherSteps, DeploymentSteps, StatusSteps, AbandonSteps, Typing
  DEF Next, MainGoroutine

-----------------------------------------------------------------------------
\* What becomes of the row and of what was last set.

LEMMA Updating ==
  ASSUME Tasks, Table, NEW t \in Task, NEW new \in Row, NEW set \in SUBSET Field, NEW then \in TaskRow,
         UpdateInstance(t, new, set, then)
  PROVE  /\ Table' /\ row.there /\ row' = new
         /\ last'.assignment = IF "assignment" \in set \cup task[t].late THEN new.assignment ELSE last.assignment
         /\ last'.status = IF "status" \in set \cup task[t].late THEN new.status ELSE last.status
         /\ \A u \in Task \ {t} : Holds(u) => set \cup task[t].late \subseteq task'[u].late
<1>. DEFINE all == set \cup task[t].late
            b == Behind(task, all)
<1>1. all \in SUBSET Field /\ row.there /\ row' = new /\ task' = [b EXCEPT ![t] = then]
  BY TaskOf DEF UpdateInstance
<1>2. last' = [assignment |-> IF "assignment" \in all THEN new.assignment ELSE last.assignment,
               status |-> IF "status" \in all THEN new.status ELSE last.status]
  BY DEF UpdateInstance, Note
<1>3. new.assignment \in Assignment /\ new.status \in Status /\ last.assignment \in Assignment /\ last.status \in Status
  BY DEF Table, Row, Fields
<1>4. b \in [Task -> TaskRow] /\ \A u \in Task : Holds(u) => all \subseteq b[u].late
  BY <1>1, BehindOf DEF Tasks, Typed, Holds
<1>. HIDE DEF b, all
<1>5. last' \in Fields
  BY <1>2, <1>3 DEF Fields
<1>6. \A u \in Task \ {t} : Holds(u) => all \subseteq task'[u].late
  BY <1>1, <1>4
<1>. QED
  BY <1>1, <1>2, <1>5, <1>6 DEF Table, all

LEMMA Creating ==
  ASSUME Tasks, Table, NEW t \in Task, NEW new \in Row, NEW then \in TaskRow, CreateInstance(t, new, then)
  PROVE  /\ Table' /\ row' = new
         /\ last'.assignment = new.assignment /\ last'.status = new.status
         /\ \A u \in Task \ {t} : Holds(u) => Field \subseteq task'[u].late
<1>. DEFINE b == Behind(task, Field)
<1>1. new.assignment \in Assignment /\ new.status \in Status
  BY DEF Row
<1>2. last' = [assignment |-> new.assignment, status |-> new.status] /\ row' = new /\ task' = [b EXCEPT ![t] = then]
  BY DEF CreateInstance, Note, Field
<1>3. b \in [Task -> TaskRow] /\ \A u \in Task : Holds(u) => Field \subseteq b[u].late
  BY BehindOf DEF Tasks, Typed, Holds
<1>. HIDE DEF b
<1>4. last' \in Fields
  BY <1>1, <1>2 DEF Fields
<1>. QED
  BY <1>2, <1>3, <1>4 DEF Table

LEMMA StatusWriting ==
  ASSUME Table, NEW tasks, Typed(tasks), NEW s \in Status, UpdateInstanceStatus(s, tasks)
  PROVE  /\ Table' /\ row'.there = row.there /\ row'.assignment = row.assignment
         /\ last'.assignment = last.assignment
         /\ row.there => /\ row'.status = s /\ last'.status = s
                         /\ \A u \in Task : tasks[u].pc \in WritePc => "status" \in task'[u].late
         /\ ~row.there => UNCHANGED <<row, last>>
<1>1. CASE row.there
  <2>1. row' = [row EXCEPT !.status = s] /\ last' = [last EXCEPT !.status = s] /\ task' = Behind(tasks, {"status"})
    BY <1>1 DEF UpdateInstanceStatus
  <2>2. row' \in Row /\ last' \in Fields /\ row'.there = row.there /\ row'.assignment = row.assignment
        /\ last'.assignment = last.assignment /\ row'.status = s /\ last'.status = s
    BY <2>1 DEF Table, Row, Fields
  <2>3. {"status"} \in SUBSET Field /\ "status" \in {"status"}
    BY DEF Field
  <2>4. \A u \in Task : tasks[u].pc \in WritePc => "status" \in task'[u].late
    BY <2>1, <2>3, BehindOf
  <2>. QED
    BY <1>1, <2>2, <2>4 DEF Table
<1>2. CASE ~row.there
  BY <1>2 DEF UpdateInstanceStatus, Table
<1>. QED
  BY <1>1, <1>2

LEMMA Deleting ==
  ASSUME Table, DeleteInstance
  PROVE  Table' /\ ~row'.there /\ row'.assignment = last'.assignment /\ row'.status = last'.status
         /\ row' = Missing /\ task' = task
  BY Typing DEF DeleteInstance, Table, Missing, Unset, hub

LEMMA TasksStep ==
  ASSUME Tasks, Table, Dispatched, Applying, [Next]_vars
  PROVE  Tasks'
<1>1. CASE DeleteInstance
  BY <1>1, Deleting DEF Tasks
<1>. QED
  BY <1>1, StepsBy, Settling DEF Steps

LEMMA TableStep ==
  ASSUME Tasks, Table, Dispatched, Applying, [Next]_vars
  PROVE  Table'
<1>0. CASE UNCHANGED <<row, last>>
  BY <1>0 DEF Table
<1>1. ASSUME NEW t \in Task, Steps(t) PROVE Table'
  BY <1>0, <1>1, Updating, Creating DEF Steps, Writes, Creates
<1>2. ASSUME NEW tasks \in [Task -> TaskRow], Settles(tasks) PROVE Table'
  BY <1>0, <1>2, StatusWriting DEF Settles, Passed
<1>3. CASE DeleteInstance
  BY <1>3, Deleting
<1>. QED
  BY <1>1, <1>2, <1>3, StepsBy

LEMMA RowKeepsWritesStep ==
  ASSUME Tasks, Table, Dispatched, Applying, InCopies, RowKeepsWrites, [Next]_vars
  PROVE  RowKeepsWrites'
<1>0. CASE UNCHANGED <<row, last>>
  BY <1>0 DEF RowKeepsWrites
<1>1. ASSUME NEW t \in Task, Holds(t), Writes(t) PROVE RowKeepsWrites'
  <2>1. PICK new \in Row, set \in SUBSET Field, then \in TaskRow :
          /\ "assignment" \notin set => new.assignment = task[t].copy.assignment
          /\ "status" \notin set => new.status = task[t].copy.status
          /\ UpdateInstance(t, new, set, then)
    BY <1>1 DEF Writes
  <2>2. /\ row.there /\ row' = new
        /\ last'.assignment = IF "assignment" \in set \cup task[t].late THEN new.assignment ELSE last.assignment
        /\ last'.status = IF "status" \in set \cup task[t].late THEN new.status ELSE last.status
    BY <2>1, Updating
  <2>3. row'.assignment = last'.assignment
    <3>1. CASE "assignment" \in set \cup task[t].late
      BY <2>2, <3>1
    <3>2. CASE "assignment" \notin set \cup task[t].late
      BY <1>1, <2>1, <2>2, <3>2 DEF InCopies
    <3>. QED
      BY <3>1, <3>2
  <2>4. row'.status = last'.status
    <3>1. CASE "status" \in set \cup task[t].late
      BY <2>2, <3>1
    <3>2. CASE "status" \notin set \cup task[t].late
      BY <1>1, <2>1, <2>2, <3>2 DEF InCopies
    <3>. QED
      BY <3>1, <3>2
  <2>. QED
    BY <2>3, <2>4 DEF RowKeepsWrites
<1>2. ASSUME NEW t \in Task, Creates(t) PROVE RowKeepsWrites'
  BY <1>2, Creating DEF Creates, RowKeepsWrites
<1>3. ASSUME NEW tasks \in [Task -> TaskRow], Settles(tasks) PROVE RowKeepsWrites'
  <2>1. ASSUME NEW s \in Status, UpdateInstanceStatus(s, tasks) PROVE RowKeepsWrites'
    <3>1. /\ row'.assignment = row.assignment /\ last'.assignment = last.assignment
          /\ (row'.status = s /\ last'.status = s) \/ UNCHANGED <<row, last>>
      BY <1>3, <2>1, StatusWriting DEF Settles, Passed
    <3>. QED
      BY <3>1 DEF RowKeepsWrites
  <2>. QED
    BY <1>0, <1>3, <2>1 DEF Settles
<1>4. CASE DeleteInstance
  BY <1>4, Deleting DEF RowKeepsWrites
<1>. QED
  BY <1>0, <1>1, <1>2, <1>3, <1>4, StepsBy DEF Steps

LEMMA InCopiesStep ==
  ASSUME Tasks, Table, Dispatched, Applying, InCopies, RowKeepsWrites, [Next]_vars
  PROVE  InCopies'
<1>. DEFINE Keeps(t) == /\ "assignment" \notin task'[t].late => task'[t].copy.assignment = last'.assignment
                        /\ "status" \notin task'[t].late => task'[t].copy.status = last'.status
<1>. SUFFICES ASSUME row'.there, NEW t \in Task, Holds(t)' PROVE Keeps(t)
  BY DEF InCopies
<1>0. "assignment" \in Field /\ "status" \in Field /\ task'[t].pc \in WritePc
  BY DEF Field, Holds
<1>1. ASSUME NEW q \in Task, Steps(q) PROVE Keeps(t)
  <2>0. CASE t = q
    <3>1. UNCHANGED <<row, last>> /\ task'[t].copy = row
      BY <1>0, <1>1, <2>0 DEF Steps, Holds
    <3>. QED
      BY <3>1 DEF RowKeepsWrites
  <2>1. CASE t # q
    <3>1. Holds(t) /\ task'[t].copy = task[t].copy /\ task[t].late \subseteq task'[t].late
      BY <1>0, <1>1, <2>1 DEF Steps, Moves, Same, Holds
    <3>2. CASE UNCHANGED <<row, last>>
      BY <1>0, <3>1, <3>2 DEF InCopies
    <3>3. CASE Writes(q)
      <4>1. PICK new \in Row, set \in SUBSET Field, then \in TaskRow : UpdateInstance(q, new, set, then)
        BY <3>3 DEF Writes
      <4>2. /\ row.there
            /\ last'.assignment = IF "assignment" \in set \cup task[q].late THEN new.assignment ELSE last.assignment
            /\ last'.status = IF "status" \in set \cup task[q].late THEN new.status ELSE last.status
            /\ \A u \in Task \ {q} : Holds(u) => set \cup task[q].late \subseteq task'[u].late
        BY <4>1, Updating
      <4>. QED
        BY <2>1, <3>1, <4>2 DEF InCopies
    <3>4. CASE Creates(q)
      <4>1. Field \subseteq task'[t].late
        BY <2>1, <3>1, <3>4, Creating DEF Creates
      <4>. QED
        BY <1>0, <4>1
    <3>. QED
      BY <1>1, <3>2, <3>3, <3>4 DEF Steps
  <2>. QED
    BY <2>0, <2>1
<1>2. ASSUME NEW tasks \in [Task -> TaskRow], Settles(tasks) PROVE Keeps(t)
  <2>1. /\ tasks[t].pc \in WritePc /\ task'[t].copy = tasks[t].copy /\ tasks[t].late \subseteq task'[t].late
    BY <1>0, <1>2, Settling DEF Same
  <2>2. PICK u \in Task : Holds(u) /\ tasks[t].copy = task[u].copy /\ task[u].late \subseteq tasks[t].late
    BY <1>2, <2>1 DEF Settles, Passed, From
  <2>3. CASE UNCHANGED <<row, last>>
    BY <1>0, <2>1, <2>2, <2>3 DEF InCopies
  <2>4. ASSUME NEW s \in Status, UpdateInstanceStatus(s, tasks) PROVE Keeps(t)
    <3>1. /\ row.there /\ last'.assignment = last.assignment /\ "status" \in task'[t].late
      BY <1>2, <2>1, <2>4, StatusWriting DEF Settles, Passed
    <3>. QED
      BY <1>0, <2>1, <2>2, <3>1 DEF InCopies
  <2>. QED
    BY <1>2, <2>3, <2>4 DEF Settles
<1>3. ~DeleteInstance
  BY Deleting
<1>. QED
  BY <1>1, <1>2, <1>3, StepsBy

-----------------------------------------------------------------------------
\* The agent, what it was announced and what it applies.

LEMMA AskOf ==
  ASSUME Asked, NEW new \in Row, NoteMove(new)
  PROVE  /\ ask' \in AskRow
         /\ ask'.c = ask.c /\ ask'.v = ask.v /\ ask'.left = ask.left
         /\ ask.moved => ask'.moved
         /\ ask'.moved <=> ask.moved \/ (agent.pc \in {"wait", "fetch", "apply"}
                                         /\ new.assignment[1] # row.assignment[1])
         /\ agent.pc \notin {"wait", "fetch", "apply"} => ask' = ask
<1>. DEFINE m == \/ ask.moved
                 \/ /\ agent.pc \in {"wait", "fetch", "apply"}
                    /\ new.assignment[1] # row.assignment[1]
<1>1. ask' = [ask EXCEPT !.moved = m] /\ m \in BOOLEAN /\ ask \in AskRow
  BY DEF NoteMove, Asked, AskRow
<1>2. ask' \in AskRow /\ ask'.moved = m
      /\ ask'.c = ask.c /\ ask'.v = ask.v /\ ask'.left = ask.left
  BY <1>1 DEF AskRow
<1>3. agent.pc \notin {"wait", "fetch", "apply"} => ask' = ask
  BY <1>1 DEF AskRow
<1>. QED
  BY <1>2, <1>3

LEMMA AgentOf ==
  ASSUME Asked
  PROVE  /\ agent \in AgentRow /\ agent.pc \in {"out", "register", "report", "loop", "wait", "fetch", "apply"}
         /\ agent.claim \in Assignment /\ agent.said \in Assignment
         /\ ask \in AskRow /\ ask.left \in 0..2 /\ ask.v \in 0..MaxVersion
  BY DEF Asked, AgentRow, AskRow

LEMMA NotAsked ==
  /\ NoAsk \in AskRow /\ ~(NoAsk.left > 0) /\ NoAsk.moved = FALSE
  BY Typing DEF NoAsk

LEMMA JobOf ==
  ASSUME Applying, NEW g \in Goroutine
  PROVE  /\ job[g] \in JobRow /\ job[g].v \in Assignment /\ job[g].alone \in BOOLEAN
         /\ job \in [Goroutine -> JobRow] /\ disk \in DiskRow /\ disk.file \in Assignment
         /\ disk.saved \in Assignment /\ disk.active \in BOOLEAN
  BY DEF Applying, JobRow, DiskRow

LEMMA Goroutines ==
  /\ "main" \in Goroutine /\ "events" \in Goroutine /\ "main" # "events"
  /\ \A g \in Goroutine : g = "main" \/ g = "events"
  BY DEF Goroutine

LEMMA Refusing ==
  ASSUME Asked, Refused
  PROVE  agent' \in AgentRow /\ ask' = NoAsk /\ agent'.pc = IF agent.pc = "wait" THEN "loop" ELSE "out"
<1>1. agent' = [agent EXCEPT !.pc = IF agent.pc = "wait" THEN "loop" ELSE "out", !.said = Nothing] /\ ask' = NoAsk
  BY DEF Refused
<1>2. agent' \in AgentRow /\ agent'.pc = IF agent.pc = "wait" THEN "loop" ELSE "out"
  BY <1>1, Typing, AgentOf DEF AgentRow
<1>. QED
  BY <1>1, <1>2

LEMMA Announcing ==
  ASSUME Tasks, Rest, Announced(Call) # Nothing
  PROVE  /\ Announced(Call) = <<task[Call].copy.assignment[1], latest[task[Call].copy.assignment[1]]>>
         /\ task[Call].copy.assignment[1] \in Config
         /\ Announced(Call) \in Config \X Version /\ Announced(Call) \in Assignment
         /\ Announced(Call)[1] \in Config /\ Announced(Call)[2] \in Version
<1>1. task[Call].copy \in Row
  BY Typing, TaskOf
<1>2. task[Call].copy.assignment \in Assignment
  BY <1>1 DEF Row
<1>3. task[Call].copy.assignment[1] \in Config \cup {NoConfig}
  BY <1>2 DEF Assignment, Nothing
<1>. QED
  BY <1>3 DEF Announced, Rest, Assignment

LEMMA Fetching ==
  ASSUME Table, Rest, GetConfig # Nothing, ask.v \in Version
  PROVE  GetConfig = <<row.assignment[1], ask.v>> /\ GetConfig \in Assignment
<1>1. row.assignment \in Assignment
  BY DEF Table, Row
<1>2. row.assignment[1] \in Config \cup {NoConfig}
  BY <1>1 DEF Assignment, Nothing
<1>. QED
  BY <1>2 DEF GetConfig, VersionAsked, Assignment

LEMMA Starting ==
  ASSUME Applying, NEW g \in Goroutine, NEW v \in Assignment, StartsApplying(g, v)
  PROVE  /\ job' \in [Goroutine -> JobRow] /\ astray' \subseteq {"adopt", "overlap", "cut"}
         /\ job'[g].pc = "write" /\ job'[g].v = v
         /\ \A h \in Goroutine \ {g} : job'[h].pc = job[h].pc /\ job'[h].v = job[h].v
<1>. DEFINE beside == \E h \in Goroutine \ {g} : job[h].pc # "idle"
<1>1. /\ job' = [h \in Goroutine |-> IF h = g THEN [pc |-> "write", v |-> v, alone |-> ~beside]
                                    ELSE [job[h] EXCEPT !.alone = ~beside]]
      /\ astray' = IF beside THEN astray \cup {"overlap"} ELSE astray
  BY DEF StartsApplying
<1>0. (~beside) \in BOOLEAN
  OBVIOUS
<1>. HIDE DEF beside
<1>2. job \in [Goroutine -> JobRow] /\ astray \subseteq {"adopt", "overlap", "cut"}
  BY DEF Applying
<1>3. [pc |-> "write", v |-> v, alone |-> ~beside] \in JobRow
  BY <1>0 DEF JobRow
<1>4. ASSUME NEW h \in Goroutine \ {g}
      PROVE  job'[h] \in JobRow /\ job'[h].pc = job[h].pc /\ job'[h].v = job[h].v
  BY <1>0, <1>1, <1>2 DEF JobRow
<1>. QED
  BY <1>1, <1>2, <1>3, <1>4

\* The agent ends a fetch.
LEMMA FetchEnding ==
  ASSUME Asked, agent.pc \in {"fetch", "apply"}, FetchEnds
  PROVE  /\ Asked'
         /\ \/ ask' = NoAsk /\ agent'.pc = "loop"
            \/ agent'.pc = "fetch" /\ ask'.c = ask.c /\ ask'.moved = ask.moved
<1>1. CASE ask.left > 1
  <2>1. ask' = [ask EXCEPT !.left = ask.left - 1] /\ agent' = [agent EXCEPT !.pc = "fetch"]
    BY <1>1 DEF FetchEnds, NextFetch
  <2>2. ask.left - 1 \in 0..2 /\ ask.left - 1 > 0
    BY <1>1, AgentOf
  <2>3. /\ ask' \in AskRow /\ ask'.left > 0 /\ ask'.c = ask.c /\ ask'.v = ask.v /\ ask'.moved = ask.moved
    BY <2>1, <2>2, AgentOf DEF AskRow
  <2>4. agent' \in AgentRow /\ agent'.pc = "fetch"
    BY <2>1, AgentOf DEF AgentRow
  <2>. QED
    BY <1>1, <2>3, <2>4 DEF Asked
<1>2. CASE ~(ask.left > 1)
  <2>1. ask' = NoAsk /\ agent' = [agent EXCEPT !.pc = "loop"]
    BY <1>2 DEF FetchEnds, NextFetch
  <2>2. agent' \in AgentRow /\ agent'.pc = "loop"
    BY <2>1, AgentOf DEF AgentRow
  <2>. QED
    BY <2>1, <2>2, NotAsked DEF Asked
<1>. QED
  BY <1>1, <1>2

Agency == Asked /\ Linked /\ Following /\ FetchedIsAnnounced

\* Steps the agent and its call take no part in.
CallKept ==
  \/ task'[Call].pc = "idle"
  \/ task'[Call].pc = task[Call].pc /\ task'[Call].copy = task[Call].copy
JobKept == agent.pc = "apply" => job'["main"].v = job["main"].v

LEMMA Bystanding ==
  ASSUME Agency, agent' \in AgentRow, agent'.pc = agent.pc, ask' = ask,
         row'.assignment = row.assignment, CallKept, JobKept
  PROVE  Agency'
<1>1. "idle" \notin RegisterPc /\ "idle" \notin BeatPc
  BY DEF RegisterPc, BeatPc
<1>. QED
  BY <1>1 DEF Agency, Asked, Linked, Following, FetchedIsAnnounced, CallKept, JobKept

\* Writes of the row.
LEMMA MovingRow ==
  ASSUME Agency, agent' = agent, NEW new \in Row, NoteMove(new), row' = new, job' = job,
         \/ CallKept
         \/ task[Call].pc \in RegisterPc /\ task'[Call].pc \in RegisterPc
         \/ /\ task[Call].pc = "beat write" /\ task'[Call].pc = "beat answer"
            /\ task'[Call].copy.assignment = task[Call].copy.assignment
  PROVE  Agency'
<1>. Asked /\ Linked /\ Following /\ FetchedIsAnnounced
  BY DEF Agency
<1>1. Asked'
  BY AskOf DEF Asked
<1>2. Linked'
  BY DEF Linked, CallKept, RegisterPc, BeatPc
<1>3. FetchedIsAnnounced'
  BY AskOf DEF FetchedIsAnnounced
<1>4. ASSUME ~ask'.moved, task'[Call].pc \in {"beat write", "beat answer"}
      PROVE  task'[Call].copy.assignment[1] = row'.assignment[1]
  <2>1. /\ task[Call].pc \in {"beat write", "beat answer"}
        /\ task'[Call].copy.assignment = task[Call].copy.assignment
    BY <1>4 DEF CallKept, RegisterPc
  <2>2. agent.pc = "wait" /\ ~ask.moved /\ new.assignment[1] = row.assignment[1]
    BY <1>4, <2>1, AskOf DEF Linked, BeatPc
  <2>. QED
    BY <2>1, <2>2 DEF Following
<1>5. ASSUME ~ask'.moved, agent'.pc \in {"fetch", "apply"} PROVE ask'.c = row'.assignment[1]
  BY <1>5, AskOf DEF Following
<1>. QED
  BY <1>1, <1>2, <1>3, <1>4, <1>5 DEF Agency, Following

\* The agent is back in its loop or out.
LEMMA GoingOut ==
  ASSUME agent' \in AgentRow, agent'.pc \in {"out", "loop", "report"}, ask' = NoAsk,
         task'[Call].pc \notin RegisterPc \cup BeatPc \cup {"edit write"}
  PROVE  Agency'
<1>0. ask' \in AskRow /\ ~(ask'.left > 0) /\ agent'.pc \notin {"fetch", "apply"}
  BY NotAsked
<1>1. Asked'
  BY <1>0 DEF Asked
<1>. QED
  BY <1>0, <1>1 DEF Agency, Linked, Following, FetchedIsAnnounced, BeatPc

LEMMA Answering ==
  ASSUME Agency, Tasks, NEW t \in Handler, Finish(t), Answered(t), row' = row, job' = job
  PROVE  Agency'
<1>0. Asked
  BY DEF Agency
<1>1. CASE t = Call
  <2>1. agent' \in AgentRow /\ ask' = NoAsk /\ agent'.pc \in {"out", "loop"}
    BY <1>0, <1>1, Refusing DEF Answered
  <2>2. task'[Call].pc \notin RegisterPc \cup BeatPc \cup {"edit write"}
    BY <1>1, Finishing DEF RegisterPc, BeatPc
  <2>. QED
    BY <2>1, <2>2, GoingOut
<1>2. CASE t # Call
  <2>1. CallKept
    BY <1>2, Finishing, Typing DEF CallKept, Moves, Same
  <2>. QED
    BY <1>0, <1>2, <2>1, Bystanding, AgentOf DEF Answered, JobKept
<1>. QED
  BY <1>1, <1>2

LEMMA HandlersKeep ==
  ASSUME Agency, Tasks, Table, NEW t \in Handler,
         RegisterReads(t) \/ RegisterWrites(t) \/ HeartbeatReads(t) \/ HeartbeatWrites(t)
  PROVE  Agency'
<1>. t \in Task /\ t \notin Deployment /\ Asked /\ Linked
  BY Typing DEF Agency
<1>0. job' = job /\ JobKept
  BY DEF RegisterReads, RegisterWrites, HeartbeatReads, HeartbeatWrites, local, JobKept
<1>1. CASE RegisterReads(t)
  <2>1. /\ Moves(t) /\ task'[t].pc = "register write" /\ task[t].pc = "register read"
        /\ agent' = agent /\ ask' = ask /\ row' = row
    BY <1>1, HandlerPcs, Reading DEF RegisterReads, At, RegisterPc
  <2>2. CASE t = Call
    BY <1>0, <2>1, <2>2 DEF Agency, Asked, Linked, Following, FetchedIsAnnounced, RegisterPc, BeatPc
  <2>3. CASE t # Call
    BY <1>0, <2>1, <2>3, Bystanding, AgentOf, Typing DEF Moves, Same, CallKept
  <2>. QED
    BY <2>2, <2>3
<1>2. CASE RegisterWrites(t)
  <2>1. CASE Finish(t) /\ Answered(t) /\ row' = row
    BY <1>0, <2>1, Answering
  <2>2. CASE /\ task'[t].pc = "idle" \/ (t = Call /\ task'[t].pc = "register reread")
             /\ agent' = agent /\ \E new \in Row : row' = new /\ NoteMove(new)
    <3>1. Moves(t) /\ task[t].pc = "register write"
      BY <1>2, RegisterWriting DEF RegisterWrites, At, Steps
    <3>2. \/ CallKept
          \/ task[Call].pc \in RegisterPc /\ task'[Call].pc \in RegisterPc
      BY <2>2, <3>1, Typing DEF Moves, Same, CallKept, RegisterPc
    <3>. QED
      BY <1>0, <2>2, <3>2, MovingRow
  <2>. QED
    BY <1>2, <2>1, <2>2, RegisterWriting
<1>3. CASE HeartbeatReads(t)
  <2>1. CASE Finish(t) /\ Answered(t) /\ row' = row
    BY <1>0, <2>1, Answering
  <2>2. CASE /\ ReadRow(t, "beat write", task[t].status)
             /\ ask' = [ask EXCEPT !.moved = IF t = Call THEN FALSE ELSE @]
             /\ UNCHANGED <<agent, row>>
    <3>1. Moves(t) /\ task'[t].pc = "beat write" /\ task'[t].copy = row /\ task[t].pc = "beat read"
      BY <1>3, <2>2, HandlerPcs, Reading, TaskOf DEF HeartbeatReads, At, BeatPc
    <3>2. CASE t = Call
      <4>1. agent.pc = "wait"
        BY <3>1, <3>2 DEF Linked, BeatPc
      <4>2. ask' \in AskRow /\ ask'.left = ask.left /\ ask'.c = ask.c /\ ask'.v = ask.v
        BY <2>2, <3>2, AgentOf DEF AskRow
      <4>3. Asked'
        BY <2>2, <4>1, <4>2 DEF Asked
      <4>. QED
        BY <2>2, <3>1, <3>2, <4>1, <4>3 DEF Agency, Linked, Following, FetchedIsAnnounced, RegisterPc
    <3>3. CASE t # Call
      <4>1. ask' = ask
        BY <2>2, <3>3, AgentOf DEF AskRow
      <4>. QED
        BY <1>0, <2>2, <3>1, <3>3, <4>1, Bystanding, AgentOf, Typing DEF Moves, Same, CallKept
    <3>. QED
      BY <3>2, <3>3
  <2>. QED
    BY <1>3, <2>1, <2>2 DEF HeartbeatReads
<1>4. CASE HeartbeatWrites(t)
  <2>1. CASE Finish(t) /\ Answered(t) /\ row' = row
    BY <1>0, <2>1, Answering
  <2>2. CASE /\ \/ task'[t].pc = "idle"
                \/ /\ t = Call /\ task'[t].pc = "beat answer"
                   /\ task'[t].copy.assignment = task[t].copy.assignment
             /\ agent' = agent /\ \E new \in Row : row' = new /\ NoteMove(new)
    <3>1. Moves(t) /\ task[t].pc = "beat write"
      BY <1>4, HeartbeatWriting DEF HeartbeatWrites, At, Steps
    <3>2. \/ CallKept
          \/ /\ task[Call].pc = "beat write" /\ task'[Call].pc = "beat answer"
             /\ task'[Call].copy.assignment = task[Call].copy.assignment
      BY <2>2, <3>1, Typing DEF Moves, Same, CallKept
    <3>. QED
      BY <1>0, <2>2, <3>2, MovingRow
  <2>. QED
    BY <1>4, <2>1, <2>2, HeartbeatWriting
<1>. QED
  BY <1>1, <1>2, <1>3, <1>4

LEMMA CallsKeep ==
  ASSUME Agency, Tasks, Table, Rest,
         SendRegister \/ RegisterRereads \/ RegisterAnswers \/ SendHeartbeat \/ HeartbeatAnswers
  PROVE  Agency'
<1>. Asked /\ Linked /\ Following /\ FetchedIsAnnounced /\ Call \in Task /\ Call \in Handler /\ Call \notin Deployment
  BY Typing DEF Agency
<1>1. CASE SendRegister
  <2>1. agent' = [agent EXCEPT !.pc = "register"] /\ agent.pc = "out" /\ ask' = ask /\ task'[Call].pc = "register read"
    BY <1>1, HandlerPcs, Going DEF SendRegister, RegisterPc
  <2>2. agent' \in AgentRow /\ agent'.pc = "register"
    BY <2>1, AgentOf DEF AgentRow
  <2>. QED
    BY <2>1, <2>2 DEF Agency, Asked, Linked, Following, FetchedIsAnnounced, BeatPc
<1>2. CASE RegisterRereads
  <2>1. task'[Call].pc = "register answer" /\ task[Call].pc = "register reread" /\ UNCHANGED <<agent, ask, row>>
    BY <1>2, HandlerPcs, Reading DEF RegisterRereads, At, RegisterPc
  <2>. QED
    BY <2>1 DEF Agency, Asked, Linked, Following, FetchedIsAnnounced, RegisterPc, BeatPc
<1>3. CASE RegisterAnswers
  <2>1. task'[Call].pc = "idle" /\ agent.pc = "register" /\ ask' = ask
    BY <1>3, Finishing DEF RegisterAnswers, At, Linked, RegisterPc
  <2>2. PICK pc \in {"loop", "report"}, new \in Assignment : agent' = [agent EXCEPT !.pc = pc, !.claim = new]
    <3>. DEFINE new == Announced(Call)
                pc == IF disk.active THEN "report" ELSE "loop"
    <3>1. CASE new = Nothing \/ new = agent.claim
      <4>1. agent' = [agent EXCEPT !.pc = pc, !.claim = agent.claim]
        BY <1>3, <3>1 DEF RegisterAnswers
      <4>. QED
        BY <4>1, AgentOf
    <3>2. CASE ~(new = Nothing \/ new = agent.claim)
      <4>1. agent' = [agent EXCEPT !.pc = pc, !.claim = new]
        BY <1>3, <3>2 DEF RegisterAnswers
      <4>2. new \in Assignment
        BY <3>2, Announcing
      <4>. QED
        BY <4>1, <4>2
    <3>. QED
      BY <3>1, <3>2
  <2>3. agent' \in AgentRow /\ agent'.pc \in {"loop", "report"}
    BY <2>2, AgentOf DEF AgentRow
  <2>. QED
    BY <2>1, <2>3, GoingOut DEF Asked, RegisterPc, BeatPc
<1>4. CASE SendHeartbeat
  <2>1. agent' = [agent EXCEPT !.pc = "wait", !.said = agent.claim] /\ ask' = NoAsk /\ task'[Call].pc = "beat read"
    BY <1>4, Sending DEF SendHeartbeat
  <2>2. agent' \in AgentRow /\ agent'.pc = "wait"
    BY <2>1, AgentOf DEF AgentRow
  <2>3. Asked'
    <3>1. ask' = NoAsk
      BY <2>1
    <3>. QED
      BY <2>2, <3>1, NotAsked DEF Asked
  <2>4. Linked' /\ Following' /\ FetchedIsAnnounced'
    BY <2>1, <2>2 DEF Linked, Following, FetchedIsAnnounced, RegisterPc
  <2>. QED
    BY <2>3, <2>4 DEF Agency
<1>5. CASE HeartbeatAnswers
  <2>1. task'[Call].pc = "idle" /\ task[Call].pc = "beat answer" /\ agent.pc = "wait" /\ row' = row
    BY <1>5, Finishing DEF HeartbeatAnswers, At, Linked, BeatPc
  <2>2. CASE Refused
    BY <2>1, <2>2, Refusing, GoingOut DEF RegisterPc, BeatPc
  <2>3. CASE /\ Announced(Call) # Nothing
             /\ agent' = [agent EXCEPT !.pc = "fetch", !.said = Nothing]
             /\ ask' = [ask EXCEPT !.c = Announced(Call)[1], !.v = Announced(Call)[2], !.left = 2]
    <3>1. agent' \in AgentRow /\ agent'.pc = "fetch"
      BY <2>3, Typing, AgentOf DEF AgentRow
    <3>2. Announced(Call)[1] \in Config /\ Announced(Call)[2] \in Version
          /\ Announced(Call)[1] = task[Call].copy.assignment[1]
      BY <2>3, Announcing
    <3>3. Announced(Call)[2] \in 0..MaxVersion
      BY <3>2, BoundAssumption DEF Version
    <3>4. /\ ask' \in AskRow /\ ask'.left = 2 /\ ask'.moved = ask.moved
          /\ ask'.c = Announced(Call)[1] /\ ask'.v = Announced(Call)[2]
      <4>. DEFINE c == Announced(Call)[1]
                  v == Announced(Call)[2]
      <4>1. c \in Config /\ v \in 0..MaxVersion
        BY <3>2, <3>3
      <4>2. ask' = [ask EXCEPT !.c = c, !.v = v, !.left = 2]
        BY <2>3
      <4>3. ask \in AskRow /\ 2 \in 0..2
        BY AgentOf
      <4>. HIDE DEF c, v
      <4>4. ask' \in AskRow /\ ask'.left = 2 /\ ask'.moved = ask.moved /\ ask'.c = c /\ ask'.v = v
        BY <4>1, <4>2, <4>3 DEF AskRow
      <4>. QED
        BY <4>4 DEF c, v
    <3>5. Asked'
      BY <3>1, <3>2, <3>4 DEF Asked
    <3>. QED
      BY <2>1, <3>1, <3>2, <3>4, <3>5 DEF Agency, Linked, Following, FetchedIsAnnounced, RegisterPc, BeatPc
  <2>. QED
    BY <1>5, <2>2, <2>3 DEF HeartbeatAnswers
<1>. QED
  BY <1>1, <1>2, <1>3, <1>4, <1>5

\* Fetches and their applications, in either goroutine.
LEMMA ApplicationsKeep ==
  ASSUME Agency, Tasks, Table, Rest, Dispatched, Applying,
         \/ FetchConfig \/ FetchConfigFails \/ OnDeployment \/ DeploymentApplied
         \/ \E g \in Goroutine : OnConfigUpdate(g)
  PROVE  Agency'
<1>. Asked /\ Linked /\ Following /\ FetchedIsAnnounced /\ agent \in AgentRow /\ Goroutine = {"main", "events"}
  BY AgentOf DEF Agency, Goroutine
<1>0. task' = task /\ row' = row /\ CallKept
  BY DEF FetchConfig, FetchConfigFails, OnDeployment, DeploymentApplied, OnConfigUpdate, WriteConfig,
         WriteConfigFails, UpdateConfigState, SetConfigState, CallKept
<1>1. CASE FetchConfig
  <2>1. /\ agent.pc = "fetch" /\ agent' = [agent EXCEPT !.pc = "apply"] /\ ask' = ask
        /\ GetConfig # Nothing /\ StartsApplying("main", GetConfig)
    BY <1>1 DEF FetchConfig
  <2>2. agent' \in AgentRow /\ agent'.pc = "apply"
    BY <2>1 DEF AgentRow
  <2>3. GetConfig = <<row.assignment[1], ask.v>> /\ GetConfig \in Assignment
    BY <2>1, Fetching DEF Asked
  <2>4. job'["main"].v = GetConfig
    BY <2>1, <2>3, Starting, Goroutines
  <2>5. Asked'
    BY <2>1, <2>2 DEF Asked
  <2>. QED
    BY <1>0, <2>1, <2>2, <2>3, <2>4, <2>5 DEF Agency, Linked, Following, FetchedIsAnnounced, RegisterPc, BeatPc
<1>2. CASE agent.pc \in {"fetch", "apply"} /\ FetchEnds
  <2>1. /\ Asked'
        /\ \/ ask' = NoAsk /\ agent'.pc = "loop"
           \/ agent'.pc = "fetch" /\ ask'.c = ask.c /\ ask'.moved = ask.moved
    BY <1>2, FetchEnding
  <2>2. task[Call].pc \notin RegisterPc \cup BeatPc
    BY <1>2 DEF Linked
  <2>. QED
    BY <1>0, <1>2, <2>1, <2>2 DEF Agency, Linked, Following, FetchedIsAnnounced, BeatPc
<1>3. CASE FetchConfigFails
  BY <1>2, <1>3 DEF FetchConfigFails
<1>4. CASE OnDeployment
  <2>1. events # <<>>
    BY <1>4 DEF OnDeployment, Applying
  <2>2. <<dep[Head(events).d].c, Head(events).v>> \in Assignment
    BY <2>1, Arriving DEF Dispatched, Assignment
  <2>3. JobKept
    BY <1>4, <2>2, Starting, Goroutines DEF OnDeployment, JobKept
  <2>. QED
    BY <1>0, <1>4, <2>3, Bystanding DEF OnDeployment
<1>5. CASE DeploymentApplied
  <2>1. JobKept /\ UNCHANGED <<agent, ask>>
    BY <1>5, JobOf, Goroutines DEF DeploymentApplied, EndsApplying, JobKept
  <2>. QED
    BY <1>0, <2>1, Bystanding
<1>6. ASSUME NEW g \in Goroutine, WriteConfig(g) PROVE Agency'
  <2>1. JobKept /\ UNCHANGED <<agent, ask>>
    BY <1>6, JobOf, Goroutines DEF WriteConfig, JobKept, JobRow
  <2>. QED
    BY <1>0, <2>1, Bystanding
<1>7. ASSUME NEW g \in Goroutine, UpdateConfigState(g) PROVE Agency'
  <2>1. JobKept /\ UNCHANGED ask
    BY <1>7, JobOf, Goroutines DEF UpdateConfigState, JobKept, JobRow
  <2>2. agent' \in AgentRow /\ agent'.pc = agent.pc
    BY <1>7, JobOf DEF UpdateConfigState, AgentRow
  <2>. QED
    BY <1>0, <2>1, <2>2, Bystanding
<1>8. ASSUME NEW g \in Goroutine, WriteConfigFails(g) \/ SetConfigState(g) PROVE Agency'
  <2>1. CASE g = "main"
    <3>1. agent.pc = "apply" /\ FetchEnds
      BY <1>8, <2>1 DEF WriteConfigFails, SetConfigState, Applying
    <3>. QED
      BY <1>2, <3>1
  <2>2. CASE g = "events"
    <3>1. JobKept /\ UNCHANGED <<agent, ask>>
      BY <1>8, <2>2, JobOf, Goroutines DEF WriteConfigFails, SetConfigState, JobKept, JobRow
    <3>. QED
      BY <1>0, <3>1, Bystanding
  <2>. QED
    BY <2>1, <2>2
<1>. QED
  BY <1>1, <1>3, <1>4, <1>5, <1>6, <1>7, <1>8 DEF OnConfigUpdate

LEMMA OthersKeep ==
  ASSUME Agency, Tasks, Table, Dispatched, Applying,
         \/ ReportInterrupted \/ BeginDeployment \/ EndDeployment
         \/ CallFails \/ Leave \/ Exit
         \/ EditReads \/ EditWrites \/ DeleteInstance
         \/ \E c \in Config : Publish(c)
         \/ \E t \in Task : Drop(t)
         \/ \E d \in Deployment :
              \/ \E c \in Config, v \in Version : DeployToInstance(d, c, v)
              \/ GiveUp(d) \/ RecordReads(d) \/ RecordWrites(d) \/ Rollback(d)
         \/ UNCHANGED vars
  PROVE  Agency'
<1>. Asked /\ Linked /\ Call \in Task /\ Call \in Handler /\ Other \in Task /\ Other \in Handler /\ Call # Other
     /\ agent \in AgentRow /\ \A d \in Deployment : d \in Task /\ d # Call /\ d \notin Handler
  BY Typing, AgentOf DEF Agency
<1>0. ASSUME NEW t \in Task, t # Call, Steps(t) PROVE CallKept
  BY <1>0 DEF Steps, Moves, Same, CallKept
<1>1. ASSUME Leave \/ ReportInterrupted \/ BeginDeployment \/ EndDeployment
      PROVE  CallKept /\ row'.assignment = row.assignment
  <2>1. PICK tasks \in [Task -> TaskRow] : Settles(tasks)
    BY <1>1, StatusSteps
  <2>2. row'.assignment = row.assignment
    <3>1. ASSUME NEW s \in Status, UpdateInstanceStatus(s, tasks) PROVE row'.assignment = row.assignment
      BY <2>1, <3>1, StatusWriting DEF Settles, Passed
    <3>. QED
      BY <2>1, <3>1 DEF Settles
  <2>3. Same(tasks, task', Call)
    BY <2>1, Settling
  <2>. QED
    BY <2>1, <2>2, <2>3 DEF Settles, Passed, CallKept, Same
<1>2. CASE CallFails
  <2>1. Refused /\ task'[Call].pc = "idle"
    BY <1>2, AbandonSteps DEF CallFails
  <2>. QED
    BY <2>1, Refusing, GoingOut DEF RegisterPc, BeatPc
<1>3. CASE Exit
  <2>1. task'[Call].pc = "idle" /\ ask' = NoAsk
        /\ agent' = [pc |-> "out", claim |-> disk.saved, said |-> Nothing]
    BY <1>3, AbandonSteps DEF Exit
  <2>2. agent' \in AgentRow /\ agent'.pc = "out"
    BY <2>1, Typing, JobOf, Goroutines DEF AgentRow
  <2>. QED
    BY <2>1, <2>2, GoingOut DEF RegisterPc, BeatPc
<1>4. CASE Leave
  <2>1. agent.pc = "loop" /\ agent' = [agent EXCEPT !.pc = "out"] /\ ask' = ask
    BY <1>4 DEF Leave
  <2>2. agent' \in AgentRow /\ agent'.pc = "out" /\ ask' = NoAsk
    BY <2>1 DEF AgentRow, Asked
  <2>3. task[Call].pc \notin RegisterPc \cup BeatPc \cup {"edit write"}
    BY <2>1 DEF Linked
  <2>4. task'[Call].pc \notin RegisterPc \cup BeatPc \cup {"edit write"}
    BY <1>1, <1>4, <2>3 DEF CallKept, RegisterPc, BeatPc
  <2>. QED
    BY <2>2, <2>4, GoingOut
<1>5. CASE ReportInterrupted
  <2>1. agent.pc = "report" /\ agent' = [agent EXCEPT !.pc = "loop"] /\ ask' = ask
    BY <1>5 DEF ReportInterrupted
  <2>2. agent' \in AgentRow /\ agent'.pc = "loop" /\ ask' = NoAsk
    BY <2>1 DEF AgentRow, Asked
  <2>3. task[Call].pc \notin RegisterPc \cup BeatPc \cup {"edit write"}
    BY <2>1 DEF Linked
  <2>4. task'[Call].pc \notin RegisterPc \cup BeatPc \cup {"edit write"}
    BY <1>1, <1>5, <2>3 DEF CallKept, RegisterPc, BeatPc
  <2>. QED
    BY <2>2, <2>4, GoingOut
<1>6. CASE BeginDeployment \/ EndDeployment
  BY <1>1, <1>6, Bystanding DEF BeginDeployment, EndDeployment, JobKept
<1>7. CASE EditReads
  <2>1. CallKept
    BY <1>0, <1>7, OtherSteps
  <2>. QED
    BY <1>7, <2>1, Bystanding DEF EditReads, JobKept, local
<1>8. CASE EditWrites
  <2>1. CallKept /\ \E new \in Row : row' = new /\ NoteMove(new)
    BY <1>0, <1>8, EditWriting
  <2>. QED
    BY <1>8, <2>1, MovingRow DEF EditWrites, local
<1>9. CASE DeleteInstance
  BY <1>9, Typing, MovingRow DEF DeleteInstance, CallKept, local
<1>10. ASSUME NEW t \in Task, Drop(t) PROVE Agency'
  <2>1. CallKept
    BY <1>0, <1>10, OtherSteps
  <2>. QED
    BY <1>10, <2>1, Bystanding DEF Drop, JobKept, local
<1>11. ASSUME NEW d \in Deployment, RecordWrites(d) PROVE Agency'
  <2>1. CallKept /\ \E new \in Row : row' = new /\ NoteMove(new)
    BY <1>0, <1>11, RecordWriting
  <2>. QED
    BY <1>11, <2>1, MovingRow DEF RecordWrites, local
<1>12. ASSUME NEW d \in Deployment,
              \/ \E c \in Config, v \in Version : DeployToInstance(d, c, v)
              \/ GiveUp(d) \/ RecordReads(d) \/ Rollback(d)
      PROVE  Agency'
  <2>1. UNCHANGED <<agent, ask, row, job>>
    BY <1>12 DEF DeployToInstance, GiveUp, RecordReads, Rollback, local
  <2>2. CallKept
    BY <1>0, <1>12, DeploymentSteps
  <2>. QED
    BY <2>1, <2>2, Bystanding DEF JobKept
<1>13. CASE (\E c \in Config : Publish(c)) \/ UNCHANGED vars
  BY <1>13, Bystanding DEF Publish, vars, CallKept, JobKept, local
<1>. QED
  BY <1>2, <1>3, <1>4, <1>5, <1>6, <1>7, <1>8, <1>9, <1>10, <1>11, <1>12, <1>13

LEMMA AgencyStep ==
  ASSUME Agency, Tasks, Table, Rest, Dispatched, Applying, [Next]_vars
  PROVE  Agency'
  BY CallsKeep, ApplicationsKeep, OthersKeep, HandlersKeep, Typing, Goroutines
  DEF Next, MainGoroutine, ApplyDeployment

\* Steps that no goroutine applies anything in.
LEMMA HandlingOn ==
  ASSUME Applying, UNCHANGED <<job, work>>, disk' \in DiskRow, astray' \subseteq {"adopt", "overlap", "cut"},
         agent'.pc = "apply" <=> agent.pc = "apply",
         work # "recv" => Connected' /\ events' # <<>>
  PROVE  Applying'
  BY DEF Applying

LEMMA Refusal ==
  ASSUME Applying, Linked, Asked, task[Call].pc # "idle", task[Call].pc \in HandlerPc, Refused, UNCHANGED <<local, events>>
  PROVE  Applying'
<1>1. \/ agent.pc = "register" /\ agent'.pc = "out"
      \/ agent.pc = "wait" /\ agent'.pc = "loop"
  BY HandlerPcs, Refusing DEF Linked
<1>2. /\ agent'.pc # "apply" /\ agent.pc # "apply"
      /\ work # "recv" => Connected'
  BY <1>1 DEF Applying, Connected
<1>3. UNCHANGED <<job, work, disk, astray>>
  BY DEF local
<1>4. disk' \in DiskRow /\ astray' \subseteq {"adopt", "overlap", "cut"} /\ (work # "recv" => events' # <<>>)
  BY <1>3 DEF Applying
<1>. QED
  BY <1>2, <1>3, <1>4, HandlingOn

LEMMA HandlersApply ==
  ASSUME Applying, Linked, Asked, Tasks, NEW t \in Handler,
         RegisterReads(t) \/ RegisterWrites(t) \/ HeartbeatReads(t) \/ HeartbeatWrites(t)
  PROVE  Applying'
<1>0. UNCHANGED <<local, events>>
  BY DEF RegisterReads, RegisterWrites, HeartbeatReads, HeartbeatWrites
<1>1. CASE UNCHANGED agent
  BY <1>0, <1>1, HandlingOn DEF local, Applying, Connected
<1>2. CASE Answered(t) /\ t = Call
  <2>1. task[Call].pc # "idle" /\ task[Call].pc \in HandlerPc
    BY <1>2, Typing DEF RegisterReads, RegisterWrites, HeartbeatReads, HeartbeatWrites, At, Tasks, Typed
  <2>. QED
    BY <1>0, <1>2, <2>1, Refusal DEF Answered
<1>. QED
  BY <1>1, <1>2 DEF RegisterReads, RegisterWrites, HeartbeatReads, HeartbeatWrites, Answered

LEMMA CallsApply ==
  ASSUME Applying, Linked, Asked, Tasks,
         \/ SendRegister \/ RegisterRereads \/ RegisterAnswers \/ SendHeartbeat \/ HeartbeatAnswers
         \/ ReportInterrupted
  PROVE  Applying'
<1>. agent \in AgentRow /\ disk \in DiskRow /\ astray \subseteq {"adopt", "overlap", "cut"}
  BY AgentOf, JobOf, Goroutines DEF Applying
<1>0. UNCHANGED <<job, work, events>>
  BY DEF SendRegister, RegisterRereads, RegisterAnswers, SendHeartbeat, HeartbeatAnswers, ReportInterrupted, local
<1>1. disk' \in DiskRow /\ astray' \subseteq {"adopt", "overlap", "cut"}
  <2>1. disk' = disk \/ \E b \in BOOLEAN : disk' = [disk EXCEPT !.active = b]
    <3>1. (faults' # faults) \in BOOLEAN
      OBVIOUS
    <3>. QED
      BY <3>1 DEF SendRegister, RegisterRereads, RegisterAnswers, SendHeartbeat, HeartbeatAnswers, ReportInterrupted,
                  local
  <2>2. astray' \subseteq {"adopt", "overlap", "cut"}
    BY DEF SendRegister, RegisterRereads, RegisterAnswers, SendHeartbeat, HeartbeatAnswers, ReportInterrupted, local
  <2>. QED
    BY <2>1, <2>2 DEF DiskRow
<1>2. \/ agent'.pc = agent.pc
      \/ agent.pc \in {"out", "register", "report"} /\ agent'.pc \in {"register", "report", "loop"}
      \/ agent.pc \in {"loop", "wait"} /\ agent'.pc \in {"wait", "loop", "fetch"}
  <2>1. CASE SendRegister
    BY <2>1 DEF SendRegister, AgentRow
  <2>2. CASE RegisterRereads
    BY <2>2 DEF RegisterRereads
  <2>3. CASE RegisterAnswers
    <3>1. agent.pc = "register"
      BY <2>3 DEF RegisterAnswers, At, Linked, RegisterPc
    <3>. QED
      BY <2>3, <3>1 DEF RegisterAnswers, AgentRow
  <2>4. CASE SendHeartbeat
    BY <2>4 DEF SendHeartbeat, AgentRow
  <2>5. CASE HeartbeatAnswers
    <3>1. agent.pc = "wait"
      BY <2>5 DEF HeartbeatAnswers, At, Linked, BeatPc
    <3>2. CASE Refused
      BY <3>1, <3>2, Refusing
    <3>3. CASE agent' = [agent EXCEPT !.pc = "fetch", !.said = Nothing]
      BY <3>1, <3>3 DEF AgentRow
    <3>. QED
      BY <2>5, <3>2, <3>3 DEF HeartbeatAnswers
  <2>6. CASE ReportInterrupted
    BY <2>6 DEF ReportInterrupted, AgentRow
  <2>. QED
    BY <2>1, <2>2, <2>3, <2>4, <2>5, <2>6
<1>3. agent'.pc = "apply" <=> agent.pc = "apply"
  BY <1>2
<1>4. work # "recv" => Connected' /\ events' # <<>>
  BY <1>0, <1>2 DEF Applying, Connected
<1>. QED
  BY <1>0, <1>1, <1>3, <1>4, HandlingOn

\* Fetches and applications.
LEMMA ApplicationsApply ==
  ASSUME Applying, Asked, Table, Rest, Dispatched,
         \/ FetchConfig \/ FetchConfigFails \/ OnDeployment \/ DeploymentApplied
         \/ \E g \in Goroutine : OnConfigUpdate(g)
  PROVE  Applying'
<1>. /\ agent \in AgentRow /\ disk \in DiskRow /\ astray \subseteq {"adopt", "overlap", "cut"}
     /\ job \in [Goroutine -> JobRow] /\ Goroutine = {"main", "events"}
     /\ work \in {"recv", "begin", "apply", "completed", "failed"}
     /\ agent.pc = "apply" <=> job["main"].pc # "idle"
     /\ work = "apply" <=> job["events"].pc # "idle"
     /\ work # "recv" => Connected /\ events # <<>>
  BY AgentOf DEF Applying, Goroutine
<1>0. events' = events
  BY DEF FetchConfig, FetchConfigFails, OnDeployment, DeploymentApplied, OnConfigUpdate, WriteConfig,
         WriteConfigFails, UpdateConfigState, SetConfigState
<1>1. CASE FetchConfig
  <2>1. agent.pc = "fetch" /\ agent' = [agent EXCEPT !.pc = "apply"] /\ UNCHANGED <<work, disk>>
        /\ GetConfig # Nothing /\ StartsApplying("main", GetConfig)
    BY <1>1 DEF FetchConfig
  <2>2. agent'.pc = "apply" /\ Connected /\ Connected'
    BY <2>1 DEF AgentRow, Connected
  <2>3. GetConfig \in Assignment
    BY <2>1, Fetching DEF Asked
  <2>4. /\ job' \in [Goroutine -> JobRow] /\ astray' \subseteq {"adopt", "overlap", "cut"}
        /\ job'["main"].pc = "write" /\ job'["events"].pc = job["events"].pc
    BY <2>1, <2>3, Starting
  <2>. QED
    BY <1>0, <2>1, <2>2, <2>4 DEF Applying
<1>2. CASE FetchConfigFails
  <2>1. agent.pc = "fetch" /\ FetchEnds /\ UNCHANGED <<job, work, disk, astray>>
    BY <1>2 DEF FetchConfigFails, local
  <2>2. agent'.pc \in {"loop", "fetch"}
    BY <2>1, FetchEnding
  <2>. QED
    BY <1>0, <2>1, <2>2 DEF Applying, Connected
<1>3. CASE OnDeployment
  <2>1. work = "begin" /\ UNCHANGED agent /\ events # <<>>
    BY <1>3 DEF OnDeployment
  <2>2. CASE /\ disk' = [disk EXCEPT !.active = TRUE] /\ work' = "apply"
             /\ StartsApplying("events", <<dep[Head(events).d].c, Head(events).v>>)
    <3>1. <<dep[Head(events).d].c, Head(events).v>> \in Assignment
      BY <2>1, Arriving DEF Dispatched, Assignment
    <3>2. /\ job' \in [Goroutine -> JobRow] /\ astray' \subseteq {"adopt", "overlap", "cut"}
          /\ job'["events"].pc = "write" /\ job'["main"].pc = job["main"].pc
      BY <2>2, <3>1, Starting
    <3>3. disk' \in DiskRow
      BY <2>2 DEF DiskRow
    <3>. QED
      BY <1>0, <2>1, <2>2, <3>2, <3>3 DEF Applying, Connected
  <2>3. CASE disk' = [disk EXCEPT !.active = FALSE] /\ work' = "failed" /\ UNCHANGED <<job, astray>>
    <3>1. disk' \in DiskRow
      BY <2>3 DEF DiskRow
    <3>. QED
      BY <1>0, <2>1, <2>3, <3>1 DEF Applying, Connected
  <2>. QED
    BY <1>3, <2>2, <2>3 DEF OnDeployment
<1>4. ASSUME NEW g \in Goroutine, EndsApplying(g)
      PROVE  /\ job' \in [Goroutine -> JobRow] /\ astray' \subseteq {"adopt", "overlap", "cut"}
             /\ job'[g].pc = "idle" /\ \A h \in Goroutine \ {g} : job'[h] = job[h]
  BY <1>4, Typing DEF EndsApplying, NoJob
<1>5. CASE DeploymentApplied
  <2>1. /\ job["events"].pc = "again" /\ work' = "completed" /\ UNCHANGED agent /\ EndsApplying("events")
        /\ disk' = [disk EXCEPT !.saved = job["events"].v, !.active = FALSE]
    BY <1>5 DEF DeploymentApplied
  <2>2. disk' \in DiskRow
    BY <2>1 DEF DiskRow, JobRow
  <2>3. /\ job' \in [Goroutine -> JobRow] /\ astray' \subseteq {"adopt", "overlap", "cut"}
        /\ job'["events"].pc = "idle" /\ job'["main"] = job["main"]
    BY <1>4, <2>1
  <2>. QED
    BY <1>0, <2>1, <2>2, <2>3 DEF Applying, Connected
<1>6. ASSUME NEW g \in Goroutine, NEW pc \in {"claim", "save", "again"}, job[g].pc # "idle",
             job' = [job EXCEPT ![g].pc = pc]
      PROVE  /\ job' \in [Goroutine -> JobRow]
             /\ \A h \in Goroutine : job'[h].pc = "idle" <=> job[h].pc = "idle"
  <2>1. [job[g] EXCEPT !.pc = pc] \in JobRow /\ [job[g] EXCEPT !.pc = pc].pc = pc
    BY DEF JobRow
  <2>. QED
    BY <1>6, <2>1
<1>7. ASSUME NEW g \in Goroutine, WriteConfig(g) PROVE Applying'
  <2>1. job[g].pc = "write" /\ job' = [job EXCEPT ![g].pc = "claim"] /\ UNCHANGED <<agent, work, astray>>
    BY <1>7 DEF WriteConfig
  <2>2. Written(g) \subseteq Assignment
    BY JobOf, Typing DEF Written
  <2>3. disk' \in DiskRow
    BY <1>7, <2>2 DEF WriteConfig, DiskRow
  <2>. QED
    BY <1>0, <1>6, <2>1, <2>3 DEF Applying, Connected
<1>8. ASSUME NEW g \in Goroutine, UpdateConfigState(g) PROVE Applying'
  <2>1. job[g].pc = "claim" /\ job' = [job EXCEPT ![g].pc = "save"] /\ UNCHANGED <<work, disk, astray>>
    BY <1>8 DEF UpdateConfigState
  <2>2. agent'.pc = agent.pc
    BY <1>8 DEF UpdateConfigState, AgentRow
  <2>. QED
    BY <1>0, <1>6, <2>1, <2>2 DEF Applying, Connected
<1>9. ASSUME NEW g \in Goroutine, NoJob.pc = "idle", job' = [job EXCEPT ![g] = NoJob]
      PROVE  /\ job' \in [Goroutine -> JobRow] /\ job'[g].pc = "idle"
             /\ \A h \in Goroutine \ {g} : job'[h] = job[h]
  BY <1>9, Typing
<1>10. ASSUME FetchEnds, agent.pc = "apply" PROVE agent'.pc \in {"loop", "fetch"}
  BY <1>10, FetchEnding
<1>11. ASSUME NEW g \in Goroutine, WriteConfigFails(g) PROVE Applying'
  <2>1. /\ job[g].pc = "write" /\ job' = [job EXCEPT ![g] = NoJob] /\ UNCHANGED astray
        /\ IF g = "main" THEN FetchEnds /\ UNCHANGED work ELSE work' = "failed" /\ UNCHANGED agent
    BY <1>11 DEF WriteConfigFails
  <2>2. Written(g) \cup {disk.file} \subseteq Assignment
    BY JobOf, Typing DEF Written
  <2>3. disk' \in DiskRow
    <3>1. PICK v \in Assignment : disk' = [disk EXCEPT !.file = v, !.active = disk.active /\ g = "main"]
      BY <1>11, <2>2 DEF WriteConfigFails
    <3>2. (disk.active /\ g = "main") \in BOOLEAN
      OBVIOUS
    <3>. QED
      BY <3>1, <3>2 DEF DiskRow
  <2>4. /\ job' \in [Goroutine -> JobRow] /\ job'[g].pc = "idle"
        /\ \A h \in Goroutine \ {g} : job'[h] = job[h]
    BY <1>9, <2>1 DEF NoJob
  <2>5. CASE g = "main"
    BY <1>0, <1>10, <2>1, <2>3, <2>4, <2>5 DEF Applying, Connected
  <2>6. CASE g = "events"
    BY <1>0, <2>1, <2>3, <2>4, <2>6 DEF Applying, Connected
  <2>. QED
    BY <2>5, <2>6
<1>12. ASSUME NEW g \in Goroutine, SetConfigState(g) PROVE Applying'
  <2>1. job[g].pc = "save" /\ disk' = [disk EXCEPT !.saved = job[g].v] /\ work' = work
    BY <1>12 DEF SetConfigState
  <2>2. disk' \in DiskRow
    BY <2>1 DEF DiskRow, JobRow
  <2>3. CASE g = "main"
    <3>1. EndsApplying(g) /\ FetchEnds
      BY <1>12, <2>3 DEF SetConfigState
    <3>. QED
      BY <1>0, <1>4, <1>10, <2>1, <2>2, <2>3, <3>1 DEF Applying, Connected
  <2>4. CASE g = "events"
    <3>1. job' = [job EXCEPT ![g].pc = "again"] /\ UNCHANGED <<agent, astray>>
      BY <1>12, <2>4 DEF SetConfigState
    <3>. QED
      BY <1>0, <1>6, <2>1, <2>2, <2>4, <3>1 DEF Applying, Connected
  <2>. QED
    BY <2>3, <2>4
<1>. QED
  BY <1>1, <1>2, <1>3, <1>5, <1>7, <1>8, <1>11, <1>12 DEF OnConfigUpdate

LEMMA OthersApply ==
  ASSUME Applying, Linked, Asked, Tasks, Dispatched,
         \/ BeginDeployment \/ EndDeployment
         \/ CallFails \/ Leave \/ Exit
         \/ EditReads \/ EditWrites \/ DeleteInstance
         \/ \E c \in Config : Publish(c)
         \/ \E t \in Task : Drop(t)
         \/ \E d \in Deployment :
              \/ \E c \in Config, v \in Version : DeployToInstance(d, c, v)
              \/ GiveUp(d) \/ RecordReads(d) \/ RecordWrites(d) \/ Rollback(d)
         \/ UNCHANGED vars
  PROVE  Applying'
<1>. agent \in AgentRow
  BY AgentOf
<1>1. CASE BeginDeployment
  <2>1. /\ Connected /\ work = "recv" /\ events # <<>> /\ work' = "begin"
        /\ UNCHANGED <<agent, events, job, disk, astray>>
    BY <1>1 DEF BeginDeployment
  <2>. QED
    BY <2>1 DEF Applying, Connected
<1>2. CASE EndDeployment
  <2>1. work \in {"completed", "failed"} /\ work' = "recv" /\ UNCHANGED <<agent, job, disk, astray>>
    BY <1>2 DEF EndDeployment
  <2>. QED
    BY <2>1 DEF Applying
<1>3. CASE CallFails
  <2>1. task[Call].pc # "idle" /\ task[Call].pc \in HandlerPc /\ Refused /\ UNCHANGED <<local, events>>
    BY <1>3, Typing DEF CallFails, At, Tasks, Typed
  <2>. QED
    BY <2>1, Refusal
<1>4. CASE Leave
  <2>1. agent.pc = "loop" /\ work = "recv" /\ agent' = [agent EXCEPT !.pc = "out"] /\ UNCHANGED <<job, work, disk, astray>>
    BY <1>4 DEF Leave, local
  <2>2. agent'.pc = "out"
    BY <2>1 DEF AgentRow
  <2>. QED
    BY <2>1, <2>2 DEF Applying
<1>5. CASE Exit
  <2>1. /\ agent' = [pc |-> "out", claim |-> disk.saved, said |-> Nothing] /\ work' = "recv" /\ disk' = disk
        /\ job' = [g \in Goroutine |-> NoJob]
        /\ astray' \subseteq {"adopt", "overlap", "cut"}
    BY <1>5 DEF Exit, Applying
  <2>2. /\ job' \in [Goroutine -> JobRow] /\ job'["main"].pc = "idle" /\ job'["events"].pc = "idle"
    BY <2>1, Typing, Goroutines DEF NoJob
  <2>. QED
    BY <2>1, <2>2 DEF Applying
<1>6. CASE UNCHANGED <<agent, job, work, disk, astray>> /\ (events' = events \/ events' # <<>>)
  BY <1>6 DEF Applying, Connected
<1>7. CASE EditReads \/ EditWrites \/ DeleteInstance \/ UNCHANGED vars \/ \E c \in Config : Publish(c)
  BY <1>6, <1>7 DEF EditReads, EditWrites, DeleteInstance, Publish, vars, local
<1>8. ASSUME NEW t \in Task, Drop(t) PROVE Applying'
  BY <1>6, <1>8 DEF Drop, local
<1>9. ASSUME NEW d \in Deployment, GiveUp(d) \/ RecordReads(d) \/ RecordWrites(d) PROVE Applying'
  BY <1>6, <1>9 DEF GiveUp, RecordReads, RecordWrites, local
<1>10. ASSUME NEW d \in Deployment, NEW v, NEW rollback, Send(d, v, rollback) PROVE events' # <<>>
  <2>1. events' = Append(events, [d |-> d, v |-> v, rollback |-> rollback])
    BY <1>10 DEF Send
  <2>2. events \in Seq(Event)
    BY DEF Dispatched
  <2>. QED
    BY <2>1, <2>2
<1>11. ASSUME NEW d \in Deployment, Rollback(d) \/ \E c \in Config, v \in Version : DeployToInstance(d, c, v)
       PROVE  Applying'
  <2>1. UNCHANGED <<agent, job, work, disk, astray>> /\ \E v, rollback : Send(d, v, rollback)
    BY <1>11 DEF Rollback, DeployToInstance, local
  <2>. QED
    BY <1>6, <1>10, <2>1
<1>. QED
  BY <1>1, <1>2, <1>3, <1>4, <1>5, <1>7, <1>8, <1>9, <1>11

LEMMA ApplyingStep ==
  ASSUME Applying, Asked, Linked, Tasks, Table, Rest, Dispatched, [Next]_vars
  PROVE  Applying'
  BY HandlersApply, CallsApply, ApplicationsApply, OthersApply, Typing, Goroutines
  DEF Next, MainGoroutine, ApplyDeployment

-----------------------------------------------------------------------------
\* Versions, deployments and their events.

LEMMA RestStep ==
  ASSUME Rest, Dispatched, Applying, [Next]_vars
  PROVE  Rest'
<1>. latest \in [Config -> Version] /\ named \in BOOLEAN /\ withdrawn \subseteq Config \X Version
     /\ edits \in 0..MaxEdits /\ faults \in 0..MaxFaults
  BY DEF Rest
<1>0. CASE UNCHANGED <<latest, named, withdrawn, edits, faults>>
  BY <1>0 DEF Rest
<1>1. ASSUME NEW c \in Config, Publish(c) PROVE Rest'
  <2>1. latest' \in [Config -> Version]
    BY <1>1, BoundAssumption DEF Publish, Version
  <2>. QED
    BY <1>1, <2>1 DEF Publish, Rest, local, counters
<1>2. CASE UNCHANGED <<latest, named, withdrawn, edits>> /\ Fault
  BY <1>2, BoundAssumption DEF Fault, Rest
<1>3. CASE EditReads
  <2>1. edits < MaxEdits /\ edits' = edits + 1 /\ UNCHANGED <<latest, named, withdrawn, faults>>
    BY <1>3 DEF EditReads, hub, local
  <2>2. edits' \in 0..MaxEdits
    BY <2>1, BoundAssumption
  <2>. QED
    BY <2>1, <2>2 DEF Rest
<1>4. ASSUME NEW d \in Deployment, NEW c \in Config, NEW v \in Version, DeployToInstance(d, c, v) PROVE Rest'
  <2>1. named' \in BOOLEAN /\ withdrawn' \subseteq Config \X Version
    BY <1>4 DEF DeployToInstance
  <2>. QED
    BY <1>4, <2>1 DEF DeployToInstance, Rest, counters
<1>5. CASE DeploymentApplied
  <2>1. UNCHANGED <<latest, named, edits, faults>> /\ events # <<>>
    BY <1>5 DEF DeploymentApplied, hub, counters, Applying
  <2>2. CASE UNCHANGED withdrawn
    BY <2>1, <2>2 DEF Rest
  <2>3. CASE /\ Head(events).rollback
             /\ withdrawn' = withdrawn \cup {<<dep[Head(events).d].c, Head(events).v + 1>>}
    <3>1. dep[Head(events).d].c \in Config /\ Head(events).v + 1 \in Version
      BY <2>1, <2>3, Arriving DEF Dispatched
    <3>. QED
      BY <2>1, <2>3, <3>1 DEF Rest
  <2>. QED
    BY <1>5, <2>2, <2>3 DEF DeploymentApplied
<1>6. CASE \/ SendRegister \/ RegisterRereads \/ RegisterAnswers \/ SendHeartbeat \/ HeartbeatAnswers
           \/ FetchConfig \/ FetchConfigFails \/ OnDeployment
           \/ ReportInterrupted \/ BeginDeployment \/ EndDeployment
  BY <1>0, <1>2, <1>6
  DEF hub, local, counters, SendRegister, RegisterRereads, RegisterAnswers, SendHeartbeat, HeartbeatAnswers,
      FetchConfig, FetchConfigFails, OnDeployment, ReportInterrupted, BeginDeployment, EndDeployment, Report
<1>7. ASSUME NEW g \in Goroutine, OnConfigUpdate(g) PROVE Rest'
  BY <1>0, <1>2, <1>7
  DEF OnConfigUpdate, WriteConfig, WriteConfigFails, UpdateConfigState, SetConfigState, hub, counters
<1>8. ASSUME NEW t \in Task,
             RegisterReads(t) \/ RegisterWrites(t) \/ HeartbeatReads(t) \/ HeartbeatWrites(t) \/ Drop(t)
      PROVE  Rest'
  BY <1>0, <1>8 DEF hub, local, counters, RegisterReads, RegisterWrites, HeartbeatReads, HeartbeatWrites, Drop
<1>9. CASE CallFails \/ Leave \/ Exit
  BY <1>2, <1>9 DEF CallFails, Leave, Exit, hub, local
<1>10. CASE EditWrites \/ DeleteInstance \/ UNCHANGED vars
  BY <1>0, <1>10 DEF EditWrites, DeleteInstance, vars, hub, local, counters
<1>11. ASSUME NEW d \in Deployment, GiveUp(d) \/ RecordReads(d) \/ RecordWrites(d) \/ Rollback(d) PROVE Rest'
  BY <1>0, <1>11 DEF GiveUp, RecordReads, RecordWrites, Rollback, hub, local, counters
<1>. QED
  BY <1>1, <1>3, <1>4, <1>5, <1>6, <1>7, <1>8, <1>9, <1>10, <1>11, Typing, Goroutines
  DEF Next, MainGoroutine, ApplyDeployment

\* Deployments that were begun stay begun.
LEMMA StaysBegun ==
  ASSUME Tasks, Table, Dispatched, Applying, [Next]_vars, NEW d \in Deployment
  PROVE  /\ task[d].pc # "idle" => task'[d].pc # "idle"
         /\ task[d].pc = "idle" /\ task'[d].pc # "idle" =>
              \E c \in Config, v \in Version : DeployToInstance(d, c, v)
<1>. d \in Task
  BY Typing
<1>1. ASSUME NEW t \in Task, Steps(t), t # d PROVE task'[d].pc = task[d].pc
  BY <1>1 DEF Steps, Moves, Same
<1>2. ASSUME NEW tasks \in [Task -> TaskRow], Settles(tasks) PROVE task'[d].pc # "idle" <=> task[d].pc # "idle"
  BY <1>2, Settling DEF Settles, Passed, Same
<1>3. CASE DeleteInstance
  BY <1>3, Deleting
<1>4. CASE Steps(d)
  BY <1>4 DEF Steps
<1>. QED
  BY <1>1, <1>2, <1>3, <1>4, StepsBy

\* What is on its way to the agent.
LEMMA EventsBy ==
  ASSUME Dispatched, Applying, [Next]_vars
  PROVE  \/ events' \in {events, <<>>}
         \/ events # <<>> /\ events' = Tail(events)
         \/ \E d \in Deployment, v \in Version, rollback \in BOOLEAN :
              /\ Send(d, v, rollback)
              /\ rollback => v + 1 \in Version
              /\ Go(d, IF rollback THEN "undone" ELSE "sent")
<1>1. CASE EndDeployment
  BY <1>1 DEF EndDeployment, Applying
<1>2. ASSUME NEW d \in Deployment, NEW c \in Config, NEW v \in Version, DeployToInstance(d, c, v)
      PROVE  Send(d, v, FALSE) /\ Go(d, "sent")
  BY <1>2 DEF DeployToInstance
<1>3. ASSUME NEW d \in Deployment, Rollback(d)
      PROVE  Send(d, dep[d].v - 1, TRUE) /\ Go(d, "undone") /\ dep[d].v - 1 \in Version /\ (dep[d].v - 1) + 1 \in Version
  <2>1. dep[d].v \in Version /\ dep[d].v > 1
    BY <1>3 DEF Rollback, Dispatched, At
  <2>2. dep[d].v - 1 \in Version /\ (dep[d].v - 1) + 1 \in Version
    BY <2>1, BoundAssumption DEF Version
  <2>. QED
    BY <1>3, <2>2 DEF Rollback
<1>4. CASE Leave \/ Exit
  BY <1>4 DEF Leave, Exit
<1>5. CASE UNCHANGED events
  BY <1>5
<1>6. CASE MainGoroutine \/ ApplyDeployment \/ OnDeployment \/ BeginDeployment
  BY <1>5, <1>6
  DEF MainGoroutine, SendRegister, RegisterReads, RegisterWrites, RegisterRereads, RegisterAnswers, ReportInterrupted,
      SendHeartbeat, HeartbeatReads, HeartbeatWrites, HeartbeatAnswers, FetchConfig, FetchConfigFails, OnConfigUpdate,
      WriteConfig, WriteConfigFails, UpdateConfigState, SetConfigState, ApplyDeployment, DeploymentApplied,
      OnDeployment, BeginDeployment
<1>. QED
  BY <1>1, <1>2, <1>3, <1>4, <1>5, <1>6
  DEF Next, vars, RegisterReads, RegisterWrites, HeartbeatReads, HeartbeatWrites, CallFails, EditReads, EditWrites,
      DeleteInstance, Publish, Drop, GiveUp, RecordReads, RecordWrites

LEMMA DispatchedStep ==
  ASSUME Tasks, Table, Dispatched, Applying, [Next]_vars
  PROVE  Dispatched'
<1>. DEFINE Row3 == [c : Config \cup {NoConfig}, v : 0..MaxVersion]
<1>1. dep' = dep \/ \E d \in Deployment, c \in Config, v \in Version : DeployToInstance(d, c, v)
  BY DEF Next, vars, hub, MainGoroutine, SendRegister, RegisterReads, RegisterWrites, RegisterRereads,
         RegisterAnswers, ReportInterrupted, SendHeartbeat, HeartbeatReads, HeartbeatWrites, HeartbeatAnswers,
         FetchConfig, FetchConfigFails, OnConfigUpdate, WriteConfig, WriteConfigFails, UpdateConfigState,
         SetConfigState, ApplyDeployment, DeploymentApplied, OnDeployment, BeginDeployment, EndDeployment,
         CallFails, Leave, Exit, EditReads, EditWrites, DeleteInstance,
         Publish, Drop, GiveUp, RecordReads, RecordWrites, Rollback
<1>2. ASSUME NEW d \in Deployment, NEW c \in Config, NEW v \in Version, DeployToInstance(d, c, v)
      PROVE  /\ dep' \in [Deployment -> Row3] /\ dep'[d].c = c /\ dep'[d].v = v /\ task[d].pc = "idle"
             /\ \A e \in Deployment \ {d} : dep'[e] = dep[e]
  <2>1. dep' = [dep EXCEPT ![d] = [c |-> c, v |-> v]] /\ task[d].pc = "idle"
    BY <1>2 DEF DeployToInstance, At
  <2>2. [c |-> c, v |-> v] \in Row3
    BY BoundAssumption DEF Version
  <2>. QED
    BY <2>1, <2>2 DEF Dispatched
<1>3. dep' \in [Deployment -> Row3]
  BY <1>1, <1>2 DEF Dispatched
<1>4. ASSUME NEW d \in Deployment, task'[d].pc # "idle" PROVE dep'[d].c \in Config /\ dep'[d].v \in Version
  <2>1. CASE task[d].pc # "idle"
    <3>1. dep'[d] = dep[d]
      BY <1>1, <1>2, <2>1
    <3>. QED
      BY <2>1, <3>1 DEF Dispatched
  <2>2. CASE task[d].pc = "idle"
    BY <1>2, <1>4, <2>2, StaysBegun
  <2>. QED
    BY <2>1, <2>2
<1>5. events \in Seq(Event) /\ \A i \in 1..Len(events) : events[i] \in Event
  BY DEF Dispatched
<1>6. ASSUME NEW i \in 1..Len(events)
      PROVE  task'[events[i].d].pc # "idle" /\ (events[i].rollback => events[i].v + 1 \in Version)
  <2>1. events[i].d \in Deployment
    BY <1>5 DEF Event
  <2>. QED
    BY <2>1, StaysBegun DEF Dispatched
<1>7. CASE events' = events
  BY <1>3, <1>4, <1>5, <1>6, <1>7 DEF Dispatched
<1>8. CASE events' = <<>>
  BY <1>3, <1>4, <1>8 DEF Dispatched
<1>9. CASE events # <<>> /\ events' = Tail(events)
  <2>1. /\ events' \in Seq(Event)
        /\ \A i \in 1..Len(events') : i + 1 \in 1..Len(events) /\ events'[i] = events[i + 1]
    BY <1>5, <1>9, Arriving
  <2>. QED
    BY <1>3, <1>4, <1>6, <2>1 DEF Dispatched
<1>10. ASSUME NEW d \in Deployment, NEW v \in Version, NEW rollback \in BOOLEAN,
              Send(d, v, rollback), rollback => v + 1 \in Version, Go(d, IF rollback THEN "undone" ELSE "sent")
       PROVE  Dispatched'
  <2>. DEFINE e == [d |-> d, v |-> v, rollback |-> rollback]
  <2>1. e \in Event /\ events' = Append(events, e) /\ e.d = d /\ (e.rollback => e.v + 1 \in Version)
    BY <1>10 DEF Send, Event
  <2>2. task'[d].pc # "idle"
    <3>1. d \in Task /\ d \notin Handler /\ {"undone", "sent"} \subseteq WorkerPc
      BY Typing DEF Handler, WorkerPc
    <3>2. PICK pc \in {"undone", "sent"} : Go(d, pc)
      BY <1>10
    <3>. QED
      BY <3>1, <3>2, Going
  <2>. HIDE DEF e
  <2>3. /\ events' \in Seq(Event)
        /\ \A i \in 1..Len(events') : events'[i] = e \/ (i \in 1..Len(events) /\ events'[i] = events[i])
    BY <1>5, <2>1
  <2>. QED
    BY <1>3, <1>4, <1>6, <2>1, <2>2, <2>3 DEF Dispatched
<1>11. CASE \E d \in Deployment, v \in Version, rollback \in BOOLEAN :
              /\ Send(d, v, rollback)
              /\ rollback => v + 1 \in Version
              /\ Go(d, IF rollback THEN "undone" ELSE "sent")
  <2>1. PICK d \in Deployment, v \in Version, rollback \in BOOLEAN :
              /\ Send(d, v, rollback)
              /\ rollback => v + 1 \in Version
              /\ Go(d, IF rollback THEN "undone" ELSE "sent")
    BY <1>11
  <2>. QED
    BY <1>10, <2>1
<1>12. \/ events' \in {events, <<>>}
       \/ events # <<>> /\ events' = Tail(events)
       \/ \E d \in Deployment, v \in Version, rollback \in BOOLEAN :
            /\ Send(d, v, rollback)
            /\ rollback => v + 1 \in Version
            /\ Go(d, IF rollback THEN "undone" ELSE "sent")
  BY EventsBy
<1>. QED
  BY <1>7, <1>8, <1>9, <1>11, <1>12

-----------------------------------------------------------------------------
\* The theorems.

LEMMA InitIInv == Init => IInv
<1>. SUFFICES ASSUME Init PROVE IInv
  OBVIOUS
<1>. PICK start \in {Nothing} \cup (Start \X {1}), made \in BOOLEAN :
       /\ latest = [c \in Config |-> 1]
       /\ row = IF start # Nothing THEN [there |-> TRUE, assignment |-> start, status |-> "offline"]
                ELSE [Missing EXCEPT !.there = made]
       /\ named = (start # Nothing)
       /\ last = [assignment |-> row.assignment, status |-> row.status]
       /\ agent = [pc |-> "out", claim |-> start, said |-> Nothing]
       /\ disk = [file |-> start, saved |-> start, active |-> FALSE]
       /\ job = [g \in Goroutine |-> NoJob] /\ work = "recv" /\ astray = {}
       /\ task = [t \in Task |-> Idle]
       /\ dep = [d \in Deployment |-> [c |-> NoConfig, v |-> 0]]
       /\ ask = NoAsk /\ events = <<>>
       /\ withdrawn = {}
       /\ edits = 0 /\ faults = 0
  BY DEF Init
<1>0. 1 \in Version /\ 0 \in 0..MaxVersion /\ 0 \in 0..MaxEdits /\ 0 \in 0..MaxFaults
  BY BoundAssumption DEF Version
<1>1. start \in Assignment
  BY <1>0, ConfigAssumption, Typing DEF Assignment
<1>2. row \in Row
  BY <1>1, Typing DEF Row, Missing, Status
<1>3. Table
  BY <1>2 DEF Table, Row, Fields
<1>4. /\ Idle.pc = "idle" /\ "idle" \in HandlerPc /\ "idle" \in WorkerPc
      /\ \A t \in Task : task[t].pc = "idle"
  BY DEF Idle, HandlerPc, WorkerPc
<1>5. Tasks
  BY <1>4, Typing DEF Tasks, Typed
<1>6. Asked
  BY <1>1, Typing, NotAsked DEF Asked, AgentRow
<1>7. Rest
  BY <1>0 DEF Rest
<1>8. Dispatched
  BY <1>0, <1>4, Typing DEF Dispatched
<1>9. Linked /\ Following /\ FetchedIsAnnounced
  <2>1. task[Call].pc = "idle" /\ agent.pc = "out"
    BY <1>4, Typing
  <2>. QED
    BY <2>1 DEF Linked, RegisterPc, BeatPc, Following, FetchedIsAnnounced
<1>10. Applying
  <2>1. job \in [Goroutine -> JobRow] /\ job["main"].pc = "idle" /\ job["events"].pc = "idle"
    BY Typing, Goroutines DEF NoJob
  <2>2. disk \in DiskRow
    BY <1>1 DEF DiskRow
  <2>. QED
    BY <2>1, <2>2 DEF Applying
<1>11. InCopies
  BY <1>4 DEF InCopies, Holds, WritePc
<1>12. RowKeepsWrites
  <2>1. last.assignment = row.assignment /\ last.status = row.status
    OBVIOUS
  <2>. QED
    BY <2>1 DEF RowKeepsWrites
<1>. QED
  BY <1>3, <1>5, <1>6, <1>7, <1>8, <1>9, <1>10, <1>11, <1>12 DEF IInv

LEMMA Inductive == IInv /\ [Next]_vars => IInv'
<1>. SUFFICES ASSUME IInv, [Next]_vars PROVE IInv'
  OBVIOUS
<1>1. Tasks' /\ Table' /\ Rest' /\ Dispatched' /\ Applying'
  BY TasksStep, TableStep, RestStep, DispatchedStep, ApplyingStep DEF IInv
<1>2. InCopies' /\ RowKeepsWrites'
  BY InCopiesStep, RowKeepsWritesStep DEF IInv
<1>3. Agency'
  BY AgencyStep DEF IInv, Agency
<1>. QED
  BY <1>1, <1>2, <1>3 DEF IInv, Agency

\* IInv holds throughout, whoever writes the row: Register, Heartbeat,
\* UpdateInstance, deployToInstance, and the status writes of
\* ReportDeploymentStatus and Deregister.
THEOREM Invariance == Spec => []IInv
  BY InitIInv, Inductive, PTL DEF Spec

\* The row, its writers and the agent have their types throughout; the row's status
\* is one of the store's six, "deploying" of ReportDeploymentStatus among them, or what
\* the API was given.
THEOREM TypesHold == Spec => []TypeOK
<1>1. ASSUME IInv PROVE TypeOK
  <2>1. /\ task \in [Task -> [pc : HandlerPc \cup WorkerPc, copy : Row, status : Status, late : SUBSET Field]]
        /\ \A h \in Handler : task[h].pc \in HandlerPc
        /\ \A d \in Deployment : task[d].pc \in WorkerPc
    BY <1>1 DEF IInv, Tasks, Typed, TaskRow
  <2>2. row \in Row /\ last \in [assignment : Assignment, status : Status]
    BY <1>1 DEF IInv, Table, Fields
  <2>3. /\ agent \in [pc : {"out", "register", "report", "loop", "wait", "fetch", "apply"}, claim : Assignment,
                      said : Assignment]
        /\ ask \in [c : Config \cup {NoConfig}, v : 0..MaxVersion, left : 0..2, moved : BOOLEAN]
        /\ agent.pc \in {"fetch", "apply"} <=> ask.left > 0
        /\ agent.pc \in {"out", "loop"} => ask = NoAsk
    BY <1>1 DEF IInv, Asked, AgentRow, AskRow
  <2>4. /\ dep \in [Deployment -> [c : Config \cup {NoConfig}, v : 0..MaxVersion]]
        /\ events \in Seq([d : Deployment, v : Version, rollback : BOOLEAN])
    BY <1>1 DEF IInv, Dispatched, Event
  <2>5. /\ job \in [Goroutine -> [pc : {"idle", "write", "claim", "save", "again"}, v : Assignment, alone : BOOLEAN]]
        /\ disk \in [file : Assignment, saved : Assignment, active : BOOLEAN]
        /\ work \in {"recv", "begin", "apply", "completed", "failed"}
        /\ astray \subseteq {"adopt", "overlap", "cut"}
        /\ agent.pc = "apply" <=> job["main"].pc # "idle"
        /\ work = "apply" <=> job["events"].pc # "idle"
        /\ work # "recv" => Connected /\ events # <<>>
    BY <1>1 DEF IInv, Applying, JobRow, DiskRow
  <2>. QED
    BY <1>1, <2>1, <2>2, <2>3, <2>4, <2>5 DEF IInv, Rest, TypeOK
<1>. QED
  BY <1>1, Invariance, PTL

\* What was last recorded in a field stays in the row, except for a write by one
\* that had read the row before: Register, Heartbeat, UpdateInstance,
\* deployToInstance, beside the status that ReportDeploymentStatus and Deregister write.
THEOREM RowsKeepWrites == Spec => []RowKeepsWrites
<1>1. IInv => RowKeepsWrites
  BY DEF IInv
<1>. QED
  BY <1>1, Invariance, PTL

\* The agent gets the version it was announced, unless the instance was assigned
\* another configuration since its heartbeat read the row: Heartbeat, GetConfig,
\* while the events goroutine applies beside the main one.
THEOREM AnnouncedIsFetched == Spec => []FetchedIsAnnounced
<1>1. IInv => FetchedIsAnnounced
  BY DEF IInv
<1>. QED
  BY <1>1, Invariance, PTL
=============================================================================
