---------------------------- MODULE ConfigVersions ----------------------------
(***************************************************************************)
(* Configurations and their versions                                       *)
(*   internal/api/handlers.go, internal/store/store.go,                    *)
(*   internal/fleet/orchestrator.go                                        *)
(*                                                                         *)
(* Every request of the API runs in a goroutine of its own and holds no    *)
(* lock: its SQL statements are atomic, and other requests fall between    *)
(* them.  It may also end between two statements: its client is gone, or a *)
(* statement fails.                                                        *)
(***************************************************************************)
EXTENDS Naturals, FiniteSets

CONSTANTS
  Config,      \* configurations that may be created
  Request,     \* goroutines of the API's server (bound on those at work together)
  Content,
  NoContent,
  MaxVersion,     \* bound: versions of a configuration
  MaxDeployments  \* bound: deployments created

ASSUME ConfigAssumption == Config # {}
ASSUME BoundAssumption == MaxVersion \in Nat /\ MaxVersion > 1
ASSUME DeploymentsAssumption == MaxDeployments \in Nat
ASSUME ContentAssumption == NoContent \notin Content

Version == 1..MaxVersion

VARIABLES
  configs,     \* table configs: the row's state and current version
  versions,    \* table config_versions: the content of each version
  req,         \* requests: where each one is and what it has read
  deployments, \* <<config, version>> of deployments created
  acked,       \* highest version a request was answered with
  rollbacks,   \* <<config, version made, version asked for>>
  slips        \* what may have set a config's current and latest version apart

rows == <<configs, versions>>
history == <<acked, rollbacks, slips>>
vars == <<rows, req, deployments, history>>

Idle == [pc |-> "idle", c |-> CHOOSE c \in Config : TRUE, current |-> 0, v |-> 0, x |-> NoContent]

-----------------------------------------------------------------------------
\* The store: one SQL statement each.

\* Rows of deleted configurations are not found.
Found(c) == configs[c].state = "live"

VersionStored(c, v) == v \in Version /\ versions[c][v] # NoContent

\* Fault: the row waits for its first version to set the number.
FaultyInsertConfig(c) ==
  configs' = [configs EXCEPT ![c] = [state |-> "live", current |-> 0]]

InsertConfig(c) ==
  configs' = [configs EXCEPT ![c] = [state |-> "live", current |-> 1]]

\* Fault: the version takes the place of one that is there.
FaultyVersionFree(c, v) == TRUE

\* UNIQUE (config_id, version)
VersionFree(c, v) == ~VersionStored(c, v)

InsertVersion(c, v, x) ==
  /\ VersionFree(c, v)
  /\ versions' = [versions EXCEPT ![c][v] = x]

\* Fault: deleted rows are updated as well.
FaultyUpdatable(c) == TRUE

Updatable(c) == configs[c].state = "live"

UpdateRow(c, v) ==
  /\ Updatable(c)
  /\ configs' = [configs EXCEPT ![c] = [state |-> "live", current |-> v]]

\* The row stays and is found no more; deployments and versions name it.
DeleteRow(c) == configs' = [configs EXCEPT ![c].state = "deleted"]

InsertDeployment(c, v) == deployments' = deployments \cup {<<c, v>>}

-----------------------------------------------------------------------------
\* Requests.

Begin(r, pc, c, current, v, x) ==
  /\ req[r].pc = "idle"
  /\ req' = [req EXCEPT ![r] = [pc |-> pc, c |-> c, current |-> current, v |-> v, x |-> x]]

End(r) == req' = [req EXCEPT ![r] = Idle]
At(r, pc) == req[r].pc = pc
Slip(c, s) == slips' = [slips EXCEPT ![c] = @ \cup {s}]

\* About to write c's row, with a version made (x) or without.
Writing(r, c) == At(r, "write") /\ req[r].c = c
Made(r) == req[r].x # NoContent

\* Whether r, with x, comes to its write while another one is there that, or if
\* it, has made a version.
Overlaps(r, c, x) == \E s \in Request \ {r} : Writing(s, c) /\ (x # NoContent \/ Made(s))
NoteOverlap(r, c, x) == IF Overlaps(r, c, x) THEN Slip(c, "overlap") ELSE UNCHANGED slips

Acknowledge(c, v) == acked' = [acked EXCEPT ![c] = IF @ < v THEN v ELSE @]

\* CreateConfig stores the configuration ...
CreateConfig(r, c, x) ==
  /\ configs[c].state = "none"
  /\ Begin(r, "first", c, 1, 1, x)
  /\ InsertConfig(c)
  /\ UNCHANGED <<versions, deployments, history>>

\* ... and then its first version.
CreateFirstVersion(r) ==
  /\ At(r, "first")
  /\ InsertVersion(req[r].c, 1, req[r].x)
  /\ Acknowledge(req[r].c, 1)
  /\ End(r)
  /\ UNCHANGED <<configs, deployments, rollbacks, slips>>

\* UpdateConfig reads the row; with content it makes a version,
UpdateContent(r, c, x) ==
  /\ Found(c)
  /\ Begin(r, "insert", c, configs[c].current, 0, x)
  /\ UNCHANGED <<rows, deployments, history>>

\* without it writes the row back with another name or description.
UpdateDescription(r, c) ==
  /\ Found(c)
  /\ Begin(r, "write", c, configs[c].current, 0, NoContent)
  /\ NoteOverlap(r, c, NoContent)
  /\ UNCHANGED <<rows, deployments, acked, rollbacks>>

\* RollbackConfig reads the row and then the version asked for.
RollbackConfig(r, c, v) ==
  /\ Found(c)
  /\ Begin(r, "target", c, configs[c].current, v, NoContent)
  /\ UNCHANGED <<rows, deployments, history>>

\* Fault: the content is that of the version before the one asked for.
FaultyTargetContent(c, v) == versions[c][IF v = 1 THEN 1 ELSE v - 1]

TargetContent(c, v) == versions[c][v]

ReadTarget(r) ==
  /\ At(r, "target")
  /\ LET c == req[r].c IN
       /\ VersionStored(c, req[r].v)
       /\ req' = [req EXCEPT ![r].pc = "insert", ![r].x = TargetContent(c, req[r].v)]
  /\ UNCHANGED <<rows, deployments, history>>

\* The new version is the one after the current version that was read.
StoreVersion(r) ==
  /\ At(r, "insert") /\ req[r].current < MaxVersion
  /\ LET c == req[r].c
         n == req[r].current + 1 IN
       /\ InsertVersion(c, n, req[r].x)
       /\ req' = [req EXCEPT ![r].pc = "write", ![r].current = n, ![r].v = 0]
       /\ NoteOverlap(r, c, req[r].x)
       /\ rollbacks' = IF req[r].v = 0 THEN rollbacks ELSE rollbacks \cup {<<c, n, req[r].v>>}
  /\ UNCHANGED <<configs, deployments, acked>>

\* Another request has stored that version.
StoreVersionFails(r) ==
  /\ At(r, "insert") /\ VersionStored(req[r].c, req[r].current + 1)
  /\ End(r)
  /\ UNCHANGED <<rows, deployments, history>>

\* Fault: the current version written is not the one just made.
FaultyWritten(r) == IF Made(r) THEN req[r].current - 1 ELSE req[r].current

Written(r) == req[r].current

\* The whole row is written back.
WriteRow(r) ==
  /\ At(r, "write")
  /\ UpdateRow(req[r].c, Written(r))
  /\ IF Made(r) THEN Acknowledge(req[r].c, req[r].current) ELSE UNCHANGED acked
  /\ End(r)
  /\ UNCHANGED <<versions, deployments, rollbacks, slips>>

\* A request ends before its next statement: that statement fails or finds
\* nothing, or the client is gone.
Abandon(r) ==
  /\ ~At(r, "idle")
  /\ End(r)
  /\ CASE At(r, "first") -> Slip(req[r].c, "empty")
       [] At(r, "write") /\ Made(r) -> Slip(req[r].c, "half")
       [] OTHER -> UNCHANGED slips
  /\ UNCHANGED <<rows, deployments, acked, rollbacks>>

DeleteConfig(c) ==
  /\ Found(c)
  /\ DeleteRow(c)
  /\ UNCHANGED <<versions, req, deployments, history>>

\* CreateDeployment takes the current version for want of another (0) and checks
\* that it is there.
CreateDeployment(r, c, v) ==
  /\ Found(c) /\ Cardinality(deployments) < MaxDeployments
  /\ Begin(r, "check", c, 0, IF v = 0 THEN configs[c].current ELSE v, NoContent)
  /\ UNCHANGED <<rows, deployments, history>>

\* Fault: the version is taken as given.
FaultyDeployable(c, v) == TRUE

Deployable(c, v) == VersionStored(c, v)

StoreDeployment(r) ==
  /\ At(r, "check") /\ Deployable(req[r].c, req[r].v)
  /\ InsertDeployment(req[r].c, req[r].v)
  /\ End(r)
  /\ UNCHANGED <<rows, history>>

-----------------------------------------------------------------------------
Init ==
  /\ configs = [c \in Config |-> [state |-> "none", current |-> 0]]
  /\ versions = [c \in Config |-> [v \in Version |-> NoContent]]
  /\ req = [r \in Request |-> Idle]
  /\ deployments = {} /\ rollbacks = {}
  /\ acked = [c \in Config |-> 0]
  /\ slips = [c \in Config |-> {}]

Next ==
  \/ \E r \in Request, c \in Config :
       \/ \E x \in Content : CreateConfig(r, c, x) \/ UpdateContent(r, c, x)
       \/ UpdateDescription(r, c)
       \/ \E v \in Version : RollbackConfig(r, c, v)
       \/ \E v \in 0..MaxVersion : CreateDeployment(r, c, v)
  \/ \E r \in Request :
       \/ CreateFirstVersion(r) \/ ReadTarget(r) \/ StoreVersion(r) \/ StoreVersionFails(r)
       \/ WriteRow(r) \/ StoreDeployment(r) \/ Abandon(r)
  \/ \E c \in Config : DeleteConfig(c)

Spec == Init /\ [][Next]_vars

-----------------------------------------------------------------------------
\* Properties.

TypeOK ==
  /\ configs \in [Config -> [state : {"none"}, current : {0}]
                             \cup [state : {"live", "deleted"}, current : Version]]
  /\ versions \in [Config -> [Version -> Content \cup {NoContent}]]
  /\ req \in [Request -> [pc : {"idle", "first", "insert", "target", "write", "check"},
                          c : Config, current : 0..MaxVersion, v : 0..MaxVersion,
                          x : Content \cup {NoContent}]]
  /\ deployments \subseteq Config \X (0..MaxVersion)
  /\ acked \in [Config -> 0..MaxVersion]
  /\ rollbacks \subseteq Config \X Version \X Version
  /\ slips \in [Config -> SUBSET {"empty", "half", "overlap"}]

\* A version stored above the current one is on its way to become current, unless
\* a request ended half-way or a description's request overlapped it: only then is
\* every later update of the configuration refused (StoreVersionFails).
CurrentIsLatest ==
  \A c \in Config : Found(c) /\ slips[c] = {} =>
    \A v \in Version : VersionStored(c, v) /\ v > configs[c].current =>
      \E r \in Request : Writing(r, c) /\ Made(r) /\ req[r].current = v

\* A version whose request was answered stays current or is followed by a later
\* one, unless a description's request overlapped its own: UpdateConfig, RollbackConfig.
AcknowledgedIsCurrent ==
  \A c \in Config : "overlap" \notin slips[c] => acked[c] <= configs[c].current

\* What a rollback stored is what the version asked for holds, whatever other
\* requests stored meanwhile: RollbackConfig.
RollbackRestores ==
  \A b \in rollbacks : versions[b[1]][b[2]] = versions[b[1]][b[3]]

CreatingFirst(c) == \E r \in Request : At(r, "first") /\ req[r].c = c

\* The version of a deployment is there for the deployment to read, and the
\* current version is there unless its first version is not: CreateDeployment,
\* runDeployment.
VersionsAreThere ==
  /\ \A d \in deployments : VersionStored(d[1], d[2])
  /\ \A c \in Config : configs[c].current > 0 =>
       \/ VersionStored(c, configs[c].current)
       \/ configs[c].current = 1 /\ (CreatingFirst(c) \/ "empty" \in slips[c])

\* An update that read the configuration before it was deleted does not bring it
\* back: DeleteConfig against UpdateConfig and RollbackConfig.
DeletedStaysDeleted ==
  [][\A c \in Config : configs[c].state = "deleted" => configs'[c] = configs[c]]_vars

History == INSTANCE ConfigHistory WITH history <- versions

\* The versions table is the history ConfigHistory describes.
ImplementsHistory == History!Spec
=============================================================================
