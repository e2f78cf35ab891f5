------------------------- MODULE ConfigVersionsProofs -------------------------
(***************************************************************************)
(* Theorems about ConfigVersions, for any number of configurations,        *)
(* requests at once, contents, versions and deployments.                   *)
(*                                                                         *)
(* The invariant adds to the properties                                    *)
(*   Begun      a request at work has a configuration that was created,    *)
(*              and a content to store where it is about to                *)
(*   Prefixes   versions are stored in order, and all that a row or a      *)
(*              request's copy counts from the second on are there         *)
(*   FirstOne   the first version is there, on its way, or was given up    *)
(*   Untouched  a configuration not created has no versions                *)
(*   Restoring  a rollback at work carries the content it was asked for    *)
(*   Apart      how copies and current version relate while no request has *)
(*              come between another and its write                         *)
(***************************************************************************)
EXTENDS ConfigVersions, TLAPS

Copies == {"insert", "target", "write"}

Begun ==
  \A r \in Request :
    /\ ~At(r, "idle") => configs[req[r].c].state # "none"
    /\ req[r].pc \in Copies => req[r].current > 0
    /\ req[r].pc \in {"insert", "first"} => req[r].x \in Content

\* All versions of c from the second to the n-th.
Prefix(c, n) == \A w \in 2..n : VersionStored(c, w)

Prefixes ==
  /\ \A c \in Config : \A v \in Version : VersionStored(c, v) => Prefix(c, v)
  /\ \A c \in Config : Prefix(c, configs[c].current)
  /\ \A r \in Request : req[r].pc \in Copies => Prefix(req[r].c, req[r].current)

FirstOne ==
  \A c \in Config : configs[c].state # "none" =>
    VersionStored(c, 1) \/ CreatingFirst(c) \/ "empty" \in slips[c]

Untouched ==
  \A c \in Config : configs[c].state = "none" => \A v \in Version : ~VersionStored(c, v)

Deployed == \A d \in deployments : VersionStored(d[1], d[2])

Restoring ==
  /\ \A r \in Request : At(r, "insert") /\ req[r].v # 0 =>
       /\ VersionStored(req[r].c, req[r].v)
       /\ req[r].x = versions[req[r].c][req[r].v]
  /\ \A b \in rollbacks : VersionStored(b[1], b[2]) /\ VersionStored(b[1], b[3])
  /\ RollbackRestores

\* What r's copy says of the current version of c.
InStep(r, c) ==
  req[r].c = c =>
    /\ req[r].pc \in {"insert", "target"} => req[r].current <= configs[c].current
    /\ At(r, "write") /\ Made(r) => req[r].current = configs[c].current + 1
    /\ At(r, "write") /\ ~Made(r) => req[r].current = configs[c].current

Alone(c) ==
  \A r, s \in Request : r # s /\ Writing(r, c) /\ Writing(s, c) => ~Made(r) /\ ~Made(s)

Apart ==
  \A c \in Config : "overlap" \notin slips[c] =>
    Alone(c) /\ \A r \in Request : InStep(r, c)

IInv ==
  /\ TypeOK /\ Begun
  /\ Prefixes /\ FirstOne /\ Untouched /\ Deployed
  /\ Restoring
  /\ Apart
  /\ AcknowledgedIsCurrent /\ CurrentIsLatest

-----------------------------------------------------------------------------
Pc == {"idle", "first", "insert", "target", "write", "check"}
Content0 == Content \cup {NoContent}
RequestRow == [pc : Pc, c : Config, current : 0..MaxVersion, v : 0..MaxVersion, x : Content0]
ConfigRow == [state : {"none"}, current : {0}] \cup [state : {"live", "deleted"}, current : Version]
Slips == {"empty", "half", "overlap"}

LEMMA IdleIsTyped == Idle \in RequestRow /\ 1 \in Version /\ 1 \in 0..MaxVersion /\ 0 \in 0..MaxVersion
  BY ConfigAssumption, BoundAssumption DEF Idle, RequestRow, Pc, Content0, Version

LEMMA Begins ==
  ASSUME TypeOK, NEW r \in Request, NEW pc \in Pc, NEW c \in Config, NEW n \in 0..MaxVersion,
         NEW v \in 0..MaxVersion, NEW x \in Content0, Begin(r, pc, c, n, v, x)
  PROVE  /\ req[r].pc = "idle"
         /\ req' \in [Request -> RequestRow]
         /\ req'[r].pc = pc /\ req'[r].c = c /\ req'[r].current = n /\ req'[r].v = v /\ req'[r].x = x
         /\ \A s \in Request \ {r} : req'[s] = req[s]
  BY DEF TypeOK, Begin, RequestRow, Pc, Content0

LEMMA Ends ==
  ASSUME TypeOK, NEW r \in Request, End(r)
  PROVE  /\ req' \in [Request -> RequestRow]
         /\ req'[r] = Idle /\ req'[r].pc = "idle"
         /\ \A s \in Request \ {r} : req'[s] = req[s]
  BY IdleIsTyped DEF TypeOK, End, RequestRow, Pc, Content0, Idle

\* Versions are only ever added.
LEMMA Inserts ==
  ASSUME TypeOK, NEW c \in Config, NEW v \in Version, NEW x \in Content, InsertVersion(c, v, x)
  PROVE  /\ versions' \in [Config -> [Version -> Content0]]
         /\ ~VersionStored(c, v) /\ VersionStored(c, v)' /\ versions'[c][v] = x
         /\ \A d \in Config, w \in Version : <<d, w>> # <<c, v>> => versions'[d][w] = versions[d][w]
         /\ \A d \in Config : \A w : VersionStored(d, w)' <=> VersionStored(d, w) \/ <<d, w>> = <<c, v>>
<1>1. versions' = [versions EXCEPT ![c] = [versions[c] EXCEPT ![v] = x]]
  BY DEF InsertVersion
<1>2. versions \in [Config -> [Version -> Content0]] /\ x # NoContent
  BY ContentAssumption DEF TypeOK, Content0
<1>3. \A d \in Config, w \in Version : versions'[d][w] = IF d = c /\ w = v THEN x ELSE versions[d][w]
  BY <1>1, <1>2
<1>4. versions' \in [Config -> [Version -> Content0]]
  BY <1>1, <1>2 DEF Content0
<1>. QED
  BY <1>2, <1>3, <1>4 DEF InsertVersion, VersionFree, VersionStored

LEMMA RowOf ==
  ASSUME TypeOK, NEW c \in Config
  PROVE  /\ configs[c] \in ConfigRow
         /\ configs[c].state \in {"none", "live", "deleted"}
         /\ configs[c].state = "none" => configs[c].current = 0
         /\ configs[c].state # "none" => configs[c].current \in Version
         /\ configs[c].current \in 0..MaxVersion /\ configs[c].current \in Nat
  BY BoundAssumption DEF TypeOK, ConfigRow, Version

LEMMA RequestOf ==
  ASSUME TypeOK, NEW r \in Request
  PROVE  /\ req[r] \in RequestRow
         /\ req[r].pc \in Pc /\ req[r].c \in Config /\ req[r].x \in Content0
         /\ req[r].current \in 0..MaxVersion /\ req[r].v \in 0..MaxVersion
         /\ req[r].current \in Nat /\ req[r].v \in Nat
  BY BoundAssumption DEF TypeOK, RequestRow, Pc, Content0

\* One row is written.
LEMMA Writes ==
  ASSUME TypeOK, NEW c \in Config, NEW row \in ConfigRow, configs' = [configs EXCEPT ![c] = row]
  PROVE  /\ configs' \in [Config -> ConfigRow]
         /\ configs'[c] = row
         /\ \A d \in Config \ {c} : configs'[d] = configs[d]
  BY DEF TypeOK, ConfigRow

\* Slips are only ever added.
LEMMA Slipping ==
  ASSUME TypeOK, NEW c \in Config, NEW x \in Slips, Slip(c, x)
  PROVE  /\ slips' \in [Config -> SUBSET Slips]
         /\ x \in slips'[c]
         /\ \A d \in Config : slips[d] \subseteq slips'[d]
         /\ \A d \in Config \ {c} : slips'[d] = slips[d]
  BY DEF TypeOK, Slip, Slips

LEMMA Noting ==
  ASSUME TypeOK, NEW r \in Request, NEW c \in Config, NEW x \in Content0, NoteOverlap(r, c, x)
  PROVE  /\ slips' \in [Config -> SUBSET Slips]
         /\ Overlaps(r, c, x) => "overlap" \in slips'[c]
         /\ \A d \in Config : slips[d] \subseteq slips'[d]
         /\ \A d \in Config \ {c} : slips'[d] = slips[d]
<1>1. CASE Overlaps(r, c, x)
  BY <1>1, Slipping DEF NoteOverlap, Slips
<1>2. CASE ~Overlaps(r, c, x)
  BY <1>2 DEF NoteOverlap, TypeOK, Slips
<1>. QED
  BY <1>1, <1>2

LEMMA Acknowledging ==
  ASSUME TypeOK, NEW c \in Config, NEW v \in 0..MaxVersion, Acknowledge(c, v)
  PROVE  /\ acked' \in [Config -> 0..MaxVersion]
         /\ acked'[c] = IF acked[c] < v THEN v ELSE acked[c]
         /\ \A d \in Config \ {c} : acked'[d] = acked[d]
  BY DEF TypeOK, Acknowledge

-----------------------------------------------------------------------------
\* What each step does, said once: the request that takes it, and what it leaves
\* alone.

Tables == /\ configs \in [Config -> ConfigRow]
          /\ versions \in [Config -> [Version -> Content0]]
          /\ req \in [Request -> RequestRow]
Notes == /\ deployments \subseteq Config \X (0..MaxVersion)
         /\ acked \in [Config -> 0..MaxVersion]
         /\ rollbacks \subseteq Config \X Version \X Version
         /\ slips \in [Config -> SUBSET Slips]

LEMMA Typed == TypeOK <=> Tables /\ Notes
  BY DEF TypeOK, Tables, Notes, ConfigRow, RequestRow, Pc, Content0, Slips

LEMMA TypedStep == TypeOK' <=> Tables' /\ Notes'
  BY DEF TypeOK, Tables, Notes, ConfigRow, RequestRow, Pc, Content0, Slips

LEMMA TypesCreate ==
  ASSUME TypeOK, NEW r \in Request, NEW c \in Config, NEW x \in Content, CreateConfig(r, c, x)
  PROVE  TypeOK'
<1>1. req' \in [Request -> RequestRow]
  BY Begins, IdleIsTyped DEF CreateConfig, Pc, Content0
<1>2. configs' \in [Config -> ConfigRow]
  BY IdleIsTyped DEF CreateConfig, InsertConfig, TypeOK, ConfigRow
<1>. QED
  BY <1>1, <1>2, Typed, TypedStep DEF CreateConfig, Tables, Notes, history

LEMMA TypesFirst ==
  ASSUME TypeOK, Begun, NEW r \in Request, CreateFirstVersion(r)
  PROVE  TypeOK'
<1>1. req' \in [Request -> RequestRow]
  BY Ends DEF CreateFirstVersion
<1>2. req[r].c \in Config /\ req[r].x \in Content
  BY RequestOf DEF Begun, CreateFirstVersion, At
<1>3. versions' \in [Config -> [Version -> Content0]]
  BY <1>2, Inserts, IdleIsTyped DEF CreateFirstVersion
<1>4. acked' \in [Config -> 0..MaxVersion]
  BY <1>2, Acknowledging, IdleIsTyped DEF CreateFirstVersion
<1>. QED
  BY <1>1, <1>3, <1>4, Typed, TypedStep DEF CreateFirstVersion, Tables, Notes

LEMMA TypesBegin ==
  ASSUME TypeOK, NEW r \in Request, NEW c \in Config,
         \/ \E x \in Content : UpdateContent(r, c, x)
         \/ UpdateDescription(r, c)
         \/ \E v \in Version : RollbackConfig(r, c, v)
         \/ \E v \in 0..MaxVersion : CreateDeployment(r, c, v)
  PROVE  TypeOK'
<1>. configs[c].current \in 0..MaxVersion /\ NoContent \in Content0
  BY RowOf DEF Content0
<1>1. ASSUME NEW x \in Content, UpdateContent(r, c, x) PROVE TypeOK'
  <2>1. req' \in [Request -> RequestRow]
    BY <1>1, Begins, IdleIsTyped DEF UpdateContent, Pc, Content0
  <2>. QED
    BY <1>1, <2>1, Typed, TypedStep DEF UpdateContent, Tables, Notes, rows, history
<1>2. ASSUME UpdateDescription(r, c) PROVE TypeOK'
  <2>1. req' \in [Request -> RequestRow]
    BY <1>2, Begins, IdleIsTyped DEF UpdateDescription, Pc
  <2>2. slips' \in [Config -> SUBSET Slips]
    BY <1>2, Noting DEF UpdateDescription
  <2>. QED
    BY <1>2, <2>1, <2>2, Typed, TypedStep DEF UpdateDescription, Tables, Notes, rows
<1>3. ASSUME NEW v \in Version, RollbackConfig(r, c, v) PROVE TypeOK'
  <2>0. v \in 0..MaxVersion
    BY BoundAssumption DEF Version
  <2>1. req' \in [Request -> RequestRow]
    BY <1>3, <2>0, Begins DEF RollbackConfig, Pc
  <2>. QED
    BY <1>3, <2>1, Typed, TypedStep DEF RollbackConfig, Tables, Notes, rows, history
<1>4. ASSUME NEW v \in 0..MaxVersion, CreateDeployment(r, c, v) PROVE TypeOK'
  <2>0. (IF v = 0 THEN configs[c].current ELSE v) \in 0..MaxVersion
    OBVIOUS
  <2>1. req' \in [Request -> RequestRow]
    BY <1>4, <2>0, Begins, IdleIsTyped DEF CreateDeployment, Pc
  <2>. QED
    BY <1>4, <2>1, Typed, TypedStep DEF CreateDeployment, Tables, Notes, rows, history
<1>. QED
  BY <1>1, <1>2, <1>3, <1>4

LEMMA Reading ==
  ASSUME TypeOK, NEW r \in Request, ReadTarget(r)
  PROVE  /\ req' \in [Request -> RequestRow]
         /\ At(r, "target") /\ VersionStored(req[r].c, req[r].v)
         /\ req'[r].pc = "insert" /\ req'[r].c = req[r].c /\ req'[r].current = req[r].current
         /\ req'[r].v = req[r].v /\ req'[r].x = versions[req[r].c][req[r].v] /\ req'[r].x \in Content
         /\ \A s \in Request \ {r} : req'[s] = req[s]
<1>. DEFINE x == versions[req[r].c][req[r].v]
<1>1. req[r] \in RequestRow /\ req[r].c \in Config
  BY RequestOf
<1>2. x \in Content /\ At(r, "target") /\ VersionStored(req[r].c, req[r].v)
  BY <1>1 DEF ReadTarget, VersionStored, TypeOK
<1>3. req' = [req EXCEPT ![r] = [req[r] EXCEPT !.pc = "insert", !.x = x]]
  BY DEF ReadTarget, TargetContent
<1>4. [req[r] EXCEPT !.pc = "insert", !.x = x] \in RequestRow
  BY <1>1, <1>2 DEF RequestRow, Pc, Content0
<1>5. req \in [Request -> RequestRow]
  BY Typed DEF Tables
<1>. QED
  BY <1>1, <1>2, <1>3, <1>4, <1>5 DEF RequestRow

LEMMA Storing ==
  ASSUME TypeOK, Begun, NEW r \in Request, StoreVersion(r)
  PROVE  /\ At(r, "insert") /\ req[r].c \in Config /\ req[r].x \in Content /\ Made(r)
         /\ req[r].current \in Nat /\ req[r].current > 0
         /\ req[r].current + 1 \in Version
         /\ InsertVersion(req[r].c, req[r].current + 1, req[r].x)
         /\ req' \in [Request -> RequestRow]
         /\ req'[r].pc = "write" /\ req'[r].c = req[r].c /\ req'[r].current = req[r].current + 1
         /\ req'[r].v = 0 /\ req'[r].x = req[r].x
         /\ \A s \in Request \ {r} : req'[s] = req[s]
<1>1. req[r] \in RequestRow /\ req[r].c \in Config /\ req[r].current \in Nat
  BY RequestOf
<1>2. At(r, "insert") /\ req[r].x \in Content /\ req[r].current > 0 /\ req[r].current < MaxVersion
  BY DEF StoreVersion, Begun, At, Copies
<1>3. req[r].current + 1 \in Version
  BY <1>1, <1>2, BoundAssumption DEF Version
<1>4. req' = [req EXCEPT ![r] = [req[r] EXCEPT !.pc = "write", !.current = req[r].current + 1, !.v = 0]]
  BY DEF StoreVersion
<1>5. [req[r] EXCEPT !.pc = "write", !.current = req[r].current + 1, !.v = 0] \in RequestRow
  <2>1. req[r].current + 1 \in 0..MaxVersion /\ 0 \in 0..MaxVersion
    BY <1>3, BoundAssumption DEF Version
  <2>. QED
    BY <1>1, <2>1 DEF RequestRow, Pc
<1>6. req \in [Request -> RequestRow]
  BY Typed DEF Tables
<1>7. Made(r)
  BY <1>2, ContentAssumption DEF Made
<1>. QED
  BY <1>1, <1>2, <1>3, <1>4, <1>5, <1>6, <1>7 DEF RequestRow, StoreVersion

LEMMA Writings ==
  ASSUME TypeOK, Begun, NEW r \in Request, WriteRow(r)
  PROVE  /\ At(r, "write") /\ req[r].c \in Config
         /\ req[r].current \in Version /\ Found(req[r].c)
         /\ configs' \in [Config -> ConfigRow]
         /\ configs'[req[r].c] = [state |-> "live", current |-> req[r].current]
         /\ \A d \in Config \ {req[r].c} : configs'[d] = configs[d]
<1>1. req[r].c \in Config /\ req[r].current \in 0..MaxVersion
  BY RequestOf
<1>2. At(r, "write") /\ req[r].current > 0
  BY DEF WriteRow, Begun, At, Copies
<1>3. req[r].current \in Version
  BY <1>1, <1>2, BoundAssumption DEF Version
<1>4. [state |-> "live", current |-> req[r].current] \in ConfigRow
  BY <1>3 DEF ConfigRow
<1>5. Found(req[r].c) /\ configs' = [configs EXCEPT ![req[r].c] = [state |-> "live", current |-> req[r].current]]
  BY DEF WriteRow, UpdateRow, Updatable, Found, Written
<1>. QED
  BY <1>1, <1>2, <1>3, <1>4, <1>5, Writes

LEMMA Deleting ==
  ASSUME TypeOK, NEW c \in Config, DeleteConfig(c)
  PROVE  /\ configs' \in [Config -> ConfigRow]
         /\ configs[c].state = "live"
         /\ configs'[c].state = "deleted" /\ configs'[c].current = configs[c].current
         /\ \A d \in Config \ {c} : configs'[d] = configs[d]
<1>1. configs[c] \in ConfigRow /\ configs[c].state = "live"
  BY RowOf DEF DeleteConfig, Found
<1>2. [configs[c] EXCEPT !.state = "deleted"] \in ConfigRow
  BY <1>1 DEF ConfigRow
<1>3. configs' = [configs EXCEPT ![c] = [configs[c] EXCEPT !.state = "deleted"]]
  BY DEF DeleteConfig, DeleteRow
<1>. QED
  BY <1>1, <1>2, <1>3, Writes DEF ConfigRow

LEMMA Giving ==
  ASSUME TypeOK, NEW r \in Request, Abandon(r)
  PROVE  /\ slips' \in [Config -> SUBSET Slips]
         /\ \A d \in Config : slips[d] \subseteq slips'[d]
         /\ At(r, "first") => "empty" \in slips'[req[r].c]
         /\ At(r, "write") /\ Made(r) => "half" \in slips'[req[r].c]
<1>0. req[r].c \in Config
  BY RequestOf
<1>1. CASE At(r, "first")
  BY <1>0, <1>1, Slipping DEF Abandon, At, Slips
<1>2. CASE At(r, "write") /\ Made(r)
  BY <1>0, <1>2, Slipping DEF Abandon, At, Slips
<1>3. CASE ~At(r, "first") /\ ~(At(r, "write") /\ Made(r))
  BY <1>3, Typed DEF Abandon, Notes
<1>. QED
  BY <1>1, <1>2, <1>3

LEMMA TypesGoOn ==
  ASSUME TypeOK, Begun, NEW r \in Request,
         \/ ReadTarget(r) \/ StoreVersion(r) \/ StoreVersionFails(r) \/ WriteRow(r)
         \/ StoreDeployment(r) \/ Abandon(r)
  PROVE  TypeOK'
<1>. req[r].c \in Config /\ req[r].x \in Content0 /\ req[r].v \in 0..MaxVersion
  BY RequestOf
<1>1. CASE ReadTarget(r)
  BY <1>1, Reading, Typed, TypedStep DEF ReadTarget, Tables, Notes, rows, history
<1>2. CASE StoreVersion(r)
  <2>1. req' \in [Request -> RequestRow] /\ versions' \in [Config -> [Version -> Content0]]
    BY <1>2, Storing, Inserts
  <2>2. slips' \in [Config -> SUBSET Slips]
    BY <1>2, Noting DEF StoreVersion
  <2>3. req[r].v # 0 => req[r].v \in Version
    BY BoundAssumption DEF Version
  <2>4. rollbacks' \subseteq Config \X Version \X Version
    <3>1. rollbacks' \subseteq rollbacks
             \cup {<<req[r].c, req[r].current + 1, req[r].v>> : w \in {w \in {0} : req[r].v # 0}}
      BY <1>2 DEF StoreVersion
    <3>2. req[r].c \in Config /\ req[r].current + 1 \in Version
      BY <1>2, Storing
    <3>. QED
      BY <2>3, <3>1, <3>2, Typed DEF Notes
  <2>. QED
    BY <1>2, <2>1, <2>2, <2>4, Typed, TypedStep DEF StoreVersion, Tables, Notes
<1>3. CASE StoreVersionFails(r)
  BY <1>3, Ends, Typed, TypedStep DEF StoreVersionFails, Tables, Notes, rows, history
<1>4. CASE WriteRow(r)
  <2>1. acked' \in [Config -> 0..MaxVersion]
    <3>1. req[r].current \in 0..MaxVersion
      BY RequestOf
    <3>. QED
      BY <1>4, <3>1, Acknowledging, Typed DEF WriteRow, Notes
  <2>2. configs' \in [Config -> ConfigRow] /\ req' \in [Request -> RequestRow]
    BY <1>4, Writings, Ends DEF WriteRow
  <2>. QED
    BY <1>4, <2>1, <2>2, Typed, TypedStep DEF WriteRow, Tables, Notes
<1>5. CASE StoreDeployment(r)
  <2>1. deployments' \subseteq Config \X (0..MaxVersion)
    BY <1>5, Typed DEF StoreDeployment, InsertDeployment, Notes
  <2>. QED
    BY <1>5, <2>1, Ends, Typed, TypedStep DEF StoreDeployment, Tables, Notes, rows, history
<1>6. CASE Abandon(r)
  BY <1>6, Ends, Giving, Typed, TypedStep DEF Abandon, Tables, Notes, rows
<1>. QED
  BY <1>1, <1>2, <1>3, <1>4, <1>5, <1>6

LEMMA TypesStep ==
  ASSUME TypeOK, Begun, [Next]_vars
  PROVE  TypeOK'
<1>1. ASSUME NEW c \in Config, DeleteConfig(c) PROVE TypeOK'
  BY <1>1, Deleting, Typed, TypedStep DEF DeleteConfig, Tables, Notes, history
<1>2. CASE UNCHANGED vars
  BY <1>2, Typed, TypedStep DEF vars, rows, history, Tables, Notes
<1>. QED
  BY <1>1, <1>2, TypesCreate, TypesFirst, TypesBegin, TypesGoOn DEF Next

-----------------------------------------------------------------------------
\* The tables: versions stay as they are stored, and configurations that were
\* created stay created; deleted ones stay as they are.

Kept ==
  /\ \A c \in Config : configs[c].state # "none" => configs'[c].state # "none"
  /\ \A c \in Config : configs[c].state = "deleted" => configs'[c] = configs[c]
  /\ \A c \in Config : \A v : VersionStored(c, v) => VersionStored(c, v)' /\ versions'[c][v] = versions[c][v]

LEMMA Keeping ==
  ASSUME TypeOK, Begun, [Next]_vars
  PROVE  Kept
<1>1. ASSUME UNCHANGED <<configs, versions>> PROVE Kept
  BY <1>1 DEF Kept, VersionStored
<1>2. ASSUME NEW r \in Request, NEW c \in Config, NEW x \in Content, CreateConfig(r, c, x) PROVE Kept
  <2>1. \A d \in Config \ {c} : configs'[d] = configs[d]
    BY <1>2, Typed DEF CreateConfig, InsertConfig, Tables
  <2>. QED
    BY <1>2, <2>1 DEF CreateConfig, Kept, VersionStored
<1>3. ASSUME NEW r \in Request, CreateFirstVersion(r) PROVE Kept
  <2>1. req[r].c \in Config /\ req[r].x \in Content /\ InsertVersion(req[r].c, 1, req[r].x)
    BY <1>3, RequestOf DEF CreateFirstVersion, Begun, At
  <2>. QED
    BY <1>3, <2>1, Inserts, IdleIsTyped DEF CreateFirstVersion, Kept, VersionStored
<1>4. ASSUME NEW r \in Request, StoreVersion(r) PROVE Kept
  <2>1. /\ InsertVersion(req[r].c, req[r].current + 1, req[r].x) /\ configs' = configs
        /\ req[r].c \in Config /\ req[r].current + 1 \in Version /\ req[r].x \in Content
    BY <1>4, Storing DEF StoreVersion
  <2>2. \A d \in Config : \A v : VersionStored(d, v) => VersionStored(d, v)' /\ versions'[d][v] = versions[d][v]
    BY <2>1, Inserts DEF VersionStored
  <2>. QED
    BY <2>1, <2>2 DEF Kept
<1>5. ASSUME NEW r \in Request, WriteRow(r) PROVE Kept
  <2>1. versions' = versions
    BY <1>5 DEF WriteRow
  <2>2. \A d \in Config : \A v : VersionStored(d, v) => VersionStored(d, v)' /\ versions'[d][v] = versions[d][v]
    BY <2>1 DEF VersionStored
  <2>3. \A d \in Config : d = req[r].c \/ configs'[d] = configs[d]
    BY <1>5, Writings
  <2>4. Found(req[r].c) /\ configs'[req[r].c] = [state |-> "live", current |-> req[r].current]
    BY <1>5, Writings
  <2>. QED
    BY <2>2, <2>3, <2>4 DEF Kept, Found
<1>6. ASSUME NEW c \in Config, DeleteConfig(c) PROVE Kept
  BY <1>6, Deleting DEF DeleteConfig, Kept, VersionStored
<1>7. ASSUME NEW r \in Request, NEW c \in Config,
             \/ \E x \in Content : UpdateContent(r, c, x)
             \/ UpdateDescription(r, c)
             \/ \E v \in Version : RollbackConfig(r, c, v)
             \/ \E v \in 0..MaxVersion : CreateDeployment(r, c, v)
      PROVE  Kept
  BY <1>1, <1>7 DEF UpdateContent, UpdateDescription, RollbackConfig, CreateDeployment, rows
<1>8. ASSUME NEW r \in Request,
             ReadTarget(r) \/ StoreVersionFails(r) \/ StoreDeployment(r) \/ Abandon(r)
      PROVE  Kept
  BY <1>1, <1>8 DEF ReadTarget, StoreVersionFails, StoreDeployment, Abandon, rows
<1>9. CASE UNCHANGED vars
  BY <1>1, <1>9 DEF vars, rows
<1>. QED
  BY <1>2, <1>3, <1>4, <1>5, <1>6, <1>7, <1>8, <1>9 DEF Next

\* Requests move one at a time.
Moves(r) == \A s \in Request \ {r} : req'[s] = req[s]

BegunBy(r) ==
  /\ ~At(r, "idle") => configs[req[r].c].state # "none"
  /\ req[r].pc \in Copies => req[r].current > 0
  /\ req[r].pc \in {"insert", "first"} => req[r].x \in Content

LEMMA BegunMoves ==
  ASSUME TypeOK, Begun, Kept, NEW r \in Request, Moves(r), BegunBy(r)'
  PROVE  Begun'
<1>1. ASSUME NEW s \in Request, s # r PROVE BegunBy(s)'
  BY <1>1, RequestOf DEF Moves, Begun, BegunBy, Kept, At
<1>. QED
  BY <1>1 DEF Begun, BegunBy

LEMMA BegunStep ==
  ASSUME TypeOK, Begun, [Next]_vars
  PROVE  Begun'
<1>. Kept
  BY Keeping
<1>1. ASSUME NEW r \in Request, End(r) PROVE Begun'
  BY <1>1, Ends, BegunMoves DEF Moves, BegunBy, At, Copies
<1>2. ASSUME NEW r \in Request, NEW c \in Config, NEW x \in Content,
             CreateConfig(r, c, x) \/ UpdateContent(r, c, x)
      PROVE  Begun'
  <2>0. configs[c].current \in 0..MaxVersion /\ 1 \in 0..MaxVersion /\ 0 \in 0..MaxVersion /\ x \in Content0
    BY RowOf, IdleIsTyped DEF Content0
  <2>1. CASE CreateConfig(r, c, x)
    <3>1. configs'[c].state # "none"
      BY <2>1, Typed DEF CreateConfig, InsertConfig, Tables
    <3>2. Begin(r, "first", c, 1, 1, x) /\ "first" \in Pc
      BY <2>1 DEF CreateConfig, Pc
    <3>3. req'[r].pc = "first" /\ req'[r].c = c /\ req'[r].x = x /\ Moves(r)
      BY <2>0, <3>2, Begins DEF Moves
    <3>. QED
      BY <3>1, <3>3, BegunMoves DEF BegunBy, Copies
  <2>2. CASE UpdateContent(r, c, x)
    <3>1. Begin(r, "insert", c, configs[c].current, 0, x) /\ "insert" \in Pc
      BY <2>2 DEF UpdateContent, Pc
    <3>2. req'[r].pc = "insert" /\ req'[r].c = c /\ req'[r].x = x /\ req'[r].current = configs[c].current /\ Moves(r)
      BY <2>0, <3>1, Begins DEF Moves
    <3>3. configs[c].state = "live" /\ configs[c].current > 0
      BY <2>2, RowOf DEF UpdateContent, Found, Version
    <3>4. configs' = configs
      BY <2>2 DEF UpdateContent, rows
    <3>. QED
      BY <3>2, <3>3, <3>4, BegunMoves DEF BegunBy
  <2>. QED
    BY <1>2, <2>1, <2>2
<1>3. ASSUME NEW r \in Request, NEW c \in Config,
             \/ UpdateDescription(r, c)
             \/ \E v \in Version : RollbackConfig(r, c, v)
             \/ \E v \in 0..MaxVersion : CreateDeployment(r, c, v)
      PROVE  Begun'
  <2>1. configs[c].state = "live" /\ configs[c].current > 0 /\ configs' = configs
    BY <1>3, RowOf DEF UpdateDescription, RollbackConfig, CreateDeployment, Found, Version, rows
  <2>2. configs[c].current \in 0..MaxVersion /\ NoContent \in Content0 /\ 0 \in 0..MaxVersion
    BY RowOf, IdleIsTyped DEF Content0
  <2>3. PICK pc \in {"write", "target", "check"}, n \in {0, configs[c].current}, v \in 0..MaxVersion :
          Begin(r, pc, c, n, v, NoContent) /\ (pc # "check" => n = configs[c].current)
    BY <1>3, <2>2 DEF UpdateDescription, RollbackConfig, CreateDeployment, Version
  <2>4. req'[r].pc = pc /\ req'[r].c = c /\ req'[r].current = n /\ Moves(r)
    BY <2>2, <2>3, Begins DEF Moves, Pc
  <2>. QED
    BY <2>1, <2>3, <2>4, BegunMoves DEF BegunBy, Copies
<1>4. ASSUME NEW r \in Request, ReadTarget(r) PROVE Begun'
  <2>1. configs' = configs /\ configs[req[r].c].state # "none" /\ req[r].current > 0
    BY <1>4 DEF ReadTarget, Begun, At, Copies, rows
  <2>. QED
    BY <1>4, <2>1, Reading, BegunMoves DEF Moves, BegunBy
<1>5. ASSUME NEW r \in Request, StoreVersion(r) PROVE Begun'
  <2>1. configs' = configs /\ configs[req[r].c].state # "none"
    BY <1>5 DEF StoreVersion, Begun, At
  <2>. QED
    BY <1>5, <2>1, Storing, BegunMoves DEF Moves, BegunBy
<1>6. ASSUME NEW c \in Config, DeleteConfig(c) PROVE Begun'
  BY <1>6, RequestOf DEF DeleteConfig, Begun, Kept, At
<1>7. CASE UNCHANGED vars
  BY <1>7 DEF vars, rows, Begun, At
<1>. QED
  BY <1>1, <1>2, <1>3, <1>4, <1>5, <1>6, <1>7
  DEF Next, CreateFirstVersion, StoreVersionFails, WriteRow, StoreDeployment, Abandon

-----------------------------------------------------------------------------
\* Where what a step leaves comes from: a stored version, a current version, a
\* request's copy.

LEMMA StoredBy ==
  ASSUME TypeOK, Begun, [Next]_vars, NEW c \in Config, NEW v, VersionStored(c, v)', ~VersionStored(c, v)
  PROVE  \E r \in Request :
           /\ req[r].c = c
           /\ \/ CreateFirstVersion(r) /\ v = 1
              \/ StoreVersion(r) /\ v = req[r].current + 1
<1>1. versions' # versions
  BY DEF VersionStored
<1>2. PICK r \in Request : CreateFirstVersion(r) \/ StoreVersion(r)
  BY <1>1 DEF Next, vars, rows, history, CreateConfig, UpdateContent, UpdateDescription, RollbackConfig,
              CreateDeployment, ReadTarget, StoreVersionFails, WriteRow, StoreDeployment, Abandon, DeleteConfig
<1>3. CASE CreateFirstVersion(r)
  <2>1. req[r].c \in Config /\ req[r].x \in Content /\ InsertVersion(req[r].c, 1, req[r].x)
    BY <1>3, RequestOf DEF CreateFirstVersion, Begun, At
  <2>2. <<c, v>> = <<req[r].c, 1>>
    BY <2>1, Inserts, IdleIsTyped
  <2>. QED
    BY <1>3, <2>2
<1>4. CASE StoreVersion(r)
  <2>1. <<c, v>> = <<req[r].c, req[r].current + 1>>
    BY <1>4, Storing, Inserts
  <2>. QED
    BY <1>4, <2>1
<1>. QED
  BY <1>2, <1>3, <1>4

LEMMA CurrentBy ==
  ASSUME TypeOK, Begun, [Next]_vars, NEW c \in Config
  PROVE  \/ configs'[c].current = configs[c].current
         \/ configs[c].state = "none" /\ configs'[c].current = 1
         \/ \E r \in Request : WriteRow(r) /\ req[r].c = c /\ configs'[c].current = req[r].current
<1>. DEFINE G ==
       \/ configs'[c].current = configs[c].current
       \/ configs[c].state = "none" /\ configs'[c].current = 1
       \/ \E r \in Request : WriteRow(r) /\ req[r].c = c /\ configs'[c].current = req[r].current
<1>1. ASSUME NEW r \in Request, NEW d \in Config, NEW x \in Content, CreateConfig(r, d, x) PROVE G
  <2>1. configs' = [configs EXCEPT ![d] = [state |-> "live", current |-> 1]] /\ configs[d].state = "none"
    BY <1>1 DEF CreateConfig, InsertConfig
  <2>2. configs'[c] = IF c = d THEN [state |-> "live", current |-> 1] ELSE configs[c]
    BY <2>1, Typed DEF Tables
  <2>. QED
    BY <2>1, <2>2
<1>2. ASSUME NEW r \in Request, WriteRow(r) PROVE G
  <2>1. CASE c = req[r].c
    <3>1. configs'[c] = [state |-> "live", current |-> req[r].current]
      BY <1>2, <2>1, Writings
    <3>. QED
      BY <1>2, <2>1, <3>1
  <2>2. CASE c # req[r].c
    BY <1>2, <2>2, Writings
  <2>. QED
    BY <2>1, <2>2
<1>3. ASSUME NEW d \in Config, DeleteConfig(d) PROVE G
  BY <1>3, Deleting
<1>4. CASE configs' = configs
  BY <1>4
<1>. QED
  BY <1>1, <1>2, <1>3, <1>4
  DEF Next, vars, rows, CreateFirstVersion, UpdateContent, UpdateDescription, RollbackConfig,
      CreateDeployment, ReadTarget, StoreVersion, StoreVersionFails, StoreDeployment, Abandon

CopyKept(r) == req[r].pc \in Copies /\ req'[r].c = req[r].c /\ req'[r].current = req[r].current
CopyTaken(r) == Found(req'[r].c) /\ req'[r].current = configs[req'[r].c].current /\ configs' = configs

LEMMA CopyBy ==
  ASSUME TypeOK, Begun, [Next]_vars, NEW r \in Request, req'[r].pc \in Copies
  PROVE  \/ StoreVersion(r)
         \/ req'[r] = req[r]
         \/ ReadTarget(r) /\ CopyKept(r)
         \/ CopyTaken(r) /\ At(r, "idle")
<1>. DEFINE G ==
       \/ StoreVersion(r)
       \/ req'[r] = req[r]
       \/ ReadTarget(r) /\ CopyKept(r)
       \/ CopyTaken(r) /\ At(r, "idle")
<1>1. ASSUME NEW s \in Request, End(s) PROVE G
  BY <1>1, Ends DEF Copies
<1>2. ASSUME NEW s \in Request, NEW c \in Config, NEW x \in Content, CreateConfig(s, c, x) PROVE G
  <2>1. Begin(s, "first", c, 1, 1, x) /\ "first" \in Pc /\ x \in Content0
    BY <1>2 DEF CreateConfig, Pc, Content0
  <2>2. req'[s].pc = "first" /\ (r # s => req'[r] = req[r])
    BY <2>1, Begins, IdleIsTyped
  <2>. QED
    BY <2>2 DEF Copies
<1>3. ASSUME NEW s \in Request, NEW c \in Config,
             \/ \E x \in Content : UpdateContent(s, c, x)
             \/ UpdateDescription(s, c)
             \/ \E v \in Version : RollbackConfig(s, c, v)
             \/ \E v \in 0..MaxVersion : CreateDeployment(s, c, v)
      PROVE  G
  <2>1. Found(c) /\ configs' = configs
    BY <1>3 DEF UpdateContent, UpdateDescription, RollbackConfig, CreateDeployment, rows
  <2>2. configs[c].current \in 0..MaxVersion /\ 0 \in 0..MaxVersion
    BY RowOf, IdleIsTyped
  <2>3. PICK pc \in {"insert", "write", "target", "check"}, n \in {0, configs[c].current}, v \in 0..MaxVersion,
             x \in Content0 :
          Begin(s, pc, c, n, v, x) /\ (pc # "check" => n = configs[c].current)
    BY <1>3, <2>2 DEF UpdateContent, UpdateDescription, RollbackConfig, CreateDeployment, Version, Content0
  <2>4. req[s].pc = "idle" /\ req'[s].pc = pc /\ req'[s].c = c /\ req'[s].current = n /\ (r # s => req'[r] = req[r])
    BY <2>2, <2>3, Begins DEF Pc
  <2>. QED
    BY <2>1, <2>3, <2>4 DEF CopyTaken, Copies, At
<1>4. ASSUME NEW s \in Request, ReadTarget(s) PROVE G
  BY <1>4, Reading DEF CopyKept, At, Copies
<1>5. ASSUME NEW s \in Request, StoreVersion(s) PROVE G
  BY <1>5, Storing
<1>6. CASE req' = req
  BY <1>6
<1>. QED
  BY <1>1, <1>2, <1>3, <1>4, <1>5, <1>6
  DEF Next, vars, CreateFirstVersion, StoreVersionFails, WriteRow, StoreDeployment, Abandon, DeleteConfig

\* A request that moves takes a step of its own.
LEMMA MovedBy ==
  ASSUME TypeOK, Begun, [Next]_vars, NEW r \in Request, req'[r] # req[r], ~At(r, "idle")
  PROVE  \/ CreateFirstVersion(r) \/ ReadTarget(r) \/ StoreVersion(r) \/ StoreVersionFails(r)
         \/ WriteRow(r) \/ StoreDeployment(r) \/ Abandon(r)
<1>. DEFINE G == \/ CreateFirstVersion(r) \/ ReadTarget(r) \/ StoreVersion(r) \/ StoreVersionFails(r)
                 \/ WriteRow(r) \/ StoreDeployment(r) \/ Abandon(r)
<1>1. ASSUME NEW q \in Request, NEW pc \in Pc, NEW c \in Config, NEW n \in 0..MaxVersion,
             NEW v \in 0..MaxVersion, NEW x \in Content0, Begin(q, pc, c, n, v, x)
      PROVE  FALSE
  BY <1>1, Begins DEF At
<1>2. ASSUME NEW q \in Request, NEW c \in Config, NEW x \in Content,
             CreateConfig(q, c, x) \/ UpdateContent(q, c, x)
      PROVE  FALSE
  <2>1. /\ {"first", "insert"} \subseteq Pc /\ {0, 1, configs[c].current} \subseteq 0..MaxVersion
        /\ x \in Content0
    BY RowOf, IdleIsTyped DEF Pc, Content0
  <2>. QED
    BY <1>1, <1>2, <2>1 DEF CreateConfig, UpdateContent
<1>3. ASSUME NEW q \in Request, NEW c \in Config,
             \/ UpdateDescription(q, c)
             \/ \E v \in Version : RollbackConfig(q, c, v)
             \/ \E v \in 0..MaxVersion : CreateDeployment(q, c, v)
      PROVE  FALSE
  <2>1. /\ {"write", "target", "check"} \subseteq Pc /\ {0, configs[c].current} \subseteq 0..MaxVersion
        /\ NoContent \in Content0 /\ Version \subseteq 0..MaxVersion
    BY RowOf, IdleIsTyped, BoundAssumption DEF Pc, Content0, Version
  <2>. QED
    BY <1>1, <1>3, <2>1 DEF UpdateDescription, RollbackConfig, CreateDeployment
<1>4. ASSUME NEW q \in Request, q # r,
             \/ CreateFirstVersion(q) \/ ReadTarget(q) \/ StoreVersion(q) \/ StoreVersionFails(q)
             \/ WriteRow(q) \/ StoreDeployment(q) \/ Abandon(q)
      PROVE  FALSE
  <2>1. End(q) \/ ReadTarget(q) \/ StoreVersion(q)
    BY <1>4 DEF CreateFirstVersion, StoreVersionFails, WriteRow, StoreDeployment, Abandon
  <2>. QED
    BY <1>4, <2>1, Ends, Reading, Storing
<1>5. req' # req
  OBVIOUS
<1>. QED
  BY <1>2, <1>3, <1>4, <1>5 DEF Next, vars, DeleteConfig

LEMMA CreatedBy ==
  ASSUME TypeOK, Begun, [Next]_vars, NEW c \in Config,
         configs[c].state = "none", configs'[c].state # "none"
  PROVE  \E r \in Request, x \in Content : CreateConfig(r, c, x)
<1>1. configs' # configs
  OBVIOUS
<1>2. ASSUME NEW r \in Request, WriteRow(r) PROVE FALSE
  BY <1>2, Writings DEF Found
<1>3. ASSUME NEW d \in Config, DeleteConfig(d) PROVE FALSE
  BY <1>3, Deleting
<1>4. ASSUME NEW r \in Request, NEW d \in Config, NEW x \in Content, CreateConfig(r, d, x) PROVE c = d
  BY <1>4, Typed DEF CreateConfig, InsertConfig, Tables
<1>. QED
  BY <1>1, <1>2, <1>3, <1>4
  DEF Next, vars, rows, CreateFirstVersion, UpdateContent, UpdateDescription, RollbackConfig,
      CreateDeployment, ReadTarget, StoreVersion, StoreVersionFails, StoreDeployment, Abandon

LEMMA SlipsGrow ==
  ASSUME TypeOK, Begun, [Next]_vars, NEW c \in Config
  PROVE  slips[c] \subseteq slips'[c]
<1>1. ASSUME NEW r \in Request, NEW d \in Config, UpdateDescription(r, d) PROVE slips[c] \subseteq slips'[c]
  <2>. NoContent \in Content0
    BY DEF Content0
  <2>. QED
    BY <1>1, Noting DEF UpdateDescription
<1>2. ASSUME NEW r \in Request, StoreVersion(r) PROVE slips[c] \subseteq slips'[c]
  <2>. req[r].c \in Config /\ req[r].x \in Content0
    BY RequestOf
  <2>. QED
    BY <1>2, Noting DEF StoreVersion
<1>3. ASSUME NEW r \in Request, Abandon(r) PROVE slips[c] \subseteq slips'[c]
  BY <1>3, Giving
<1>. QED
  BY <1>1, <1>2, <1>3
  DEF Next, vars, history, CreateConfig, UpdateContent, RollbackConfig, CreateDeployment, DeleteConfig,
      CreateFirstVersion, ReadTarget, StoreVersionFails, WriteRow, StoreDeployment

-----------------------------------------------------------------------------
\* The versions and what refers to them.

LEMMA PrefixesStep ==
  ASSUME TypeOK, Begun, Prefixes, [Next]_vars
  PROVE  Prefixes'
<1>. Kept
  BY Keeping
<1>1. ASSUME NEW c \in Config, NEW v \in Version, VersionStored(c, v)', NEW w \in 2..v
      PROVE  VersionStored(c, w)'
  <2>1. CASE VersionStored(c, v)
    BY <1>1, <2>1 DEF Prefixes, Prefix, Kept
  <2>2. CASE ~VersionStored(c, v)
    <3>1. PICK r \in Request :
            req[r].c = c /\ (v = 1 \/ (StoreVersion(r) /\ v = req[r].current + 1))
      BY <1>1, <2>2, StoredBy
    <3>2. CASE v = 1
      BY <3>2
    <3>3. CASE StoreVersion(r) /\ v = req[r].current + 1
      <4>1. req[r].pc \in Copies /\ req[r].current \in Nat
        BY <3>3, Storing DEF At, Copies
      <4>2. w = v \/ w \in 2..req[r].current
        BY <3>3, <4>1
      <4>. QED
        BY <1>1, <3>1, <4>1, <4>2 DEF Prefixes, Prefix, Kept
    <3>. QED
      BY <3>1, <3>2, <3>3
  <2>. QED
    BY <2>1, <2>2
<1>2. ASSUME NEW c \in Config, NEW w \in 2..configs'[c].current PROVE VersionStored(c, w)'
  <2>1. CASE configs'[c].current = configs[c].current
    BY <1>2, <2>1 DEF Prefixes, Prefix, Kept
  <2>2. CASE configs'[c].current = 1
    BY <1>2, <2>2
  <2>3. ASSUME NEW r \in Request, WriteRow(r), req[r].c = c, configs'[c].current = req[r].current
        PROVE  VersionStored(c, w)'
    <3>1. req[r].pc \in Copies
      BY <2>3, Writings DEF At, Copies
    <3>. QED
      BY <1>2, <2>3, <3>1 DEF Prefixes, Prefix, Kept
  <2>. QED
    BY <2>1, <2>2, <2>3, CurrentBy
<1>3. ASSUME NEW r \in Request, req'[r].pc \in Copies, NEW c \in Config, req'[r].c = c,
             NEW w \in 2..req'[r].current
      PROVE  VersionStored(c, w)'
  <2>1. CASE StoreVersion(r)
    <3>1. /\ req[r].pc \in Copies /\ req[r].current \in Nat /\ req'[r].current = req[r].current + 1
          /\ req[r].c = c
          /\ InsertVersion(c, req[r].current + 1, req[r].x)
          /\ req[r].current + 1 \in Version /\ req[r].x \in Content
      BY <1>3, <2>1, Storing DEF At, Copies
    <3>2. w = req[r].current + 1 \/ w \in 2..req[r].current
      BY <1>3, <3>1
    <3>3. w = req[r].current + 1 => VersionStored(c, w)'
      BY <3>1, Inserts
    <3>4. w \in 2..req[r].current => VersionStored(c, w)'
      BY <3>1 DEF Prefixes, Prefix, Kept
    <3>. QED
      BY <3>2, <3>3, <3>4
  <2>2. CASE req'[r] = req[r]
    BY <1>3, <2>2 DEF Prefixes, Prefix, Kept
  <2>3. CASE CopyKept(r)
    BY <1>3, <2>3 DEF CopyKept, Prefixes, Prefix, Kept
  <2>4. CASE CopyTaken(r)
    BY <1>3, <2>4 DEF CopyTaken, Prefixes, Prefix, Kept
  <2>. QED
    BY <1>3, <2>1, <2>2, <2>3, <2>4, CopyBy
<1>4. \A r \in Request : req'[r].c \in Config
  BY TypesStep, TypedStep DEF Tables, RequestRow
<1>. QED
  BY <1>1, <1>2, <1>3, <1>4 DEF Prefixes, Prefix

LEMMA FirstOneStep ==
  ASSUME TypeOK, Begun, FirstOne, [Next]_vars
  PROVE  FirstOne'
<1>. SUFFICES ASSUME NEW c \in Config, configs'[c].state # "none"
              PROVE  (VersionStored(c, 1) \/ CreatingFirst(c) \/ "empty" \in slips[c])'
  BY DEF FirstOne
<1>. Kept
  BY Keeping
<1>1. CASE configs[c].state = "none"
  <2>1. PICK r \in Request, x \in Content : CreateConfig(r, c, x)
    BY <1>1, CreatedBy
  <2>2. req'[r].pc = "first" /\ req'[r].c = c
    BY <2>1, Begins, IdleIsTyped DEF CreateConfig, Pc, Content0
  <2>. QED
    BY <2>2 DEF CreatingFirst, At
<1>2. CASE VersionStored(c, 1)
  BY <1>2 DEF Kept
<1>3. CASE "empty" \in slips[c]
  BY <1>3, SlipsGrow
<1>4. ASSUME NEW r \in Request, At(r, "first"), req[r].c = c
      PROVE  (VersionStored(c, 1) \/ CreatingFirst(c) \/ "empty" \in slips[c])'
  <2>1. CASE req'[r] = req[r]
    BY <1>4, <2>1 DEF CreatingFirst, At
  <2>2. CASE CreateFirstVersion(r)
    <3>1. req[r].x \in Content /\ InsertVersion(c, 1, req[r].x)
      BY <1>4, <2>2 DEF CreateFirstVersion, Begun, At
    <3>. QED
      BY <3>1, Inserts, IdleIsTyped
  <2>3. CASE Abandon(r)
    BY <1>4, <2>3, Giving
  <2>. QED
    BY <1>4, <2>1, <2>2, <2>3, MovedBy
    DEF At, ReadTarget, StoreVersion, StoreVersionFails, WriteRow, StoreDeployment
<1>. QED
  BY <1>1, <1>2, <1>3, <1>4 DEF FirstOne, CreatingFirst

LEMMA UntouchedStep ==
  ASSUME TypeOK, Begun, Untouched, [Next]_vars
  PROVE  Untouched'
<1>. SUFFICES ASSUME NEW c \in Config, configs'[c].state = "none", NEW v \in Version, VersionStored(c, v)'
              PROVE  FALSE
  BY DEF Untouched
<1>1. configs[c].state = "none" /\ ~VersionStored(c, v)
  BY Keeping DEF Kept, Untouched
<1>2. PICK r \in Request : req[r].c = c /\ (CreateFirstVersion(r) \/ StoreVersion(r))
  BY <1>1, StoredBy
<1>. QED
  BY <1>1, <1>2 DEF Begun, At, CreateFirstVersion, StoreVersion

LEMMA DeployedStep ==
  ASSUME TypeOK, Begun, Deployed, [Next]_vars
  PROVE  Deployed'
<1>. SUFFICES ASSUME NEW d \in deployments' PROVE VersionStored(d[1], d[2])'
  BY DEF Deployed
<1>. Kept
  BY Keeping
<1>1. CASE d \in deployments
  BY <1>1, Typed DEF Deployed, Kept, Notes
<1>2. CASE d \notin deployments
  <2>1. PICK r \in Request : StoreDeployment(r)
    BY <1>2 DEF Next, vars, history, CreateConfig, UpdateContent, RollbackConfig, CreateDeployment, DeleteConfig,
                CreateFirstVersion, ReadTarget, StoreVersion, StoreVersionFails, WriteRow, Abandon, UpdateDescription
  <2>2. d = <<req[r].c, req[r].v>> /\ VersionStored(req[r].c, req[r].v) /\ req[r].c \in Config
    BY <1>2, <2>1, RequestOf DEF StoreDeployment, InsertDeployment, Deployable
  <2>. QED
    BY <2>2 DEF Kept
<1>. QED
  BY <1>1, <1>2

\* What a request is about to store was read for it, or asked for by no number.
LEMMA InsertBy ==
  ASSUME TypeOK, Begun, [Next]_vars, NEW r \in Request, req'[r].pc = "insert"
  PROVE  req'[r] = req[r] \/ ReadTarget(r) \/ req'[r].v = 0
<1>. DEFINE G == req'[r] = req[r] \/ ReadTarget(r) \/ req'[r].v = 0
<1>1. ASSUME NEW q \in Request, End(q) PROVE G
  BY <1>1, Ends
<1>2. ASSUME NEW q \in Request, StoreVersion(q) \/ ReadTarget(q) PROVE G
  BY <1>2, Storing, Reading
<1>3. ASSUME NEW q \in Request, NEW pc \in Pc, NEW c \in Config, NEW n \in 0..MaxVersion,
             NEW v \in 0..MaxVersion, NEW x \in Content0, Begin(q, pc, c, n, v, x), pc # "insert" \/ v = 0
      PROVE  G
  BY <1>3, Begins
<1>4. ASSUME NEW q \in Request, NEW c \in Config, NEW x \in Content,
             CreateConfig(q, c, x) \/ UpdateContent(q, c, x)
      PROVE  G
  <2>1. /\ {"first", "insert"} \subseteq Pc /\ {0, 1, configs[c].current} \subseteq 0..MaxVersion
        /\ x \in Content0
    BY RowOf, IdleIsTyped DEF Pc, Content0
  <2>2. CASE CreateConfig(q, c, x)
    BY <1>3, <2>1, <2>2 DEF CreateConfig
  <2>3. CASE UpdateContent(q, c, x)
    BY <1>3, <2>1, <2>3 DEF UpdateContent
  <2>. QED
    BY <1>4, <2>2, <2>3
<1>5. ASSUME NEW q \in Request, NEW c \in Config,
             \/ UpdateDescription(q, c)
             \/ \E v \in Version : RollbackConfig(q, c, v)
             \/ \E v \in 0..MaxVersion : CreateDeployment(q, c, v)
      PROVE  G
  <2>1. /\ {"write", "target", "check"} \subseteq Pc /\ {0, configs[c].current} \subseteq 0..MaxVersion
        /\ NoContent \in Content0 /\ Version \subseteq 0..MaxVersion
    BY RowOf, IdleIsTyped, BoundAssumption DEF Pc, Content0, Version
  <2>2. PICK pc \in {"write", "target", "check"}, n \in {0, configs[c].current}, v \in 0..MaxVersion :
          Begin(q, pc, c, n, v, NoContent)
    BY <1>5, <2>1 DEF UpdateDescription, RollbackConfig, CreateDeployment
  <2>. QED
    BY <1>3, <2>1, <2>2
<1>6. CASE req' = req
  BY <1>6
<1>. QED
  BY <1>1, <1>2, <1>4, <1>5, <1>6
  DEF Next, vars, CreateFirstVersion, StoreVersionFails, WriteRow, StoreDeployment, Abandon, DeleteConfig

LEMMA RestoringStep ==
  ASSUME TypeOK, Begun, Restoring, [Next]_vars
  PROVE  Restoring'
<1>. Kept
  BY Keeping
<1>1. ASSUME NEW r \in Request, req'[r].pc = "insert", req'[r].v # 0,
             NEW c \in Config, req'[r].c = c, NEW v \in Nat, req'[r].v = v
      PROVE  VersionStored(c, v)' /\ req'[r].x = versions'[c][v]
  <2>1. CASE req'[r] = req[r]
    BY <1>1, <2>1 DEF Restoring, Kept, At
  <2>2. CASE ReadTarget(r)
    BY <1>1, <2>2, Reading DEF Kept
  <2>. QED
    BY <1>1, <2>1, <2>2, InsertBy
<1>2. ASSUME NEW b \in rollbacks'
      PROVE  VersionStored(b[1], b[2])' /\ VersionStored(b[1], b[3])' /\ versions'[b[1]][b[2]] = versions'[b[1]][b[3]]
  <2>1. CASE b \in rollbacks
    BY <2>1, Typed DEF Restoring, RollbackRestores, Kept, Notes
  <2>2. CASE b \notin rollbacks
    <3>1. PICK r \in Request : StoreVersion(r)
      BY <2>2 DEF Next, vars, history, CreateConfig, UpdateContent, RollbackConfig, CreateDeployment, DeleteConfig,
                  CreateFirstVersion, ReadTarget, StoreVersionFails, WriteRow, Abandon, UpdateDescription, StoreDeployment
    <3>2. b = <<req[r].c, req[r].current + 1, req[r].v>> /\ req[r].v # 0
      BY <2>2, <3>1 DEF StoreVersion
    <3>3. /\ b[1] \in Config /\ req[r].x \in Content /\ b[2] \in Version /\ At(r, "insert")
          /\ InsertVersion(b[1], b[2], req[r].x)
      BY <3>1, <3>2, Storing
    <3>4. VersionStored(b[1], b[3]) /\ req[r].x = versions[b[1]][b[3]]
      BY <3>2, <3>3 DEF Restoring
    <3>5. VersionStored(b[1], b[2])' /\ versions'[b[1]][b[2]] = req[r].x
      BY <3>3, Inserts
    <3>. QED
      BY <3>3, <3>4, <3>5 DEF Kept
  <2>. QED
    BY <2>1, <2>2
<1>3. \A r \in Request : req'[r].c \in Config /\ req'[r].v \in Nat
  BY TypesStep, TypedStep, BoundAssumption DEF Tables, RequestRow
<1>4. \A r \in Request : At(r, "insert")' /\ req'[r].v # 0 =>
         (VersionStored(req[r].c, req[r].v) /\ req[r].x = versions[req[r].c][req[r].v])'
  BY <1>1, <1>3 DEF At
<1>. QED
  BY <1>2, <1>4 DEF Restoring, RollbackRestores

-----------------------------------------------------------------------------
\* Copies and the current version.

\* While no description was written over a version, the current version only grows.
LEMMA Growing ==
  ASSUME TypeOK, Begun, Apart, [Next]_vars, NEW c \in Config, "overlap" \notin slips[c]
  PROVE  configs[c].current <= configs'[c].current
<1>1. CASE configs'[c].current = configs[c].current
  BY <1>1, RowOf
<1>2. CASE configs[c].state = "none" /\ configs'[c].current = 1
  BY <1>2, RowOf
<1>3. ASSUME NEW r \in Request, WriteRow(r), req[r].c = c, configs'[c].current = req[r].current
      PROVE  configs[c].current <= configs'[c].current
  <2>1. InStep(r, c) /\ At(r, "write")
    BY <1>3 DEF Apart, WriteRow
  <2>. QED
    BY <1>3, <2>1, RowOf DEF InStep
<1>. QED
  BY <1>1, <1>2, <1>3, CurrentBy

LEMMA OneMoves ==
  ASSUME TypeOK, Begun, [Next]_vars, NEW r \in Request, NEW s \in Request, r # s, req'[r] # req[r]
  PROVE  req'[s] = req[s]
<1>1. ASSUME NEW q \in Request, NEW y, req' = [req EXCEPT ![q] = y] PROVE req'[s] = req[s]
  BY <1>1, Typed DEF Tables
<1>2. ASSUME NEW q \in Request, ReadTarget(q) \/ StoreVersion(q) PROVE req'[s] = req[s]
  BY <1>2, Reading, Storing
<1>3. req' # req
  OBVIOUS
<1>. QED
  BY <1>1, <1>2, <1>3
  DEF Next, vars, Begin, End, CreateConfig, UpdateContent, UpdateDescription, RollbackConfig, CreateDeployment,
      CreateFirstVersion, StoreVersionFails, WriteRow, StoreDeployment, Abandon, DeleteConfig

\* A request comes to its write by storing a version or to change a description.
LEMMA WritingBy ==
  ASSUME TypeOK, Begun, [Next]_vars, NEW r \in Request, NEW c \in Config, Writing(r, c)'
  PROVE  \/ req'[r] = req[r]
         \/ StoreVersion(r) /\ req[r].c = c
         \/ UpdateDescription(r, c) /\ ~Made(r)' /\ req'[r].current = configs[c].current
<1>. SUFFICES ASSUME req'[r] # req[r] PROVE \/ StoreVersion(r) /\ req[r].c = c
                                            \/ /\ UpdateDescription(r, c) /\ ~Made(r)'
                                               /\ req'[r].current = configs[c].current
  OBVIOUS
<1>1. req'[r].pc = "write" /\ req'[r].c = c
  BY DEF Writing, At
<1>2. CASE ~At(r, "idle")
  <2>1. StoreVersion(r)
    BY <1>1, <1>2, MovedBy, Ends, Reading
    DEF CreateFirstVersion, StoreVersionFails, WriteRow, StoreDeployment, Abandon
  <2>. QED
    BY <1>1, <2>1, Storing
<1>3. CASE At(r, "idle")
  <2>0. req' # req /\ req[r].pc = "idle"
    BY <1>3 DEF At
  <2>1. ASSUME NEW q \in Request, NEW pc \in Pc, NEW d \in Config, NEW n \in 0..MaxVersion,
               NEW v \in 0..MaxVersion, NEW x \in Content0, Begin(q, pc, d, n, v, x)
        PROVE  q = r /\ pc = "write" /\ d = c /\ req'[r].current = n /\ req'[r].x = x
    BY <1>1, <2>1, Begins
  <2>2. ASSUME NEW q \in Request, NEW d \in Config, NEW x \in Content,
               CreateConfig(q, d, x) \/ UpdateContent(q, d, x)
        PROVE  FALSE
    <3>1. /\ {"first", "insert"} \subseteq Pc /\ {0, 1, configs[d].current} \subseteq 0..MaxVersion
          /\ x \in Content0
      BY RowOf, IdleIsTyped DEF Pc, Content0
    <3>. QED
      BY <2>1, <2>2, <3>1 DEF CreateConfig, UpdateContent
  <2>3. ASSUME NEW q \in Request, NEW d \in Config,
               \/ \E v \in Version : RollbackConfig(q, d, v)
               \/ \E v \in 0..MaxVersion : CreateDeployment(q, d, v)
        PROVE  FALSE
    <3>1. /\ {"target", "check"} \subseteq Pc /\ {0, configs[d].current} \subseteq 0..MaxVersion
          /\ NoContent \in Content0 /\ Version \subseteq 0..MaxVersion
      BY RowOf, IdleIsTyped, BoundAssumption DEF Pc, Content0, Version
    <3>. QED
      BY <2>1, <2>3, <3>1 DEF RollbackConfig, CreateDeployment
  <2>4. ASSUME NEW q \in Request, NEW d \in Config, UpdateDescription(q, d)
        PROVE  UpdateDescription(r, c) /\ ~Made(r)' /\ req'[r].current = configs[c].current
    <3>1. "write" \in Pc /\ {0, configs[d].current} \subseteq 0..MaxVersion /\ NoContent \in Content0
      BY RowOf, IdleIsTyped DEF Pc, Content0
    <3>. QED
      BY <2>1, <2>4, <3>1 DEF UpdateDescription, Made
  <2>5. ASSUME NEW q \in Request,
               \/ CreateFirstVersion(q) \/ ReadTarget(q) \/ StoreVersion(q) \/ StoreVersionFails(q)
               \/ WriteRow(q) \/ StoreDeployment(q) \/ Abandon(q)
        PROVE  FALSE
    <3>1. ~At(q, "idle")
      BY <2>5 DEF At, CreateFirstVersion, ReadTarget, StoreVersion, StoreVersionFails, WriteRow, StoreDeployment, Abandon
    <3>2. q # r
      BY <1>3, <3>1
    <3>3. End(q) \/ ReadTarget(q) \/ StoreVersion(q)
      BY <2>5 DEF CreateFirstVersion, StoreVersionFails, WriteRow, StoreDeployment, Abandon
    <3>. QED
      BY <3>2, <3>3, Ends, Reading, Storing
  <2>. QED
    BY <2>0, <2>2, <2>3, <2>4, <2>5 DEF Next, vars, DeleteConfig
<1>. QED
  BY <1>2, <1>3

LEMMA ApartStep ==
  ASSUME TypeOK, Begun, Prefixes, Apart, [Next]_vars
  PROVE  Apart'
<1>. SUFFICES ASSUME NEW c \in Config, "overlap" \notin slips'[c]
              PROVE  Alone(c)' /\ \A r \in Request : InStep(r, c)'
  BY DEF Apart
<1>0. "overlap" \notin slips[c] /\ Alone(c) /\ \A r \in Request : InStep(r, c)
  BY SlipsGrow DEF Apart
<1>1. ASSUME NEW r \in Request, NEW s \in Request, r # s, Writing(r, c)', Writing(s, c)', req'[s] = req[s]
      PROVE  ~Made(r)' /\ ~Made(s)'
  <2>0. Writing(s, c) /\ (Made(s)' <=> Made(s))
    BY <1>1 DEF Writing, At, Made
  <2>1. CASE req'[r] = req[r]
    BY <1>0, <1>1, <2>0, <2>1 DEF Alone, Writing, At, Made
  <2>2. CASE StoreVersion(r) /\ req[r].c = c
    <3>1. req[r].x \in Content /\ req[r].x # NoContent
      BY <2>2, Storing DEF Made
    <3>2. Overlaps(r, c, req[r].x)
      BY <1>1, <2>0, <3>1 DEF Overlaps
    <3>3. NoteOverlap(r, c, req[r].x)
      BY <2>2 DEF StoreVersion
    <3>. QED
      BY <3>1, <3>2, <3>3, Noting DEF Content0
  <2>3. CASE UpdateDescription(r, c) /\ ~Made(r)'
    <3>1. NoteOverlap(r, c, NoContent)
      BY <2>3 DEF UpdateDescription
    <3>2. ~Overlaps(r, c, NoContent)
      BY <3>1, Noting DEF Content0
    <3>. QED
      BY <1>1, <2>0, <2>3, <3>2 DEF Overlaps
  <2>. QED
    BY <1>1, <2>1, <2>2, <2>3, WritingBy
<1>2. ASSUME NEW r \in Request, NEW s \in Request, r # s, req'[r] # req[r] PROVE req'[s] = req[s]
  BY <1>2, OneMoves
<1>3. Alone(c)'
  BY <1>1, <1>2 DEF Alone
<1>4. ASSUME NEW r \in Request, Writing(r, c), WriteRow(r) PROVE req'[r].pc = "idle"
  BY <1>4, Ends DEF WriteRow
<1>5. ASSUME NEW r \in Request, req'[r].c = c PROVE InStep(r, c)'
  <2>0. /\ req[r].current \in Nat /\ configs[c].current \in Nat
        /\ configs[c].current <= configs'[c].current
    BY <1>0, RequestOf, RowOf, Growing
  <2>1. CASE StoreVersion(r)
    <3>1. /\ At(r, "insert") /\ req[r].c = c /\ req[r].current > 0 /\ req[r].current + 1 \in Version
          /\ InsertVersion(c, req[r].current + 1, req[r].x) /\ req[r].x \in Content
          /\ req'[r].pc = "write" /\ req'[r].current = req[r].current + 1 /\ req'[r].x = req[r].x
          /\ req[r].x # NoContent
      BY <1>5, <2>1, Storing DEF Made
    <3>2. req[r].current <= configs[c].current
      BY <1>0, <3>1 DEF InStep, At
    <3>3. ~VersionStored(c, req[r].current + 1)
      BY <3>1, Inserts
    <3>4. ~(req[r].current + 1 <= configs[c].current)
      <4>1. SUFFICES ASSUME req[r].current + 1 <= configs[c].current PROVE FALSE
        OBVIOUS
      <4>2. req[r].current + 1 \in 2..configs[c].current
        BY <2>0, <3>1, <4>1
      <4>. QED
        BY <3>3, <4>2 DEF Prefixes, Prefix
    <3>5. req[r].current = configs[c].current /\ configs' = configs
      BY <2>0, <2>1, <3>2, <3>4 DEF StoreVersion
    <3>. QED
      BY <3>1, <3>5 DEF InStep, At, Made
  <2>2. CASE req'[r] = req[r]
    <3>0. req[r].c = c /\ InStep(r, c)
      BY <1>0, <1>5, <2>2
    <3>1. CASE req[r].pc \in {"insert", "target"}
      <4>1. configs'[c].current \in Nat
        BY TypesStep, TypedStep, BoundAssumption DEF Tables, ConfigRow, Version
      <4>. QED
        BY <2>0, <2>2, <3>0, <3>1, <4>1 DEF InStep, At
    <3>2. CASE req[r].pc = "write"
      <4>0. Writing(r, c) /\ configs[c].state # "none"
        BY <3>0, <3>2 DEF Writing, At, Begun
      <4>1. CASE configs'[c].current = configs[c].current
        BY <2>2, <3>0, <3>2, <4>1 DEF InStep, At, Made
      <4>2. ASSUME NEW s \in Request, WriteRow(s), req[s].c = c, configs'[c].current = req[s].current
            PROVE  InStep(r, c)'
        <5>1. Writing(s, c) /\ s # r
          BY <2>2, <3>2, <4>0, <4>2, <1>4 DEF Writing, WriteRow
        <5>2. ~Made(r) /\ ~Made(s)
          BY <1>0, <4>0, <5>1 DEF Alone
        <5>3. req[s].current = configs[c].current
          BY <1>0, <4>2, <5>1, <5>2 DEF InStep, Writing
        <5>. QED
          BY <2>2, <3>0, <3>2, <4>2, <5>2, <5>3 DEF InStep, At, Made
      <4>. QED
        BY <4>0, <4>1, <4>2, CurrentBy
    <3>3. CASE req[r].pc \notin {"insert", "target", "write"}
      BY <2>2, <3>3 DEF InStep, At
    <3>. QED
      BY <3>1, <3>2, <3>3
  <2>3. CASE ReadTarget(r)
    <3>1. /\ req'[r].pc = "insert" /\ req'[r].current = req[r].current /\ req[r].c = c
          /\ req[r].pc = "target" /\ configs' = configs
      BY <1>5, <2>3, Reading DEF At, ReadTarget, rows
    <3>. QED
      BY <1>0, <3>1 DEF InStep, At
  <2>4. CASE req'[r] # req[r] /\ CopyTaken(r) /\ At(r, "idle")
    <3>1. req'[r].current = configs[c].current /\ configs' = configs
      BY <1>5, <2>4 DEF CopyTaken
    <3>2. ~(Writing(r, c)' /\ Made(r)')
      BY <2>4, WritingBy DEF StoreVersion, At
    <3>. QED
      BY <1>5, <2>0, <3>1, <3>2 DEF InStep, Writing, At
  <2>5. CASE req'[r].pc \notin Copies
    BY <2>5 DEF InStep, At, Copies
  <2>. QED
    BY <2>1, <2>2, <2>3, <2>4, <2>5, CopyBy
<1>. QED
  BY <1>3, <1>5 DEF InStep

LEMMA AcknowledgedStep ==
  ASSUME TypeOK, Begun, Apart, AcknowledgedIsCurrent, [Next]_vars
  PROVE  AcknowledgedIsCurrent'
<1>. SUFFICES ASSUME NEW c \in Config, "overlap" \notin slips'[c] PROVE acked'[c] <= configs'[c].current
  BY DEF AcknowledgedIsCurrent
<1>1. /\ acked[c] <= configs[c].current /\ configs[c].current <= configs'[c].current
      /\ acked[c] \in Nat /\ configs[c].current \in Nat /\ configs'[c].current \in Nat
  <2>1. configs'[c].current \in Nat
    BY TypesStep, TypedStep, BoundAssumption DEF Tables, ConfigRow, Version
  <2>2. acked[c] \in Nat
    BY Typed, BoundAssumption DEF Notes
  <2>. QED
    BY <2>1, <2>2, SlipsGrow, Growing, RowOf DEF AcknowledgedIsCurrent
<1>2. CASE acked' = acked
  BY <1>1, <1>2
<1>3. ASSUME NEW r \in Request, CreateFirstVersion(r) PROVE acked'[c] <= configs'[c].current
  <2>1. req[r].c \in Config /\ configs[req[r].c].state # "none" /\ Acknowledge(req[r].c, 1)
    BY <1>3, RequestOf DEF CreateFirstVersion, Begun, At
  <2>2. CASE c = req[r].c
    <3>1. configs[c].current >= 1
      BY <2>1, <2>2, RowOf DEF Version
    <3>. QED
      BY <1>1, <2>1, <2>2, <3>1, Acknowledging, IdleIsTyped
  <2>3. CASE c # req[r].c
    BY <1>1, <2>1, <2>3, Acknowledging, IdleIsTyped
  <2>. QED
    BY <2>2, <2>3
<1>4. ASSUME NEW r \in Request, WriteRow(r), Acknowledge(req[r].c, req[r].current)
      PROVE  acked'[c] <= configs'[c].current
  <2>1. /\ req[r].c \in Config /\ req[r].current \in 0..MaxVersion
        /\ configs'[req[r].c] = [state |-> "live", current |-> req[r].current]
    BY <1>4, Writings, RequestOf
  <2>2. acked'[c] = acked[c] \/ (c = req[r].c /\ acked'[c] = req[r].current)
    BY <1>4, <2>1, Acknowledging
  <2>. QED
    BY <1>1, <2>1, <2>2, BoundAssumption
<1>. QED
  BY <1>2, <1>3, <1>4
  DEF Next, vars, history, CreateConfig, UpdateContent, RollbackConfig, CreateDeployment, DeleteConfig,
      ReadTarget, StoreVersion, StoreVersionFails, WriteRow, Abandon, UpdateDescription, StoreDeployment

LEMMA LatestStep ==
  ASSUME TypeOK, Begun, Untouched, Apart, CurrentIsLatest, [Next]_vars
  PROVE  CurrentIsLatest'
<1>. SUFFICES ASSUME NEW c \in Config, configs'[c].state = "live", slips'[c] = {},
                     NEW v \in Version, VersionStored(c, v)', v > configs'[c].current
              PROVE  \E r \in Request : Writing(r, c)' /\ Made(r)' /\ req'[r].current = v
  BY DEF CurrentIsLatest, Found
<1>1. slips[c] = {} /\ configs[c].current <= configs'[c].current
  BY SlipsGrow, Growing
<1>2. configs'[c].current \in Nat /\ configs'[c].current > 0 /\ configs[c].current \in Nat /\ v \in Nat
  BY TypesStep, TypedStep, RowOf, BoundAssumption DEF Tables, ConfigRow, Version
<1>3. CASE ~VersionStored(c, v)
  <2>1. PICK r \in Request :
          /\ req[r].c = c
          /\ \/ CreateFirstVersion(r) /\ v = 1
             \/ StoreVersion(r) /\ v = req[r].current + 1
    BY <1>3, StoredBy
  <2>2. v # 1
    BY <1>2
  <2>. QED
    BY <2>1, <2>2, Storing DEF Writing, At, Made
<1>4. CASE VersionStored(c, v)
  <2>1. configs[c].state = "live"
    BY <1>4, Keeping, RowOf DEF Kept, Untouched
  <2>2. PICK r \in Request : Writing(r, c) /\ Made(r) /\ req[r].current = v
    BY <1>1, <1>2, <1>4, <2>1 DEF CurrentIsLatest, Found
  <2>3. CASE req'[r] = req[r]
    BY <2>2, <2>3 DEF Writing, At, Made
  <2>4. ~WriteRow(r)
    <3>1. WriteRow(r) => configs'[c] = [state |-> "live", current |-> v]
      BY <2>2, Writings DEF Writing
    <3>. QED
      BY <1>2, <3>1
  <2>5. CASE Abandon(r)
    BY <2>2, <2>5, Giving DEF Writing
  <2>. QED
    BY <2>2, <2>3, <2>4, <2>5, MovedBy
    DEF Writing, At, CreateFirstVersion, ReadTarget, StoreVersion, StoreVersionFails, StoreDeployment
<1>. QED
  BY <1>3, <1>4

-----------------------------------------------------------------------------
\* The theorems.

LEMMA InitIInv == Init => IInv
<1>. SUFFICES ASSUME Init PROVE IInv
  OBVIOUS
<1>1. TypeOK
  BY IdleIsTyped, Typed, BoundAssumption DEF Init, Tables, Notes, ConfigRow, Content0
<1>2. /\ \A r \in Request : req[r].pc = "idle"
      /\ \A c \in Config : configs[c].state = "none" /\ configs[c].current = 0 /\ acked[c] = 0
      /\ \A c \in Config : \A v : ~VersionStored(c, v)
      /\ deployments = {} /\ rollbacks = {}
  BY DEF Init, Idle, VersionStored
<1>. QED
  BY <1>1, <1>2
  DEF IInv, Begun, Prefixes, Prefix, FirstOne, Untouched, Deployed, Restoring, RollbackRestores, Apart, Alone,
      InStep, Writing, At, Copies, AcknowledgedIsCurrent, CurrentIsLatest, Found

LEMMA Inductive == IInv /\ [Next]_vars => IInv'
  BY TypesStep, BegunStep, PrefixesStep, FirstOneStep, UntouchedStep, DeployedStep, RestoringStep, ApartStep,
     AcknowledgedStep, LatestStep
  DEF IInv

\* IInv holds throughout: handlers.go's requests as ConfigVersions has them.
THEOREM Invariance == Spec => []IInv
  BY InitIInv, Inductive, PTL DEF Spec

\* Rows, versions, requests and notes have their types throughout.
THEOREM TypesHold == Spec => []TypeOK
<1>1. IInv => TypeOK
  BY DEF IInv
<1>. QED
  BY <1>1, Invariance, PTL

\* A version above the current one is on its way to become current, unless a
\* request slipped: UpdateConfig, RollbackConfig.
THEOREM LatestIsCurrent == Spec => []CurrentIsLatest
<1>1. IInv => CurrentIsLatest
  BY DEF IInv
<1>. QED
  BY <1>1, Invariance, PTL

\* What was answered for stays current or is followed by a later version, unless a
\* description's request overlapped its own: UpdateConfig, RollbackConfig.
THEOREM AnsweredIsCurrent == Spec => []AcknowledgedIsCurrent
<1>1. IInv => AcknowledgedIsCurrent
  BY DEF IInv
<1>. QED
  BY <1>1, Invariance, PTL

\* A rollback stores what the version asked for holds: RollbackConfig.
THEOREM RollbacksRestore == Spec => []RollbackRestores
<1>1. IInv => RollbackRestores
  BY DEF IInv, Restoring
<1>. QED
  BY <1>1, Invariance, PTL

\* Deployed and current versions are there: CreateDeployment, runDeployment.
THEOREM VersionsFound == Spec => []VersionsAreThere
<1>1. ASSUME IInv PROVE VersionsAreThere
  <2>1. ASSUME NEW c \in Config, configs[c].current > 0
        PROVE  \/ VersionStored(c, configs[c].current)
               \/ configs[c].current = 1 /\ (CreatingFirst(c) \/ "empty" \in slips[c])
    <3>1. configs[c].current \in Nat /\ configs[c].state # "none"
      BY <1>1, <2>1, RowOf DEF IInv
    <3>2. CASE configs[c].current = 1
      BY <1>1, <3>1, <3>2 DEF IInv, FirstOne
    <3>3. CASE configs[c].current # 1
      <4>1. configs[c].current \in 2..configs[c].current
        BY <2>1, <3>1, <3>3
      <4>. QED
        BY <1>1, <4>1 DEF IInv, Prefixes, Prefix
    <3>. QED
      BY <3>2, <3>3
  <2>. QED
    BY <1>1, <2>1 DEF IInv, Deployed, VersionsAreThere
<1>. QED
  BY <1>1, Invariance, PTL

\* No update that had read a configuration brings it back once it is deleted:
\* DeleteConfig, UpdateConfig, RollbackConfig.
THEOREM DeletedStays == Spec => DeletedStaysDeleted
<1>1. ASSUME IInv, [Next]_vars
      PROVE  [\A c \in Config : configs[c].state = "deleted" => configs'[c] = configs[c]]_vars
  BY <1>1, Keeping DEF IInv, Kept
<1>. QED
  BY <1>1, Invariance, PTL DEF Spec, DeletedStaysDeleted

\* The versions table is the history ConfigHistory describes: every step stores
\* one version at its place or none.
THEOREM ImplementsConfigHistory == Spec => ImplementsHistory
<1>1. Init => History!Init
  BY DEF Init, History!Init, History!Version, Version
<1>2. ASSUME IInv, [Next]_vars PROVE [History!Next]_versions
  <2>. TypeOK /\ Begun /\ Prefixes
    BY <1>2 DEF IInv
  <2>1. ASSUME NEW c \in Config, NEW v \in Version, NEW x \in Content, InsertVersion(c, v, x), Prefix(c, v - 1)
        PROVE  History!Next
    <3>1. ~VersionStored(c, v)
      BY <2>1, Inserts
    <3>2. \A w \in Version : VersionStored(c, w) <=> History!Stored(c, w)
      BY DEF VersionStored, History!Stored
    <3>3. v \in Nat /\ \A w \in 2..(v - 1) : w \in Version
      BY BoundAssumption DEF Version
    <3>4. \A w \in 2..(v - 1) : History!Stored(c, w)
      BY <2>1, <3>2, <3>3 DEF Prefix
    <3>5. ASSUME v > 1, NEW w \in (v + 1)..MaxVersion PROVE ~History!Stored(c, w)
      <4>1. w \in Version /\ v \in 2..w
        BY <3>3, <3>5, BoundAssumption DEF Version
      <4>. QED
        BY <3>1, <3>2, <4>1 DEF Prefixes, Prefix
    <3>6. History!Append(c, v, x)
      BY <2>1, <3>1, <3>2, <3>4, <3>5 DEF History!Append, InsertVersion
    <3>. QED
      BY <3>6 DEF History!Next, History!Version, Version
  <2>2. ASSUME NEW r \in Request, CreateFirstVersion(r) PROVE History!Next
    <3>1. req[r].c \in Config /\ req[r].x \in Content /\ InsertVersion(req[r].c, 1, req[r].x)
      BY <2>2, RequestOf DEF CreateFirstVersion, Begun, At
    <3>2. Prefix(req[r].c, 1 - 1)
      BY DEF Prefix
    <3>. QED
      BY <2>1, <3>1, <3>2, IdleIsTyped
  <2>3. ASSUME NEW r \in Request, StoreVersion(r) PROVE History!Next
    <3>1. /\ req[r].c \in Config /\ req[r].x \in Content /\ req[r].current + 1 \in Version
          /\ InsertVersion(req[r].c, req[r].current + 1, req[r].x)
          /\ req[r].pc \in Copies /\ req[r].current \in Nat
      BY <2>3, Storing DEF At, Copies
    <3>2. Prefix(req[r].c, (req[r].current + 1) - 1)
      BY <3>1 DEF Prefixes, Prefix
    <3>. QED
      BY <2>1, <3>1, <3>2
  <2>4. CASE UNCHANGED versions
    BY <2>4
  <2>. QED
    BY <1>2, <2>2, <2>3, <2>4
    DEF Next, vars, rows, CreateConfig, UpdateContent, UpdateDescription, RollbackConfig, CreateDeployment,
        ReadTarget, StoreVersionFails, WriteRow, StoreDeployment, Abandon, DeleteConfig
<1>. QED
  BY <1>1, <1>2, Invariance, PTL DEF Spec, ImplementsHistory, History!Spec
=============================================================================
