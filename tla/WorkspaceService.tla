--------------------------- MODULE WorkspaceService ---------------------------
(***************************************************************************)
(* The workspace part of the service: replicas that share one database,    *)
(* each with its own store (WorkspaceModel), the controllers that call it, *)
(* the bulk PUTs, restarts.  A request whose handler takes s.mu once is    *)
(* one step; contract mutations, bulk PUTs, audit appends and a start that *)
(* seeds the tables take several, and a handler h in job carries what they *)
(* have read so far.                                                       *)
(*                                                                         *)
(* History: upset[r], why the cache of r may rightly differ from the       *)
(* tables; acked, the rows whose creation was answered 2xx and nobody      *)
(* removed or replaced since; unsaved, those of them whose project has no  *)
(* surrogate; spilled, a snapshot was written from a store that lacked     *)
(* rows; miscounted, zones whose stored count may be off; raced, contracts *)
(* whose status events may be wrong; said, the status a consumer of the    *)
(* status events believes in.                                              *)
(***************************************************************************)
EXTENDS Integers, Sequences, FiniteSets, SequencesExt

CONSTANTS
  Replicas, Handlers,
  None, Faults, AuditKeep, SeedOnStartup,
  Realtime,          \* TRUE when a hub or a notifier is installed
  MaxOps,            \* bound: requests and restarts in a behaviour
  Sessions,          \* the callers
  ZoneCodes, ContractNos, Supervisors, Statuses, Reports,
  Data, Emails, RoleIds, TaskIds, Messages,
  Workspaces, Frontends,    \* bodies of the bulk PUTs
  StartDb            \* the tables before the first request

ASSUME ServiceAssumption ==
  /\ {Faults, Realtime, SeedOnStartup} \subseteq BOOLEAN
  /\ AuditKeep \in Nat \ {0} /\ MaxOps \in Nat
  /\ None \notin Supervisors \cup Statuses \cup Data \cup Emails \cup {"Planning", "gone"}
  /\ "gone" \notin Statuses
  /\ ZoneCodes \cup ContractNos \cup TaskIds \subseteq Int

CM == INSTANCE WorkspaceModel

WorkspaceHalf == {"zones", "contracts", "engineers", "users"}
FrontendHalf == {"milestones", "materials", "roles"}
Tables == CM!Repo!Tables

(* What the schema lets a database hold. *)
ASSUME StartAssumption ==
  \A d \in StartDb :
    /\ CM!Repo!IsDb(d) /\ \A no \in DOMAIN d.contracts : d.contracts[no].zone \in DOMAIN d.zones
    /\ \A no \in DOMAIN d.contracts :
         no \in ContractNos /\ d.contracts[no].status \in Statuses \cup {"Planning"}

(* The bodies of the bulk PUTs are decoded into the types of the store. *)
ASSUME BodiesAssumption ==
  /\ \A ws \in Workspaces :
       /\ \A t \in WorkspaceHalf : CM!Repo!IsList(t, ws[t])
       /\ CM!Ids(ws.contracts) \subseteq ContractNos
  /\ \A fe \in Frontends :
       /\ \A t \in FrontendHalf : CM!Repo!IsList(t, fe[t])
       /\ CM!Repo!IsLog(fe.assistance) /\ CM!Repo!IsLog(fe.projects)
       /\ \A p \in Range(fe.projects) : CM!Repo!IsList("items", p.tasks)

VARIABLES db, cache, job, due, upset, acked, unsaved, spilled, miscounted, raced, said, ops

vars == <<db, cache, job, due, upset, acked, unsaved, spilled, miscounted, raced, said, ops>>
history == <<acked, unsaved, spilled, miscounted, raced, said>>

Idle == [at |-> "idle"]
Stored(d, row) == row[2] \in DOMAIN d[row[1]]
InZone(d, z) == {no \in DOMAIN d.contracts : d.contracts[no].zone = z}

Init ==
  /\ db \in StartDb
  /\ cache = [r \in Replicas |-> CM!Repo!LoadState(db)]
  /\ job = [h \in Handlers |-> Idle]
  /\ due = [r \in Replicas |-> 0]
  /\ upset = [r \in Replicas |-> {}]
  /\ acked = {} /\ unsaved = {} /\ spilled = FALSE /\ raced = {}
  /\ miscounted = {z \in DOMAIN db.zones : db.zones[z].count # Cardinality(InZone(db, z))}
  /\ said = [no \in ContractNos |-> IF no \in DOMAIN db.contracts THEN db.contracts[no].status ELSE None]
  /\ ops = 0

-----------------------------------------------------------------------------
(* The parts every request is made of. *)

(* A replica serves when its store is made; a handler may hold s.mu.       *)
Up(r) == \A h \in Handlers : ~(job[h].at = "seed" /\ job[h].replica = r)
Free(r) == Up(r) /\ \A h \in Handlers : ~(job[h].at = "count" /\ job[h].replica = r)
Saving(r) == \E h \in Handlers : job[h].at = "save" /\ job[h].replica = r
(* Nothing upset the cache of r, or nothing but the failure to fill it.    *)
Covered(r) == upset[r] \cap {"foreign", "lost", "ahead", "overlap"} = {} /\ ~Saving(r)
InStep(r) == Covered(r) /\ "load" \notin upset[r]
Allowed(key) == \E sess \in Sessions : CM!sessionHasPermission(sess, key)
Begin == ops < MaxOps /\ ops' = ops + 1

Disturbed(r, o, excuse) ==
  [q \in Replicas |->
     upset[q] \cup (IF q # r THEN (IF o.db # db THEN {"foreign"} ELSE {})
                    ELSE excuse \cup (IF o.err = "lost" THEN {"lost"} ELSE {})
                                \cup (IF <<o.db, o.store>> # <<db, cache[r]>> /\ Saving(r) THEN {"overlap"} ELSE {}))]
Commit(r, o, excuse) ==
  /\ db' = o.db
  /\ cache' = [cache EXCEPT ![r] = o.store]
  /\ upset' = Disturbed(r, o, excuse)

(* The broadcast that follows every 2xx answer to a mutating request. *)
GinBroadcastWorkspace(r, ok) ==
  due' = IF Realtime /\ ok THEN [due EXCEPT ![r] = @ + 1] ELSE due

(* A handler that is one step.  Rows says what becomes of acked. *)
Request(r, outcomes, Excuse(_), Rows(_)) ==
  /\ Free(r) /\ Begin
  /\ \E o \in outcomes :
       /\ Commit(r, o, Excuse(o))
       /\ GinBroadcastWorkspace(r, o.err = "ok")
       /\ acked' = Rows(o)
  /\ UNCHANGED <<job, spilled, miscounted, raced, said>>

NoExcuse(o) == {}
Keeps(o) == acked
Adds(t, o) == IF o.err = "ok" THEN acked \cup {<<t, Last(o.store[t]).id>>} ELSE acked
Drops(t, id, o) == IF o.db # db THEN acked \ {<<t, id>>} ELSE acked

Create(r, t, outcomes) ==
  Request(r, outcomes, NoExcuse, LAMBDA o : Adds(t, o)) /\ UNCHANGED unsaved
Change(r, outcomes) == Request(r, outcomes, NoExcuse, Keeps) /\ UNCHANGED unsaved
Destroy(r, t, id, outcomes) ==
  Request(r, outcomes, NoExcuse, LAMBDA o : Drops(t, id, o)) /\ UNCHANGED unsaved

-----------------------------------------------------------------------------
(* Zones, engineers, users *)

ZoneRequests(r) ==
  \/ /\ Allowed("zones.create")
     /\ \E z \in ZoneCodes, n \in Data : Create(r, "zones", CM!CreateZone(db, cache[r], z, n))
  \/ /\ Allowed("zones.update")
     /\ \E z \in ZoneCodes, n \in Data :
          /\ Request(r, CM!PatchZone(db, cache[r], z, n),
                     LAMBDA o : IF o.err = "ok" THEN {} ELSE {"ahead"}, Keeps)
          /\ UNCHANGED unsaved
  \/ /\ Allowed("zones.delete")
     /\ \E z \in ZoneCodes : Destroy(r, "zones", z, CM!DeleteZone(db, cache[r], z))

EngineerRequests(r) ==
  \/ /\ Allowed("users.create")
     /\ \E x \in Data : Create(r, "engineers", CM!CreateEngineer(db, cache[r], x))
  \/ /\ Allowed("users.update")
     /\ \E i \in CM!Ids(cache[r].engineers), x \in Data :
          Change(r, CM!PatchEngineer(db, cache[r], i, x))
  \/ /\ Allowed("users.delete")
     /\ \E i \in CM!Ids(cache[r].engineers) :
          Destroy(r, "engineers", i, CM!DeleteEngineer(db, cache[r], i))

UserRequests(r) ==
  \/ /\ Allowed("users.create")
     /\ \E e \in Emails, ro \in RoleIds \cup {None} : Create(r, "users", CM!CreateUser(db, cache[r], e, ro))
  \/ /\ Allowed("users.update")
     /\ \E i \in CM!Ids(cache[r].users) :
          \/ \E e \in Emails : Change(r, CM!PatchUser(db, cache[r], i, [email |-> e]))
          \/ \E ro \in RoleIds : Change(r, CM!PatchUser(db, cache[r], i, [role |-> ro]))
  \/ /\ Allowed("users.delete")
     /\ \E i \in CM!Ids(cache[r].users) : Change(r, CM!DeactivateUser(db, cache[r], i))

ProfileRequests(r) ==
  \/ \E e \in Emails : Change(r, CM!PatchProfileForSession(db, cache[r], e, "own"))
  \/ \E e \in Emails, p \in Data \cup {None} : Change(r, CM!SetProfilePhoto(db, cache[r], e, p))

-----------------------------------------------------------------------------
(* Milestones, materials, roles *)

MilestoneRequests(r) ==
  \/ /\ Allowed("milestones.create")
     /\ \E x \in Data : Create(r, "milestones", CM!CreateMilestone(db, cache[r], x))
  \/ /\ Allowed("milestones.update")
     /\ \E i \in CM!Ids(cache[r].milestones), x \in Data :
          Change(r, CM!PatchMilestone(db, cache[r], i, x))
  \/ /\ Allowed("milestones.delete")
     /\ \E i \in CM!Ids(cache[r].milestones) :
          Destroy(r, "milestones", i, CM!DeleteMilestone(db, cache[r], i))

MaterialRequests(r) ==
  \/ /\ Allowed("materials.create")
     /\ \E x \in Data : Create(r, "materials", CM!CreateMaterial(db, cache[r], x))
  \/ /\ Allowed("materials.update")
     /\ \E i \in CM!Ids(cache[r].materials), x \in Data :
          Change(r, CM!PatchMaterial(db, cache[r], i, x))
  \/ /\ Allowed("materials.delete")
     /\ \E i \in CM!Ids(cache[r].materials) :
          Destroy(r, "materials", i, CM!DeleteMaterial(db, cache[r], i))

RoleRequests(r) ==
  /\ \E sess \in Sessions : CM!sessionCanManageRoles(sess)
  /\ \/ \E x \in Data : Create(r, "roles", CM!CreateRole(db, cache[r], x))
     \/ \E i \in CM!Ids(cache[r].roles), x \in Data : Change(r, CM!PatchRole(db, cache[r], i, x))
     \/ \E i \in CM!Ids(cache[r].roles) :
          Destroy(r, "roles", i, CM!DeleteRole(db, cache[r], i))

-----------------------------------------------------------------------------
(* Projects and tasks; a task id is a clock reading in milliseconds. *)

ProjectAt(r, i) == cache[r].projects[i]
ProjectRequests(r) ==
  \/ /\ Allowed("tasks.create")
     /\ \E x \in Data :
          Request(r, CM!CreateProject(db, cache[r], x), NoExcuse,
                  LAMBDA o : IF o.err = "ok" THEN acked \cup {<<"projects", db.serial>>} ELSE acked)
     /\ UNCHANGED unsaved
  \/ /\ Allowed("tasks.update")
     /\ \E i \in DOMAIN cache[r].projects, x \in Data : Change(r, CM!PatchProject(db, cache[r], i, x))
  \/ /\ Allowed("tasks.delete")
     /\ \E i \in DOMAIN cache[r].projects :
          LET gone == {<<"projects", ProjectAt(r, i).dbid>>}
                        \cup {<<"tasks", t>> : t \in {id \in DOMAIN db.tasks : db.tasks[id].project = ProjectAt(r, i).dbid}}
                        \cup {<<"tasks", t.id>> : t \in Range(ProjectAt(r, i).tasks)}
          IN Request(r, CM!DeleteProject(db, cache[r], i), NoExcuse,
                     LAMBDA o : IF o.err \in {"ok", "lost"} THEN acked \ gone ELSE acked)
     /\ UNCHANGED unsaved

TaskRequests(r) ==
  \E i \in DOMAIN cache[r].projects :
    \/ /\ Allowed("tasks.create")
       /\ \E t \in TaskIds, x \in Data :
            /\ Request(r, CM!CreateTask(db, cache[r], i, t, x), NoExcuse,
                       LAMBDA o : IF o.err = "ok" THEN acked \cup {<<"tasks", t>>} ELSE acked)
            /\ unsaved' = IF ProjectAt(r, i).dbid = 0 THEN unsaved \cup {<<"tasks", t>>} ELSE unsaved
    \/ /\ Allowed("tasks.update")
       /\ \E t \in CM!Ids(ProjectAt(r, i).tasks), x \in Data :
            Change(r, CM!PatchTask(db, cache[r], i, t, x))
    \/ /\ Allowed("tasks.delete")
       /\ \E t \in CM!Ids(ProjectAt(r, i).tasks) :
            Request(r, CM!DeleteTask(db, cache[r], i, t), NoExcuse,
                    LAMBDA o : IF o.err \in {"ok", "lost"} THEN acked \ {<<"tasks", t>>} ELSE acked)
       /\ UNCHANGED unsaved

-----------------------------------------------------------------------------
(* Audit, assistance, AI scan.  Entries are numbered in the order of the clock. *)

Entries == Range(db.audit) \cup UNION {Range(cache[q].audit) : q \in Replicas}
             \cup {job[h].entry : h \in {g \in Handlers : job[g].at = "ring"}}
NextEntry == 1 + (IF Entries = {} THEN 0 ELSE CHOOSE a \in Entries : \A b \in Entries : b <= a)

(* The stored half of appendAudit; the handler h keeps the entry for the ring. *)
StoreEntry(h, r) ==
  \E o \in CM!auditStored(db, cache[r], NextEntry) :
    /\ Commit(r, o, IF NextEntry \in Range(o.db.audit) THEN {} ELSE {"dropped"})
    /\ job' = [job EXCEPT ![h] = [at |-> "ring", replica |-> r, entry |-> NextEntry]]

AppendAudit(h, r) ==
  /\ job[h] = Idle /\ Up(r) /\ Allowed("audit.create") /\ Begin
  /\ StoreEntry(h, r)
  /\ UNCHANGED <<due, history>>

AuditRing(h) ==
  LET r == job[h].replica IN
  /\ job[h].at = "ring" /\ Free(r)
  /\ cache' = [cache EXCEPT ![r] = CM!auditRing(@, job[h].entry)]
  /\ upset' = IF \E a \in Range(cache[r].audit) : a > job[h].entry
              THEN [upset EXCEPT ![r] = @ \cup {"late"}] ELSE upset
  /\ GinBroadcastWorkspace(r, TRUE)
  /\ job' = [job EXCEPT ![h] = Idle]
  /\ UNCHANGED <<db, history, ops>>

PostAssistance(r) ==
  /\ \E sess \in Sessions : CM!sessionCanMutate(sess)
  /\ \E m \in Messages : Change(r, CM!PostAssistance(db, cache[r], m))
PutAiScan(r) ==
  /\ Allowed("insights.update")
  /\ \E x \in Data :
       /\ Request(r, CM!SetAiScan(db, cache[r], x),
                  LAMBDA o : IF o.db.scan = o.store.scan THEN {} ELSE {"dropped"}, Keeps)
       /\ UNCHANGED unsaved

-----------------------------------------------------------------------------
(* Contracts.  Insert, update and delete hold the lock over the count      *)
(* statements that follow; the events and the answer come after it.        *)

OnContract(no) ==
  \E h \in Handlers : job[h].at \in {"patch", "drop", "count", "publish"} /\ job[h].no = no

(* What follows a mutation that succeeded: count the zones, then publish. *)
Counting(r, no, s, zones, tell) ==
  LET known == CM!AffectedZones(s, zones)
  IN [at |-> IF known = <<>> THEN "publish" ELSE "count",
      replica |-> r, no |-> no, zones |-> known, tell |-> tell]
Miscounts(r, o) ==
  LET moved == {z \in DOMAIN o.db.zones : InZone(db, z) # InZone(o.db, z)}
      unknown == {z \in moved : CM!Find(o.store.zones, z) = 0}
  IN miscounted \cup (IF o.err = "lost" \/ ~InStep(r) THEN moved ELSE unknown)

ContractPosted(h, r) ==
  /\ job[h] = Idle /\ Free(r) /\ Allowed("contracts.create") /\ Begin
  /\ \E given \in ContractNos \cup {None}, z \in ZoneCodes, sup \in Supervisors, st \in Statuses \cup {None} :
       LET no == IF given = None THEN CM!nextContractNo(cache[r]) ELSE given
           in == [id |-> no, zone |-> z, sup |-> sup, status |-> st, report |-> 0]
       IN /\ no \in ContractNos
          /\ \E o \in CM!CreateContract(db, cache[r], in) :
               /\ Commit(r, o, {})
               /\ acked' = Adds("contracts", o)
               /\ miscounted' = Miscounts(r, o)
               /\ raced' = IF o.err # "ok" /\ o.db = db THEN raced
                           ELSE IF OnContract(no) \/ o.err = "lost" THEN raced \cup {no} ELSE raced
               /\ job' = IF o.err # "ok" THEN job
                         ELSE [job EXCEPT ![h] = Counting(r, no, o.store, <<z>>, CM!defaultStatus(st))]
  /\ UNCHANGED <<due, unsaved, spilled, said>>

Patches == {[status |-> st] : st \in Statuses} \cup {[zone |-> z] : z \in ZoneCodes}
             \cup {[sup |-> s] : s \in Supervisors} \cup {[report |-> p] : p \in Reports}
TouchesPrivilegedFields(patch) == DOMAIN patch # {"report"}

(* Patch up to its call of PatchContract: permission, previous status. *)
PatchBegins(h, r) ==
  /\ job[h] = Idle /\ Free(r) /\ Begin
  /\ \E sess \in Sessions, c \in Range(cache[r].contracts), patch \in Patches :
       /\ CM!CanEditContractCtx(cache[r], sess, c.id)
       /\ TouchesPrivilegedFields(patch) => CM!sessionCanMutate(sess)
       /\ job' = [job EXCEPT ![h] = [at |-> "patch", replica |-> r, sess |-> sess, no |-> c.id,
                                     patch |-> patch, previous |-> c.status]]
       /\ raced' = IF OnContract(c.id) \/ upset[r] # {} THEN raced \cup {c.id} ELSE raced
  /\ UNCHANGED <<db, cache, due, upset, acked, unsaved, spilled, miscounted, said>>

(* Fault: the two statuses are swapped. *)
TellPrevious(patch, previous) ==
  IF "status" \in DOMAIN patch /\ patch.status # previous THEN previous ELSE None
(* The event announces a status that differs from the one read before. *)
Tell(patch, previous) ==
  IF "status" \in DOMAIN patch /\ patch.status # previous THEN patch.status ELSE None

PatchContract(h) ==
  LET j == job[h]
      r == j.replica
      i == CM!Find(cache[r].contracts, j.no)
      old == cache[r].contracts[i].zone
      new == IF "zone" \in DOMAIN j.patch THEN j.patch.zone ELSE old
      zones == IF i = 0 THEN <<>> ELSE IF new = old THEN <<new>> ELSE <<old, new>>
  IN /\ j.at = "patch" /\ Free(r)
     /\ \E o \in CM!updateContract(db, cache[r], j.no, j.patch) :
          /\ Commit(r, o, {})
          /\ miscounted' = Miscounts(r, o)
          /\ raced' = IF o.err = "lost" \/ upset[r] # {} THEN raced \cup {j.no} ELSE raced
          /\ job' = [job EXCEPT ![h] = IF o.err # "ok" THEN Idle
                                       ELSE Counting(r, j.no, o.store, zones, Tell(j.patch, j.previous))]
     /\ UNCHANGED <<due, acked, unsaved, spilled, said, ops>>

(* Delete up to its call of DeleteContract: what FindContract found. *)
DeleteBegins(h, r) ==
  /\ job[h] = Idle /\ Free(r) /\ Allowed("contracts.delete") /\ Begin
  /\ \E no \in ContractNos :
       /\ job' = [job EXCEPT ![h] = [at |-> "drop", replica |-> r, no |-> no,
                                     existing |-> CM!Find(cache[r].contracts, no) # 0]]
       /\ raced' = IF OnContract(no) \/ upset[r] # {} THEN raced \cup {no} ELSE raced
  /\ UNCHANGED <<db, cache, due, upset, acked, unsaved, spilled, miscounted, said>>

DeleteContract(h) ==
  LET j == job[h]
      r == j.replica
      i == CM!Find(cache[r].contracts, j.no)
      zones == IF i = 0 THEN <<>> ELSE <<cache[r].contracts[i].zone>>
      tell == IF j.existing THEN "gone" ELSE None
  IN /\ j.at = "drop" /\ Free(r)
     /\ \E o \in CM!deleteContract(db, cache[r], j.no) :
          /\ Commit(r, o, {})
          /\ acked' = Drops("contracts", j.no, o)
          /\ miscounted' = Miscounts(r, o)
          /\ raced' = IF o.err = "lost" \/ upset[r] # {} THEN raced \cup {j.no} ELSE raced
          /\ job' = [job EXCEPT ![h] = IF o.err # "ok" THEN Idle
                                       ELSE Counting(r, j.no, o.store, zones, tell)]
     /\ UNCHANGED <<due, unsaved, spilled, said, ops>>

(* One UpdateZoneCount of persistZoneCountsForLocked. *)
CountZone(h) ==
  LET j == job[h]
      r == j.replica
      z == Head(j.zones)
      right(o) == z \in DOMAIN o.db.zones /\ InStep(r)
                    /\ o.db.zones[z].count = cache[r].zones[CM!Find(cache[r].zones, z)].count
  IN /\ j.at = "count"
     /\ \E o \in CM!persistZoneCount(db, cache[r], z) :
          /\ Commit(r, o, {})
          /\ miscounted' = IF right(o) THEN miscounted \ {z} ELSE miscounted \cup {z}
     /\ job' = [job EXCEPT ![h].zones = Tail(@), ![h].at = IF Len(j.zones) = 1 THEN "publish" ELSE "count"]
     /\ UNCHANGED <<due, acked, unsaved, spilled, raced, said, ops>>

(* The events, after the lock is gone, and the answer.  An event that could *)
(* not be enqueued is only logged; of the others a consumer believes the    *)
(* one with the latest time.                                                *)
PublishContract(h) ==
  LET j == job[h] IN
  /\ j.at = "publish"
  /\ \E enqueued \in IF Faults THEN BOOLEAN ELSE {TRUE} :
       /\ said' = IF j.tell = None \/ ~enqueued THEN said
                  ELSE [said EXCEPT ![j.no] = IF j.tell = "gone" THEN None ELSE j.tell]
       /\ raced' = IF j.tell = None \/ enqueued THEN raced ELSE raced \cup {j.no}
  /\ GinBroadcastWorkspace(j.replica, TRUE)
  /\ job' = [job EXCEPT ![h] = Idle]
  /\ UNCHANGED <<db, cache, upset, acked, unsaved, spilled, miscounted, ops>>

-----------------------------------------------------------------------------
(* The bulk PUTs of a super admin, and a restart. *)

Shared == WorkspaceHalf \cup FrontendHalf \cup {"projects", "photos"}
(* Saves of r that are under way go on with arrays the cache has left. *)
Unshared(r, tables) ==
  [g \in Handlers |->
     IF job[g].at = "save" /\ job[g].replica = r THEN [job[g] EXCEPT !.shared = @ \ tables] ELSE job[g]]

Replaced(h, r, s, tables) ==
  /\ job[h] = Idle /\ Free(r) /\ Begin
  /\ \E sess \in Sessions : sess.role = "super_admin"
  /\ cache' = [cache EXCEPT ![r] = s]
  /\ job' = [Unshared(r, tables) EXCEPT ![h] =
               [at |-> "save", replica |-> r, copy |-> s, of |-> tables,
                shared |-> Shared]]
  /\ upset' = IF Saving(r) THEN [upset EXCEPT ![r] = @ \cup {"overlap"}] ELSE upset
  /\ acked' = {x \in acked : x[1] \notin tables}
  /\ raced' = ContractNos
  /\ UNCHANGED <<db, due, unsaved, spilled, miscounted, said>>

PutWorkspace(h, r) ==
  \E ws \in Workspaces : Replaced(h, r, CM!ReplaceWorkspace(cache[r], ws), WorkspaceHalf)
PutFrontend(h, r) ==
  \E fe \in Frontends :
    Replaced(h, r, CM!ReplaceFrontend(cache[r], fe), FrontendHalf \cup {"projects", "tasks", "photos"})

(* SaveState, outside the lock.  A store that may lack rows spills them;   *)
(* every project gets a new surrogate and is no longer followed.           *)
SaveSnapshot(h) ==
  LET r == job[h].replica
      lacking == upset[r] \cap {"foreign", "lost", "load", "overlap"}
      recounted == job[h].of = WorkspaceHalf
  IN /\ job[h].at = "save"
     /\ \E o \in CM!bulkSaved(db, job[h].copy, cache[r], job[h].shared) :
          /\ db' = o.db
          /\ upset' = [q \in Replicas |->
                         IF q # r THEN (IF o.db # db THEN upset[q] \cup {"foreign"} ELSE upset[q])
                         ELSE IF o.err # "ok" THEN upset[r] \cup {"ahead"}
                         ELSE (upset[r] \cap {"overlap"}) \cup {"bulk"}]
          /\ spilled' = (spilled \/ (o.db # db /\ lacking # {}))
          /\ miscounted' = IF o.db = db THEN miscounted
                           ELSE IF upset[r] \cap (IF recounted THEN {"overlap"}
                                   ELSE {"foreign", "lost", "ahead", "overlap", "load"}) # {}
                           THEN DOMAIN o.db.zones
                           ELSE IF recounted THEN {} ELSE miscounted
          /\ acked' = IF o.db = db THEN acked ELSE {x \in acked : x[1] # "projects"}
          /\ job' = [job EXCEPT ![h] = IF o.err = "ok" THEN [at |-> "record", replica |-> r] ELSE Idle]
     /\ UNCHANGED <<cache, due, unsaved, raced, said, ops>>

RecordBulkReplace(h) ==
  /\ job[h].at = "record"
  /\ StoreEntry(h, job[h].replica)
  /\ UNCHANGED <<due, history, ops>>

(* A crash takes the handlers of the replica with it.  NewStore finds the  *)
(* tables without a contract, and seeds them in a later step, or does not. *)
Restart(r) ==
  LET here == {h \in Handlers : job[h] # Idle /\ job[h].replica = r}
      down == [h \in Handlers |-> IF h \in here THEN Idle ELSE job[h]] IN
  /\ Begin
  /\ \/ /\ \E s \in CM!NewStore(db) :
             /\ cache' = [cache EXCEPT ![r] = s]
             /\ upset' = [upset EXCEPT ![r] = IF s = CM!Repo!LoadState(db) THEN {} ELSE {"load"}]
        /\ job' = down
     \/ /\ SeedOnStartup /\ CM!IsEmpty(db)
        /\ cache' = [cache EXCEPT ![r] = CM!seed] /\ upset' = [upset EXCEPT ![r] = {"load"}]
        /\ \E h \in Handlers : /\ down[h] = Idle
                               /\ job' = [down EXCEPT ![h] = [at |-> "seed", replica |-> r]]
  /\ due' = [due EXCEPT ![r] = 0]
  /\ raced' = raced \cup {job[h].no : h \in {g \in here : job[g].at \in {"patch", "drop", "count", "publish"}}}
  /\ miscounted' = miscounted \cup UNION {Range(job[h].zones) : h \in {g \in here : job[g].at = "count"}}
  /\ UNCHANGED <<db, acked, unsaved, spilled, said>>

(* The seed takes the place of every row, contracts that another replica   *)
(* has added since among them, then the replica loads.                     *)
SeedWorkspace(h) ==
  LET r == job[h].replica IN
  /\ job[h].at = "seed"
  /\ \E o \in CM!Seeded(db) :
       /\ db' = o.db
       /\ cache' = [cache EXCEPT ![r] = o.store]
       /\ upset' = [q \in Replicas |->
                      IF q # r THEN (IF o.db # db THEN upset[q] \cup {"foreign"} ELSE upset[q])
                      ELSE IF o.store = CM!Repo!LoadState(o.db) THEN {} ELSE {"load"}]
       /\ acked' = IF o.db = db THEN acked ELSE {}
       /\ raced' = IF o.db = db THEN raced ELSE raced \cup DOMAIN db.contracts
  /\ job' = [job EXCEPT ![h] = Idle]
  /\ UNCHANGED <<due, unsaved, spilled, miscounted, said, ops>>

-----------------------------------------------------------------------------
(* What requests touch the same tables, so that each can be run alone. *)

ContractNext ==
  \/ \E r \in Replicas : ZoneRequests(r)
  \/ \E h \in Handlers, r \in Replicas : ContractPosted(h, r) \/ PatchBegins(h, r) \/ DeleteBegins(h, r)
  \/ \E h \in Handlers : PatchContract(h) \/ DeleteContract(h) \/ CountZone(h) \/ PublishContract(h)
PeopleNext == \E r \in Replicas : UserRequests(r) \/ ProfileRequests(r) \/ RoleRequests(r)
RegisterNext == \E r \in Replicas : EngineerRequests(r) \/ MilestoneRequests(r) \/ MaterialRequests(r)
TaskNext == \E r \in Replicas : ProjectRequests(r) \/ TaskRequests(r)
LogNext ==
  \/ \E h \in Handlers, r \in Replicas : AppendAudit(h, r)
  \/ \E h \in Handlers : AuditRing(h)
  \/ \E r \in Replicas : PostAssistance(r) \/ PutAiScan(r)
BulkNext ==
  \/ \E h \in Handlers, r \in Replicas : PutWorkspace(h, r)
  \/ \E h \in Handlers : SaveSnapshot(h) \/ RecordBulkReplace(h) \/ AuditRing(h) \/ SeedWorkspace(h)
  \/ \E r \in Replicas : Restart(r)
FrontendBulkNext == \E h \in Handlers, r \in Replicas : PutFrontend(h, r)

Next == ContractNext \/ PeopleNext \/ RegisterNext \/ TaskNext \/ LogNext
          \/ BulkNext \/ FrontendBulkNext
Spec == Init /\ [][Next]_vars

-----------------------------------------------------------------------------
(* Every table and cache holds rows of its kind, every reason is known.    *)
TypeOK ==
  /\ CM!Repo!IsDb(db)
  /\ DOMAIN cache = Replicas /\ \A r \in Replicas : CM!IsStore(cache[r])
  /\ \A h \in Handlers : job[h].at \in {"idle", "patch", "drop", "count", "publish", "save", "record", "ring", "seed"}
  /\ \A r \in Replicas :
       upset[r] \subseteq {"foreign", "lost", "ahead", "overlap", "load", "dropped", "bulk", "late"}
  /\ acked \subseteq Tables \X Int /\ unsaved \subseteq Tables \X Int
  /\ said \in [ContractNos -> Statuses \cup {"Planning", None}] /\ ops \in 0..MaxOps

(***************************************************************************)
(* What a replica answers from is what the tables hold (store.go: "the     *)
(* cache never diverges from durable storage"): as long as no other        *)
(* replica wrote, no answer was lost, no failed PatchZone, bulk PUT or     *)
(* load left the cache ahead and nothing slipped between a bulk PUT and    *)
(* its SaveState.  Counts are left to ZoneCountsRight.                     *)
(***************************************************************************)
Uncounted(rows) == {[f \in DOMAIN x \ {"count"} |-> x[f]] : x \in rows}
CacheAgrees ==
  \A r \in Replicas : InStep(r) =>
    /\ \A t \in CM!Repo!Keyed : Uncounted(Range(cache[r][t])) = Uncounted(Range(db[t]))
    /\ Range(cache[r].assistance) = Range(db.assistance)
    /\ cache[r].photos = db.photos

(***************************************************************************)
(* The same of the audit ring, the scan and the projects, which are not    *)
(* promised after a bulk PUT; the ring not while an entry is on its way to *)
(* it or after entries took the lock out of order.                         *)
(***************************************************************************)
Unnumbered(projects) ==
  [i \in DOMAIN projects |-> [name |-> projects[i].name, tasks |-> Range(projects[i].tasks)]]
LogAndTasksAgree ==
  \A r \in Replicas :
    (upset[r] = {} /\ ~Saving(r)) =>
      /\ cache[r].scan = db.scan
      /\ Unnumbered(cache[r].projects) = Unnumbered(CM!Repo!loadTasks(db))
      /\ (\A h \in Handlers : job[h].at = "ring" => job[h].replica # r) => cache[r].audit = Reverse(db.audit)

(***************************************************************************)
(* No replica serves two rows under one id, although ids are the length of *)
(* a list plus one and are handed out again after a deletion: the primary  *)
(* key refuses the second row.  Rows of the cache that the tables lack     *)
(* take that protection away: a deletion the cache did not see (of another *)
(* replica, or its own with the answer lost), a snapshot that lost a row,  *)
(* a bulk PUT that is not stored yet or was refused.                       *)
(***************************************************************************)
IdsUnique ==
  \A r \in Replicas : Covered(r) =>
    \A t \in CM!Repo!Keyed : CM!Repo!Distinct(cache[r][t])

(***************************************************************************)
(* A row whose creation was answered 2xx stays in the database until it is *)
(* deleted, or a bulk PUT of its half of the store replaces it, or a start *)
(* that found no contract seeds the tables (which takes every zone, user   *)
(* and engineer: see README), whatever else fails or restarts - unless a   *)
(* snapshot was written from a store that lacked rows, or its project had  *)
(* no surrogate.                                                           *)
(***************************************************************************)
AckedRowsStay == spilled \/ \A x \in acked \ unsaved : Stored(db, x)

(***************************************************************************)
(* The stored contract count of a zone is the number of its contracts,     *)
(* except while a handler is about to write it and where a write was lost, *)
(* or was made from a cache that another replica's contracts never reached *)
(* (store.go: "the next mutation will overwrite them").                    *)
(***************************************************************************)
ZoneCountsRight ==
  \A z \in DOMAIN db.zones :
    \/ z \in miscounted
    \/ \E h \in Handlers : job[h].at = "count" /\ z \in Range(job[h].zones)
    \/ db.zones[z].count = Cardinality(InZone(db, z))

(***************************************************************************)
(* A contractor's PATCH changes nothing but the report of a contract he    *)
(* supervises (contract_controller.go: "contractors may only update        *)
(* progress, remarks, and worker count"), unless his replica's cache was   *)
(* stale or the contract was being changed when he was let through.        *)
(***************************************************************************)
ReportsOnly(h) ==
  LET j == job[h] IN
  (/\ j.at = "patch" /\ job'[h] # j /\ db' # db
   /\ ~CM!sessionCanMutate(j.sess) /\ upset[j.replica] = {} /\ j.no \notin raced) =>
    /\ db.contracts[j.no].sup = j.sess.sup
    /\ \E p \in Reports : db'.contracts = [db.contracts EXCEPT ![j.no].report = p]
ContractorsReportOnly == [][\A h \in Handlers : ReportsOnly(h)]_vars

(***************************************************************************)
(* A consumer of contract.created, status.changed and deleted ends with    *)
(* the stored status of every contract whose requests did not overlap,     *)
(* meet a stale cache, lose an answer or die half-way, whose events were   *)
(* all enqueued, and that no start seeded away.                            *)
(***************************************************************************)
StatusFollowed ==
  \A no \in ContractNos :
    (no \notin raced /\ ~OnContract(no)) =>
      said[no] = (IF no \in DOMAIN db.contracts THEN db.contracts[no].status ELSE None)
===============================================================================
