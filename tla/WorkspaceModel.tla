---------------------------- MODULE WorkspaceModel ----------------------------
(***************************************************************************)
(* models.Store, the cache every replica answers from.  A method is the    *)
(* set of its outcomes [db, store, err] from the tables d and the cache s: *)
(* it holds s.mu from its first read to its last write, so it is one step, *)
(* except where store.go lets go of the lock or issues a second statement. *)
(* Input is abstracted to what the rows are told apart by: one "data"      *)
(* field stands for the fields no other part of the store looks at.        *)
(***************************************************************************)
EXTENDS Integers, Sequences, FiniteSets, SequencesExt

CONSTANTS
  None, Faults,
  AuditKeep,         \* auditRetention
  SeedOnStartup      \* never in production, elsewhere TRUE unless told otherwise

Repo == INSTANCE WorkspaceTables

(* The store NewStore starts from: no data, and two custom roles whose ids *)
(* (cr_zone_lead, cr_auditor) no CreateRole gives.                         *)
SeedIds == {-1, -2}
seed == [zones |-> <<>>, contracts |-> <<>>, engineers |-> <<>>, users |-> <<>>,
         milestones |-> <<>>, materials |-> <<>>,
         roles |-> <<[id |-> -1, data |-> "zone_lead"], [id |-> -2, data |-> "auditor"]>>,
         audit |-> <<>>, assistance |-> <<>>, photos |-> <<>>, projects |-> <<>>, scan |-> None]

IsBoard(projects) ==
  /\ Repo!IsLog(projects)
  /\ \A p \in Range(projects) :
       /\ p = [f \in {"dbid", "name", "tasks"} |-> p[f]] /\ p.dbid \in Nat
       /\ Repo!IsList("items", p.tasks)
IsStore(s) ==
  /\ DOMAIN s = DOMAIN seed
  /\ \A t \in Repo!Keyed : Repo!IsList(t, s[t])
  /\ Repo!IsLog(s.assistance) /\ IsBoard(s.projects)

(* Every error at the start is only a warning: the replica serves the seed *)
(* then.  Tables without a contract count as empty (IsEmpty): with         *)
(* SeedOnStartup the seed replaces them all before the load.               *)
IsEmpty(d) == DOMAIN d.contracts = {}
Hydrated(d) == {Repo!LoadState(d)} \cup (IF Faults THEN {seed} ELSE {})
NewStore(d) == {s \in Hydrated(d) : SeedOnStartup /\ IsEmpty(d) => s = seed}
Seeded(d) ==
  UNION {{[db |-> o.db, store |-> s] : s \in IF o.err = "ok" THEN Hydrated(o.db) ELSE {seed}} :
           o \in Repo!SaveState(d, seed)}

-----------------------------------------------------------------------------
(* How a method ends: the repository first, the cache on success only. *)

(* Fault: the error is logged and dropped. *)
wrapPersistNothing(e) == IF e = "failed" THEN "ok" ELSE e
wrapPersist(e) == IF e = "failed" THEN "persist" ELSE e
(* Fault: the cache changes whatever the repository says. *)
AfterAnyway(s, stmts, s2) ==
  {[db |-> o.db, store |-> s2, err |-> wrapPersist(o.err)] : o \in stmts}
After(s, stmts, s2) ==
  {[db |-> o.db, store |-> IF o.err = "ok" THEN s2 ELSE s, err |-> wrapPersist(o.err)] : o \in stmts}
Ends(d, s, e) == {[db |-> d, store |-> s, err |-> e]}

Find(rows, id) == SelectInSeq(rows, LAMBDA row : row.id = id)
Ids(rows) == {rows[i].id : i \in DOMAIN rows}
NextId(rows) == Len(rows) + 1

Grown(s, t, row, stmts) == After(s, stmts, [s EXCEPT ![t] = Append(@, row)])
Rewritten(d, s, t, id, Patch(_), Stmt(_, _)) ==
  LET i == Find(s[t], id)
      updated == Patch(s[t][i])
  IN IF i = 0 THEN Ends(d, s, "notfound")
     ELSE After(s, Stmt(d, updated), [s EXCEPT ![t][i] = updated])
Dropped(d, s, t, id, Stmt(_, _)) ==
  LET i == Find(s[t], id)
  IN IF i = 0 THEN Ends(d, s, "notfound")
     ELSE After(s, Stmt(d, id), [s EXCEPT ![t] = RemoveAt(@, i)])

-----------------------------------------------------------------------------
(* Zones *)

recalcZoneCounts(s) ==
  LET inZone(code) == {k \in DOMAIN s.contracts : s.contracts[k].zone = code}
      recounted(z) == [z EXCEPT !.count = Cardinality(inZone(z.id))]
  IN [s EXCEPT !.zones = [i \in DOMAIN @ |-> recounted(@[i])]]

CreateZone(d, s, code, name) ==
  LET z == [id |-> code, name |-> name, count |-> 0]
  IN IF Find(s.zones, code) # 0 THEN Ends(d, s, "conflict")
     ELSE Grown(s, "zones", z, Repo!InsertZone(d, z))

(* Writes the cached zone in place, before the repository is asked. *)
PatchZone(d, s, code, name) ==
  LET i == Find(s.zones, code)
      ahead == recalcZoneCounts([s EXCEPT !.zones[i].name = name])
  IN IF i = 0 THEN Ends(d, s, "notfound")
     ELSE After(ahead, Repo!UpdateZone(d, ahead.zones[i]), ahead)

DeleteZone(d, s, code) == Dropped(d, s, "zones", code, Repo!DeleteZone)

-----------------------------------------------------------------------------
(* Contracts.  A patch is a function from the fields it carries. *)

insertContract(d, s, c) ==
  IF Find(s.contracts, c.id) # 0 THEN Ends(d, s, "conflict")
  ELSE After(s, Repo!InsertContract(d, c),
             recalcZoneCounts([s EXCEPT !.contracts = Append(@, c)]))

nextContractNo(s) == NextId(s.contracts)
defaultStatus(status) == IF status = None THEN "Planning" ELSE status
CreateContract(d, s, in) ==
  insertContract(d, s, [in EXCEPT !.status = defaultStatus(@)])

Patched(c, patch) == [f \in DOMAIN c |-> IF f \in DOMAIN patch THEN patch[f] ELSE c[f]]
updateContract(d, s, no, patch) ==
  LET i == Find(s.contracts, no)
      updated == Patched(s.contracts[i], patch)
  IN IF i = 0 THEN Ends(d, s, "notfound")
     ELSE After(s, Repo!UpdateContract(d, updated),
                recalcZoneCounts([s EXCEPT !.contracts[i] = updated]))

deleteContract(d, s, no) ==
  LET i == Find(s.contracts, no)
  IN IF i = 0 THEN Ends(d, s, "notfound")
     ELSE After(s, Repo!DeleteContract(d, no),
                recalcZoneCounts([s EXCEPT !.contracts = RemoveAt(@, i)]))

(* The zones a mutation moved contracts in or out of, of those the cache   *)
(* knows; persistZoneCount writes one of them, whatever the answer.        *)
(* Fault: only the zone a contract leaves. *)
AffectedZoneLeft(s, codes) == SelectSeq(SubSeq(codes, 1, 1), LAMBDA z : Find(s.zones, z) # 0)
AffectedZones(s, codes) == SelectSeq(codes, LAMBDA z : Find(s.zones, z) # 0)
persistZoneCount(d, s, code) ==
  {[o EXCEPT !.err = "ok"] :
     o \in After(s, Repo!UpdateZoneCount(d, code, s.zones[Find(s.zones, code)].count), s)}

-----------------------------------------------------------------------------
(* Engineers, milestones, materials *)

CreateEngineer(d, s, data) ==
  LET e == [id |-> NextId(s.engineers), data |-> data]
  IN Grown(s, "engineers", e, Repo!InsertEngineer(d, e))
PatchEngineer(d, s, id, data) ==
  Rewritten(d, s, "engineers", id, LAMBDA e : [e EXCEPT !.data = data], Repo!UpdateEngineer)
DeleteEngineer(d, s, id) == Dropped(d, s, "engineers", id, Repo!DeleteEngineer)

CreateMilestone(d, s, data) ==
  LET m == [id |-> NextId(s.milestones), data |-> data]
  IN Grown(s, "milestones", m, Repo!InsertMilestone(d, m))
PatchMilestone(d, s, id, data) ==
  Rewritten(d, s, "milestones", id, LAMBDA m : [m EXCEPT !.data = data], Repo!UpdateMilestone)
DeleteMilestone(d, s, id) == Dropped(d, s, "milestones", id, Repo!DeleteMilestone)

CreateMaterial(d, s, data) ==
  LET m == [id |-> NextId(s.materials), data |-> data]
  IN Grown(s, "materials", m, Repo!InsertMaterial(d, m))
PatchMaterial(d, s, id, data) ==
  Rewritten(d, s, "materials", id, LAMBDA m : [m EXCEPT !.data = data], Repo!UpdateMaterial)
DeleteMaterial(d, s, id) == Dropped(d, s, "materials", id, Repo!DeleteMaterial)

-----------------------------------------------------------------------------
(* Users and custom roles *)

CreateUser(d, s, email, role) ==
  LET u == [id |-> NextId(s.users), email |-> email, name |-> "given", status |-> "active", role |-> role]
  IN IF \E v \in Range(s.users) : v.email = email THEN Ends(d, s, "conflict")
     ELSE Grown(s, "users", u, Repo!InsertWorkspaceUser(d, u))
PatchUser(d, s, id, patch) ==
  Rewritten(d, s, "users", id, LAMBDA u : Patched(u, patch), Repo!UpdateWorkspaceUser)
DeactivateUser(d, s, id) == PatchUser(d, s, id, [status |-> "inactive"])

(* The caller's own row is found by e-mail, then patched by id. *)
PatchProfileForSession(d, s, email, name) ==
  LET i == SelectInSeq(s.users, LAMBDA u : u.email = email)
  IN IF i = 0 THEN Ends(d, s, "notfound")
     ELSE PatchUser(d, s, s.users[i].id, [name |-> name])

CreateRole(d, s, data) ==
  LET r == [id |-> NextId(s.roles), data |-> data]
  IN Grown(s, "roles", r, Repo!InsertCustomRole(d, r))
PatchRole(d, s, id, data) ==
  Rewritten(d, s, "roles", id, LAMBDA r : [r EXCEPT !.data = data], Repo!UpdateCustomRole)
DeleteRole(d, s, id) ==
  LET i == Find(s.roles, id)
      freed(u) == IF u.role = id THEN [u EXCEPT !.role = None] ELSE u
  IN IF i = 0 THEN Ends(d, s, "notfound")
     ELSE After(s, Repo!DeleteCustomRole(d, id),
                [s EXCEPT !.roles = RemoveAt(@, i),
                          !.users = [k \in DOMAIN @ |-> freed(@[k])]])

-----------------------------------------------------------------------------
(* Task projects, addressed by their position in the cache.  A project     *)
(* whose surrogate is 0 never reaches the repository.                      *)

SkipRepo(d) == {Repo!Told(d, "ok")}
Stored(d, p, stmts) == IF p.dbid # 0 THEN stmts ELSE SkipRepo(d)

CreateProject(d, s, name) ==
  After(s, Repo!InsertTaskProject(d, name),
        [s EXCEPT !.projects = Append(@, [dbid |-> d.serial, name |-> name, tasks |-> <<>>])])
PatchProject(d, s, i, name) ==
  IF i \notin DOMAIN s.projects THEN Ends(d, s, "notfound")
  ELSE After(s, Stored(d, s.projects[i], Repo!UpdateTaskProject(d, s.projects[i].dbid, name)),
             [s EXCEPT !.projects[i].name = name])
DeleteProject(d, s, i) ==
  IF i \notin DOMAIN s.projects THEN Ends(d, s, "notfound")
  ELSE After(s, Stored(d, s.projects[i], Repo!DeleteTaskProject(d, s.projects[i].dbid)),
             [s EXCEPT !.projects = RemoveAt(@, i)])

CreateTask(d, s, i, id, title) ==
  LET t == [id |-> id, title |-> title]
  IN IF i \notin DOMAIN s.projects THEN Ends(d, s, "notfound")
     ELSE After(s, Stored(d, s.projects[i], Repo!InsertTaskItem(d, s.projects[i].dbid, t)),
                [s EXCEPT !.projects[i].tasks = Append(@, t)])
PatchTask(d, s, i, id, title) ==
  LET p == s.projects[i]
      k == Find(p.tasks, id)
  IN IF i \notin DOMAIN s.projects \/ k = 0 THEN Ends(d, s, "notfound")
     ELSE After(s, Stored(d, p, Repo!UpdateTaskItem(d, p.dbid, [id |-> id, title |-> title])),
                [s EXCEPT !.projects[i].tasks[k].title = title])
DeleteTask(d, s, i, id) ==
  LET p == s.projects[i]
      k == Find(p.tasks, id)
  IN IF i \notin DOMAIN s.projects \/ k = 0 THEN Ends(d, s, "notfound")
     ELSE After(s, Stored(d, p, Repo!DeleteTaskItem(d, p.dbid, id)),
                [s EXCEPT !.projects[i].tasks = RemoveAt(@, k)])

-----------------------------------------------------------------------------
(* Log, messages, photos, scan.  appendAudit stores the entry, drops a     *)
(* failure, and enters the ring under a lock of its own afterwards.        *)

auditStored(d, s, entry) ==
  {[o EXCEPT !.err = "ok"] : o \in After(s, Repo!InsertAuditAndTrim(d, entry, AuditKeep), s)}
(* Fault: the ring is not cut. *)
auditRingUncut(s, entry) == [s EXCEPT !.audit = <<entry>> \o @]
auditRing(s, entry) ==
  LET ring == <<entry>> \o s.audit
  IN [s EXCEPT !.audit = SubSeq(ring, 1, IF Len(ring) > AuditKeep THEN AuditKeep ELSE Len(ring))]

PostAssistance(d, s, msg) ==
  After(s, Repo!InsertAssistance(d, msg), [s EXCEPT !.assistance = <<msg>> \o @])
SetProfilePhoto(d, s, email, photo) ==
  IF photo = None
  THEN After(s, Repo!DeleteProfilePhoto(d, email), [s EXCEPT !.photos = Repo!Without(@, email)])
  ELSE After(s, Repo!UpsertProfilePhoto(d, email, photo),
             [s EXCEPT !.photos = Repo!With(@, email, photo)])
(* A failure is logged and the caller answered as if it had worked. *)
SetAiScan(d, s, scan) ==
  {[o EXCEPT !.err = "ok"] : o \in After(s, Repo!UpsertAiScan(d, scan), [s EXCEPT !.scan = scan])}

-----------------------------------------------------------------------------
(* The bulk PUTs: the cache first, the repository after the lock is gone. *)

ReplaceWorkspace(s, ws) ==
  recalcZoneCounts([s EXCEPT !.zones = ws.zones, !.contracts = ws.contracts,
                             !.engineers = ws.engineers, !.users = ws.users])
(* The audit log is kept; projects decoded from JSON carry no surrogate. *)
ReplaceFrontend(s, fe) ==
  [s EXCEPT !.milestones = fe.milestones, !.materials = fe.materials, !.roles = fe.roles,
            !.projects = [i \in DOMAIN fe.projects |->
               [dbid |-> 0, name |-> fe.projects[i].name, tasks |-> fe.projects[i].tasks]],
            !.assistance = fe.assistance, !.photos = fe.photos, !.scan = fe.scan]

(* The copy shares its arrays, and the map of photos, with the cache until *)
(* a bulk PUT gives the cache new ones, so SaveState reads of every row    *)
(* either what was copied or what the cache has written there since.       *)
Torn(copy, now) ==
  {rows \in [DOMAIN copy -> Range(copy) \cup Range(now)] :
     \A i \in DOMAIN copy : rows[i] = copy[i] \/ (i \in DOMAIN now /\ rows[i] = now[i])}
TornStores(copy, now, shared) ==
  LET moved == {t \in shared \ {"photos"} : copy[t] # now[t]}
      reads == {rows \in [moved -> UNION {Torn(copy[t], now[t]) : t \in moved}] :
                  \A t \in moved : rows[t] \in Torn(copy[t], now[t])}
      photos == {copy.photos} \cup (IF "photos" \in shared THEN {now.photos} ELSE {})
      read(rows, map) ==
        [t \in DOMAIN copy |-> IF t \in moved THEN rows[t] ELSE IF t = "photos" THEN map ELSE copy[t]]
  IN UNION {{read(rows, map) : rows \in reads} : map \in photos}
bulkSaved(d, copy, now, shared) ==
  UNION {Repo!SaveState(d, s) : s \in TornStores(copy, now, shared)}

-----------------------------------------------------------------------------
(* What a session may do and see. *)

sessionHasPermission(sess, key) ==
  sess.role \in {"super_admin", "admin"} \/ key \in sess.permissions \/ "*" \in sess.permissions
sessionCanMutate(sess) ==
  sess.role \in {"super_admin", "admin", "manager"} \/ sessionHasPermission(sess, "contracts.update")
sessionCanManageRoles(sess) ==
  \E key \in {"roles.update", "roles.create", "roles.manage"} : sessionHasPermission(sess, key)
(* Fault: any supervisor will do. *)
CanEditAnyContract(s, sess, no) == sessionCanMutate(sess) \/ (sess.role = "contractor" /\ sess.sup # None)
CanEditContractCtx(s, sess, no) ==
  \/ sessionCanMutate(sess)
  \/ /\ sess.role = "contractor" /\ sess.sup # None
     /\ \E c \in Range(s.contracts) : c.id = no /\ c.sup = sess.sup

filterContractsForSession(contracts, sess) ==
  IF sess.role # "contractor" \/ sess.sup = None THEN contracts
  ELSE SelectSeq(contracts, LAMBDA c : c.sup = sess.sup)
FilterWorkspace(s, sess) ==
  [zones     |-> IF sessionHasPermission(sess, "zones.read") THEN s.zones ELSE <<>>,
   contracts |-> IF sessionHasPermission(sess, "contracts.read")
                 THEN filterContractsForSession(s.contracts, sess) ELSE <<>>,
   engineers |-> IF sessionHasPermission(sess, "users.read") THEN s.engineers ELSE <<>>,
   users     |-> IF sessionHasPermission(sess, "users.read") THEN s.users ELSE <<>>]
===============================================================================
