---------------------------- MODULE WorkspaceTables ----------------------------
(***************************************************************************)
(* The operational tables of the workspace (zones, contracts, engineers,   *)
(* users, milestones, materials, roles, task projects and items, the audit *)
(* log, assistance messages, photos, the AI scan) and the statements that  *)
(* internal/persistence runs on them.  A database d is a record of tables; *)
(* a keyed table maps a primary key to its row, every row carries its key  *)
(* as id.  A statement is the set of its outcomes [db, err]: what the      *)
(* tables are afterwards and what the caller is told.                      *)
(***************************************************************************)
EXTENDS Integers, Sequences, FiniteSets, SequencesExt

CONSTANTS
  None,      \* the SQL NULL, an absent value
  Faults     \* TRUE when a statement may fail or lose its answer

Keyed == {"zones", "contracts", "engineers", "users", "milestones", "materials", "roles"}

(***************************************************************************)
(* The schema: the columns of a table, its rows under their primary key,   *)
(* the rows as a replica or a request body lists them (the tasks inside a  *)
(* project are its items), the UNIQUE order of the projects.               *)
(***************************************************************************)
Columns ==
  [zones |-> {"id", "name", "count"}, contracts |-> {"id", "zone", "sup", "status", "report"},
   engineers |-> {"id", "data"}, users |-> {"id", "email", "name", "status", "role"},
   milestones |-> {"id", "data"}, materials |-> {"id", "data"}, roles |-> {"id", "data"},
   projects |-> {"id", "order", "name"}, tasks |-> {"id", "project", "title"},
   items |-> {"id", "title"}]
Tables == Keyed \cup {"projects", "tasks"}

IsRow(t, x) == x = [f \in Columns[t] |-> x[f]] /\ x.id \in Int
IsTable(t, table) ==
  /\ table = [id \in DOMAIN table |-> table[id]] /\ IsFiniteSet(DOMAIN table)
  /\ \A id \in DOMAIN table : IsRow(t, table[id]) /\ table[id].id = id
IsLog(rows) == rows \in Seq(Range(rows))
IsList(t, rows) == IsLog(rows) /\ \A x \in Range(rows) : IsRow(t, x)

Numbered(d) ==
  /\ \A p \in DOMAIN d.projects : p \in 1..(d.serial - 1) /\ d.projects[p].order \in Int
  /\ \A p, q \in DOMAIN d.projects : d.projects[p].order = d.projects[q].order => p = q
IsDb(d) ==
  /\ DOMAIN d = Tables \cup {"audit", "assistance", "photos", "scan", "serial"}
  /\ \A t \in Tables : IsTable(t, d[t])
  /\ IsLog(d.assistance) /\ d.serial \in Nat \ {0} /\ Numbered(d)

(***************************************************************************)
(* Outcomes.  A statement that meets no constraint runs; with Faults it    *)
(* may also fail before it takes effect, or take effect and lose the       *)
(* answer.  A constraint refuses it.  UPDATE and DELETE of no row is told  *)
(* apart (errOrNotFound).                                                  *)
(***************************************************************************)
Told(d, e) == [db |-> d, err |-> e]
Refused(d) == {Told(d, "failed")}
Ran(d, after) ==
  {Told(after, "ok")} \cup (IF Faults THEN {Told(d, "failed"), Told(after, "lost")} ELSE {})

errOrNotFound(d, hit, after) ==
  IF hit THEN Ran(d, after)
  ELSE {Told(d, "notfound")} \cup (IF Faults THEN Refused(d) ELSE {})

With(table, id, row) == [k \in DOMAIN table \cup {id} |-> IF k = id THEN row ELSE table[k]]
Without(table, id) == Restrict(table, DOMAIN table \ {id})

(* Fault: an insert that overwrites the row it meets. *)
InsertOver(d, t, row) == Ran(d, [d EXCEPT ![t] = With(@, row.id, row)])

Insert(d, t, row) ==
  IF row.id \in DOMAIN d[t] THEN Refused(d)
  ELSE Ran(d, [d EXCEPT ![t] = With(@, row.id, row)])
Update(d, t, row) ==
  errOrNotFound(d, row.id \in DOMAIN d[t], [d EXCEPT ![t][row.id] = row])
Delete(d, t, id) ==
  errOrNotFound(d, id \in DOMAIN d[t], [d EXCEPT ![t] = Without(@, id)])

-----------------------------------------------------------------------------
(* Contracts reference their zone; zones carry a derived contract count. *)

InsertContract(d, c) ==
  IF c.zone \notin DOMAIN d.zones THEN Refused(d) ELSE Insert(d, "contracts", c)
UpdateContract(d, c) ==
  IF c.id \in DOMAIN d.contracts /\ c.zone \notin DOMAIN d.zones THEN Refused(d)
  ELSE Update(d, "contracts", c)
DeleteContract(d, no) == Delete(d, "contracts", no)

InsertZone(d, z) == Insert(d, "zones", [z EXCEPT !.count = 0])
UpdateZone(d, z) ==
  errOrNotFound(d, z.id \in DOMAIN d.zones, [d EXCEPT !.zones[z.id].name = z.name])
UpdateZoneCount(d, code, n) ==
  errOrNotFound(d, code \in DOMAIN d.zones, [d EXCEPT !.zones[code].count = n])
DeleteZone(d, code) ==
  IF \E no \in DOMAIN d.contracts : d.contracts[no].zone = code THEN Refused(d)
  ELSE Delete(d, "zones", code)

-----------------------------------------------------------------------------
(* Engineers, milestones, materials: one table each, no other constraint. *)

InsertEngineer(d, e) == Insert(d, "engineers", e)
UpdateEngineer(d, e) == Update(d, "engineers", e)
DeleteEngineer(d, id) == Delete(d, "engineers", id)

InsertMilestone(d, m) == Insert(d, "milestones", m)
UpdateMilestone(d, m) == Update(d, "milestones", m)
DeleteMilestone(d, id) == Delete(d, "milestones", id)

InsertMaterial(d, m) == Insert(d, "materials", m)
UpdateMaterial(d, m) == Update(d, "materials", m)
DeleteMaterial(d, id) == Delete(d, "materials", id)

(* Users: the e-mail is UNIQUE.  Nothing ties custom_role_id to a role. *)
EmailTaken(d, u) ==
  \E id \in DOMAIN d.users \ {u.id} : d.users[id].email = u.email
InsertWorkspaceUser(d, u) ==
  IF EmailTaken(d, u) THEN Refused(d) ELSE Insert(d, "users", u)
UpdateWorkspaceUser(d, u) ==
  IF u.id \in DOMAIN d.users /\ EmailTaken(d, u) THEN Refused(d) ELSE Update(d, "users", u)

InsertCustomRole(d, r) == Insert(d, "roles", r)
UpdateCustomRole(d, r) == Update(d, "roles", r)
(* One transaction: the users that hold the role lose it with it. *)
DeleteCustomRole(d, id) ==
  errOrNotFound(d, id \in DOMAIN d.roles,
    [d EXCEPT !.roles = Without(@, id),
              !.users = [u \in DOMAIN @ |->
                 IF @[u].role = id THEN [@[u] EXCEPT !.role = None] ELSE @[u]]])

-----------------------------------------------------------------------------
(* The audit table in logged_at_ts order, oldest first; messages in id order. *)

Newest(log, keep) == SubSeq(log, IF Len(log) > keep THEN Len(log) - keep + 1 ELSE 1, Len(log))
InsertAuditAndTrim(d, a, keep) == Ran(d, [d EXCEPT !.audit = Newest(Append(@, a), keep)])
InsertAssistance(d, m) == Ran(d, [d EXCEPT !.assistance = Append(@, m)])
UpsertProfilePhoto(d, email, photo) == Ran(d, [d EXCEPT !.photos = With(@, email, photo)])
DeleteProfilePhoto(d, email) == Ran(d, [d EXCEPT !.photos = Without(@, email)])
UpsertAiScan(d, scan) == Ran(d, [d EXCEPT !.scan = scan])

-----------------------------------------------------------------------------
(* Projects have a serial surrogate id and a UNIQUE sort_order, tasks a    *)
(* foreign key to their project.  MAX(sort_order) + 1 is read by a         *)
(* statement of its own: when two replicas read it together the UNIQUE     *)
(* constraint refuses the second, which is an outcome Faults allows.       *)

Orders(d) == {d.projects[id].order : id \in DOMAIN d.projects}
NextOrder(d) == IF Orders(d) = {} THEN 0 ELSE 1 + Max(Orders(d))
(* Fault: COUNT instead of MAX + 1, and nothing to refuse it. *)
InsertTaskProjectCounted(d, name) ==
  LET p == [id |-> d.serial, order |-> Cardinality(DOMAIN d.projects), name |-> name]
  IN Ran(d, [d EXCEPT !.projects = With(@, p.id, p), !.serial = @ + 1])
InsertTaskProject(d, name) ==
  LET p == [id |-> d.serial, order |-> NextOrder(d), name |-> name]
  IN IF p.order \in Orders(d) THEN Refused(d)
     ELSE Ran(d, [d EXCEPT !.projects = With(@, p.id, p), !.serial = @ + 1])
UpdateTaskProject(d, id, name) ==
  errOrNotFound(d, id \in DOMAIN d.projects, [d EXCEPT !.projects[id].name = name])
DeleteTaskProject(d, id) ==
  errOrNotFound(d, id \in DOMAIN d.projects,
    [d EXCEPT !.projects = Without(@, id),
              !.tasks = Restrict(@, {t \in DOMAIN @ : @[t].project # id})])

TaskOf(d, project, id) == id \in DOMAIN d.tasks /\ d.tasks[id].project = project
InsertTaskItem(d, project, t) ==
  IF t.id \in DOMAIN d.tasks \/ project \notin DOMAIN d.projects THEN Refused(d)
  ELSE Ran(d, [d EXCEPT !.tasks = With(@, t.id, [id |-> t.id, project |-> project, title |-> t.title])])
UpdateTaskItem(d, project, t) ==
  errOrNotFound(d, TaskOf(d, project, t.id), [d EXCEPT !.tasks[t.id].title = t.title])
DeleteTaskItem(d, project, id) ==
  errOrNotFound(d, TaskOf(d, project, id), [d EXCEPT !.tasks = Without(@, id)])

-----------------------------------------------------------------------------
(* The snapshot path.  A store s is what a replica caches: a sequence of   *)
(* rows for every keyed table, the projects with their tasks inside, the   *)
(* audit log newest first.                                                 *)

(* ORDER BY a column that is unique: the i-th row is the one that i rows   *)
(* do not exceed.                                                          *)
OrderBy(table, column) ==
  LET upTo(id) == {k \in DOMAIN table : table[k][column] <= table[id][column]}
  IN [i \in 1..Cardinality(DOMAIN table) |->
        table[CHOOSE id \in DOMAIN table : Cardinality(upTo(id)) = i]]
ById(table) == OrderBy(table, "id")

loadTasks(d) ==
  LET inOrder == OrderBy(d.projects, "order")
      tasksOf(p) == ById(Restrict(d.tasks, {t \in DOMAIN d.tasks : d.tasks[t].project = p}))
      item(t) == [id |-> t.id, title |-> t.title]
  IN [i \in DOMAIN inOrder |->
        [dbid  |-> inOrder[i].id,
         name  |-> inOrder[i].name,
         tasks |-> [k \in DOMAIN tasksOf(inOrder[i].id) |-> item(tasksOf(inOrder[i].id)[k])]]]

LoadState(d) ==
  [zones |-> ById(d.zones), contracts |-> ById(d.contracts), engineers |-> ById(d.engineers),
   users |-> ById(d.users), milestones |-> ById(d.milestones), materials |-> ById(d.materials),
   roles |-> ById(d.roles), audit |-> Reverse(d.audit), assistance |-> d.assistance,
   photos |-> d.photos, projects |-> loadTasks(d), scan |-> d.scan]

Distinct(rows) == \A i, j \in DOMAIN rows : i # j => rows[i].id # rows[j].id
AsTable(rows) == [id \in {rows[i].id : i \in DOMAIN rows} |-> CHOOSE row \in Range(rows) : row.id = id]

(* What the constraints demand of a whole store. *)
Storable(s) ==
  /\ \A t \in Keyed : Distinct(s[t])
  /\ \A c \in Range(s.contracts) : \E z \in Range(s.zones) : z.id = c.zone
  /\ \A u, v \in Range(s.users) : u.email = v.email => u.id = v.id
  /\ Distinct(FlattenSeq([i \in DOMAIN s.projects |-> s.projects[i].tasks]))

(* Deletes every row and inserts the store, in one transaction.  Projects  *)
(* get new surrogates.  The audit entries are inserted newest first, each  *)
(* stamped with the time of its insertion.  An absent scan is not written. *)
SaveState(d, s) ==
  LET dbid(i) == d.serial + i - 1
      rowsOf(i) == {[id |-> t.id, project |-> dbid(i), title |-> t.title] : t \in Range(s.projects[i].tasks)}
      items == UNION {rowsOf(i) : i \in DOMAIN s.projects}
  IN IF ~Storable(s) THEN Refused(d)
     ELSE Ran(d, [zones |-> AsTable(s.zones), contracts |-> AsTable(s.contracts),
                  engineers |-> AsTable(s.engineers), users |-> AsTable(s.users),
                  milestones |-> AsTable(s.milestones), materials |-> AsTable(s.materials),
                  roles |-> AsTable(s.roles), audit |-> s.audit, assistance |-> s.assistance,
                  photos |-> s.photos,
                  projects |-> [id \in {dbid(i) : i \in DOMAIN s.projects} |->
                                  [id |-> id, order |-> id - d.serial,
                                   name |-> s.projects[id - d.serial + 1].name]],
                  tasks |-> [id \in {t.id : t \in items} |-> CHOOSE t \in items : t.id = id],
                  scan |-> IF s.scan = None THEN d.scan ELSE s.scan,
                  serial |-> d.serial + Len(s.projects)])
===============================================================================
