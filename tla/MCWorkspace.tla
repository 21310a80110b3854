------------------------------ MODULE MCWorkspace ------------------------------
(* Instances of WorkspaceService.  The requests of a behaviour stay within *)
(* one group of tables (focus), chosen at the start.  A bulk PUT of the    *)
(* workspace mixes with zones, people and log, one of the frontend with    *)
(* people, registers and tasks, the audit entry of a bulk PUT with the log *)
(* only, restarts with every group but "contracts": there contracts come   *)
(* and go over fixed zones; in "zones" a contract there is moves while     *)
(* zones, bulk PUTs and restarts come and go.                              *)
EXTENDS WorkspaceService

VARIABLE focus
Groups == {"contracts", "zones", "people", "registers", "tasks", "log"}

Row(id, x) == [id |-> id, data |-> x]
Contract(no, z) == [id |-> no, zone |-> z, sup |-> "s1", status |-> "Planning", report |-> 0]
Zone(z, n) == [id |-> z, name |-> IF z = 1 THEN "a" ELSE "b", count |-> n]
User(id, e, role) == [id |-> id, email |-> e, name |-> "given", status |-> "active", role |-> role]

MCStart ==
  [zones |-> <<Zone(1, 1), Zone(2, 0)>>, contracts |-> <<Contract(1, 1)>>,
   engineers |-> <<Row(1, "a")>>, users |-> <<User(1, "e1", 1)>>,
   milestones |-> <<Row(1, "a"), Row(2, "a")>>, materials |-> <<Row(1, "a")>>, roles |-> <<Row(1, "a")>>,
   projects |-> (1 :> [id |-> 1, order |-> 0, name |-> "a"]), tasks |-> <<>>, audit |-> <<1>>,
   assistance |-> <<>>, photos |-> <<>>, scan |-> None, serial |-> 2]
MCStartDb == {MCStart}

Admin == [role |-> "super_admin", permissions |-> {}, sup |-> None]
Contractor == [role |-> "contractor", permissions |-> {"contracts.read"}, sup |-> "s1"]
MCSessions == {Admin, Contractor}

(* One snapshot that the constraints accept and one whose contract has no zone. *)
MCWorkspaces ==
  {[zones |-> <<Zone(1, 0), Zone(2, 0)>>, contracts |-> <<Contract(1, 2)>>, engineers |-> <<>>, users |-> <<>>],
   [zones |-> <<>>, contracts |-> <<Contract(2, 1)>>, engineers |-> <<Row(2, "a")>>, users |-> <<>>]}
MCFrontends ==
  {[milestones |-> <<Row(1, "b")>>, materials |-> <<>>, roles |-> <<>>,
    projects |-> <<[name |-> "b", tasks |-> <<>>]>>, assistance |-> <<>>, photos |-> <<>>, scan |-> None]}

ContractSteps ==
  \/ \E h \in Handlers, r \in Replicas : PatchBegins(h, r) \/ DeleteBegins(h, r)
  \/ \E h \in Handlers : PatchContract(h) \/ DeleteContract(h) \/ CountZone(h) \/ PublishContract(h)

MCInit == Init /\ focus \in Groups
MCNext ==
  /\ UNCHANGED focus
  /\ \/ focus = "contracts" /\ (ContractSteps \/ \E h \in Handlers, r \in Replicas : ContractPosted(h, r))
     \/ focus = "zones" /\ (ContractSteps \/ \E r \in Replicas : ZoneRequests(r))
     \/ focus = "people" /\ PeopleNext
     \/ focus = "registers" /\ RegisterNext
     \/ focus = "tasks" /\ TaskNext
     \/ focus = "log" /\ LogNext
     \/ focus \in {"people", "registers", "tasks"} /\ FrontendBulkNext
     \/ focus = "log" /\ BulkNext
     \/ focus \in {"zones", "people", "log"} /\ \E h \in Handlers, r \in Replicas : PutWorkspace(h, r)
     \/ \E h \in Handlers : SaveSnapshot(h) \/ SeedWorkspace(h)
     \/ focus # "contracts" /\ \E r \in Replicas : Restart(r)
MCSpec == MCInit /\ [][MCNext]_<<vars, focus>>
Symmetry == Permutations(Replicas) \cup Permutations(Handlers)
===============================================================================
