-------------------------- MODULE ContractLifecycle --------------------------
(***************************************************************************)
(* The governance contract: its lifecycle, its activity trail, its         *)
(* documents and its discussion thread                                     *)
(* (internal/controllers/governance_controller.go,                         *)
(* governance_documents.go, internal/models/governance.go,                 *)
(* internal/imports/monthly_report.go).                                    *)
(*                                                                         *)
(* Every handler that changes a contract reads the row, changes its copy   *)
(* and writes the whole copy back (UpdateContract), whatever the row holds *)
(* by then.  Only the discussion thread has a statement of its own.  The   *)
(* other columns of the row behave as its documents do; the value, which   *)
(* approvals also change, is in VariationWorkflow.                         *)
(***************************************************************************)
EXTENDS Sequences, Functions, Naturals

CONSTANTS
    Contracts,   \* contract ids
    Docs,        \* document ids
    Handlers,    \* requests in service at one time
    ChatOn,      \* the chat service is configured
    Imports,     \* monthly-report workbooks are imported
    Faults,      \* requests may die and dropped errors may happen
    Created,     \* statuses contracts are created in
    MaxTrail,    \* bound on the status entries of a trail
    NoRow,       \* an id not used yet
    Gone         \* an id whose row is deleted

ASSUME LifecycleAssumption ==
    /\ {ChatOn, Imports, Faults} \subseteq BOOLEAN
    /\ MaxTrail \in Nat \ {0}
    /\ Contracts # {}
    /\ Created \subseteq {"Draft", "Under Review", "Approved", "Active", "Suspended",
                         "Completed", "Closed", "Terminated"}

VARIABLES
    contract,    \* table gov_contracts
    told,        \* the last status of each contract told to other services
    linking,     \* contracts whose thread is being made in the background
    handler,     \* what each request has read and has still to do
    wanted,      \* the documents users mean each contract to have
    threads,     \* contracts whose thread was recorded
    imported,    \* contracts an import has written
    overlapped   \* contracts on which two writers overlapped

vars == <<contract, told, linking, handler, wanted, threads, imported, overlapped>>

-----------------------------------------------------------------------------
\* govTransitions.
Transitions ==
    [s \in {"Draft", "Under Review", "Approved", "Active", "Suspended",
            "Completed", "Closed", "Terminated"} |->
        CASE s = "Draft"        -> {"Under Review", "Terminated"}
          [] s = "Under Review" -> {"Approved", "Draft", "Terminated"}
          [] s = "Approved"     -> {"Active", "Terminated"}
          [] s = "Active"       -> {"Suspended", "Completed", "Terminated"}
          [] s = "Suspended"    -> {"Active", "Terminated"}
          [] s = "Completed"    -> {"Closed"}
          [] s \in {"Closed", "Terminated"} -> {}]

Statuses == DOMAIN Transitions

\* Fault: a contract that is over may be taken up again.
CanTransitionToAny(s, next) == s = next \/ next \in Transitions[s] \/ s = "Completed"

CanTransitionTo(s, next) == s = next \/ next \in Transitions[s]

\* A status, or none.
Told == {""} \cup Statuses

\* The trail keeps, of the activity column, the creation and the status changes; the
\* creation by an import names no status.
ContractRow == [status : Statuses, trail : Seq(Told), docs : SUBSET Docs,
                thread : BOOLEAN]

ASSUME NoRowAssumption == NoRow # Gone /\ {NoRow, Gone} \cap ContractRow = {}

\* A request has read the row it will write back, or has a status to tell of.
Request == [op : {"idle", "read", "tell"}, of : Contracts,
            row : ContractRow \cup {NoRow}, news : Told]

Idle == [op |-> "idle", of |-> CHOOSE c \in Contracts : TRUE, row |-> NoRow, news |-> ""]

Telling(c, status) == [Idle EXCEPT !.op = "tell", !.of = c, !.news = status]

Exists(c) == contract[c] \notin {NoRow, Gone}

\* A request holds a copy of c that it is going to write back.
Writing(r, c) == handler[r].of = c /\ handler[r].op = "read"

\* lifecycleFor: the execution status of a workbook row tells which.
LifecycleFor == {"Active", "Completed"}

-----------------------------------------------------------------------------
Init ==
    /\ contract = [c \in Contracts |-> NoRow]
    /\ told = [c \in Contracts |-> ""]
    /\ linking = {}
    /\ handler = [r \in Handlers |-> Idle]
    /\ wanted = [c \in Contracts |-> {}]
    /\ threads = {}
    /\ imported = {}
    /\ overlapped = {}

End(r) == handler' = [handler EXCEPT ![r] = Idle]

\* CreateContract: the code takes any valid status.
CreateContract(r, c) ==
    /\ handler[r].op = "idle"
    /\ contract[c] = NoRow
    /\ \E status \in Created, docs \in SUBSET Docs :
          /\ contract' = [contract EXCEPT ![c] =
                 [status |-> status, trail |-> <<status>>, docs |-> docs, thread |-> FALSE]]
          /\ wanted' = [wanted EXCEPT ![c] = docs]
          /\ handler' = [handler EXCEPT ![r] = Telling(c, status)]
    /\ linking' = IF ChatOn THEN linking \cup {c} ELSE linking
    /\ UNCHANGED <<told, threads, imported, overlapped>>

\* The read with which each request that writes the row back begins.
GetContract(r, c) ==
    /\ handler[r].op = "idle"
    /\ Exists(c)
    /\ handler' = [handler EXCEPT ![r] = [@ EXCEPT !.op = "read", !.of = c, !.row = contract[c]]]
    /\ overlapped' = IF \E q \in Handlers : Writing(q, c) THEN overlapped \cup {c} ELSE overlapped
    /\ UNCHANGED <<contract, told, linking, wanted, threads, imported>>

\* Fault: the activity column is left out of the update.
UpdateContractNoActivity(stored, mine) == [mine EXCEPT !.trail = stored.trail]

\* Fault: the documents column is.
UpdateContractNoDocuments(stored, mine) == [mine EXCEPT !.docs = stored.docs]

\* UpdateContract: every column from the row in memory.
UpdateContract(stored, mine) == mine

Write(r, c, mine) ==
    /\ Exists(c)
    /\ contract' = [contract EXCEPT ![c] = UpdateContract(contract[c], mine)]

\* PatchContract without a status, or with the one the row had.
PatchContract(r) ==
    /\ handler[r].op = "read"
    /\ LET c == handler[r].of
           row == handler[r].row IN
       \/ Write(r, c, row) /\ UNCHANGED wanted
       \/ \E docs \in SUBSET Docs :
             /\ Write(r, c, [row EXCEPT !.docs = docs])
             /\ wanted' = [wanted EXCEPT ![c] = docs]
    /\ End(r)
    /\ UNCHANGED <<told, linking, threads, imported, overlapped>>

\* "Status changed: prev -> status".
TrailEntry(row, next) == Append(row.trail, next)

\* PatchContract with another status.
ChangeStatus(r) ==
    /\ handler[r].op = "read"
    /\ LET c == handler[r].of
           row == handler[r].row IN
       \E next \in Statuses :
          /\ next # row.status
          /\ CanTransitionTo(row.status, next)
          /\ Len(row.trail) < MaxTrail
          /\ Write(r, c, [row EXCEPT !.status = next, !.trail = TrailEntry(row, next)])
          /\ handler' = [handler EXCEPT ![r] = Telling(c, next)]
    /\ UNCHANGED <<told, linking, wanted, threads, imported, overlapped>>

AddContractDoc(r) ==
    /\ handler[r].op = "read"
    /\ LET c == handler[r].of
           row == handler[r].row IN
       \E d \in Docs :
          /\ Write(r, c, [row EXCEPT !.docs = @ \cup {d}])
          /\ wanted' = [wanted EXCEPT ![c] = @ \cup {d}]
    /\ End(r)
    /\ UNCHANGED <<told, linking, threads, imported, overlapped>>

DeleteContractDoc(r) ==
    /\ handler[r].op = "read"
    /\ LET c == handler[r].of
           row == handler[r].row IN
       \E d \in Docs :
          /\ Write(r, c, [row EXCEPT !.docs = @ \ {d}])
          /\ wanted' = [wanted EXCEPT ![c] = @ \ {d}]
    /\ End(r)
    /\ UNCHANGED <<told, linking, threads, imported, overlapped>>

\* upsertContract for a number no contract has; nothing is told to anybody.
ImportContract(r, c) ==
    /\ Imports
    /\ handler[r].op = "idle"
    /\ contract[c] = NoRow
    /\ \E status \in LifecycleFor :
          contract' = [contract EXCEPT ![c] =
              [status |-> status, trail |-> <<"">>, docs |-> {}, thread |-> FALSE]]
    /\ imported' = imported \cup {c}
    /\ UNCHANGED <<told, linking, handler, wanted, threads, overlapped>>

\* upsertContract for the number of a contract: id, documents and activity are
\* those it was read with, the rest comes from the workbook or is empty.
ImportOver(r) ==
    /\ Imports
    /\ handler[r].op = "read"
    /\ \E status \in LifecycleFor :
          Write(r, handler[r].of, [handler[r].row EXCEPT !.status = status, !.thread = FALSE])
    /\ imported' = imported \cup {handler[r].of}
    /\ End(r)
    /\ UNCHANGED <<told, linking, wanted, threads, overlapped>>

\* publishStatus: an enqueue whose error is dropped.
PublishStatus(r) ==
    /\ handler[r].op = "tell"
    /\ \/ told' = [told EXCEPT ![handler[r].of] = handler[r].news]
       \/ Faults /\ UNCHANGED told
    /\ End(r)
    /\ UNCHANGED <<contract, linking, wanted, threads, imported, overlapped>>

\* ensureContractThread, started by the creation and awaited by nobody: the chat
\* service finds or makes the thread of the contract and the id is recorded, if
\* the row has none; or the chat service does not answer.
EnsureContractThread(c) ==
    /\ c \in linking
    /\ linking' = linking \ {c}
    /\ \/ /\ Exists(c)
          /\ contract' = [contract EXCEPT ![c].thread = TRUE]
          /\ threads' = threads \cup {c}
          /\ overlapped' = IF \E q \in Handlers : Writing(q, c)
                           THEN overlapped \cup {c} ELSE overlapped
       \/ /\ ~Exists(c) \/ Faults
          /\ UNCHANGED <<contract, threads, imported, overlapped>>
    /\ UNCHANGED <<told, handler, wanted, imported>>

DeleteContract(c) ==
    /\ Exists(c)
    /\ contract' = [contract EXCEPT ![c] = Gone]
    /\ UNCHANGED <<told, linking, handler, wanted, threads, imported, overlapped>>

\* An error answer: the row is gone, or the status asked for is not reachable.
Refuse(r) ==
    /\ handler[r].op = "read"
    /\ \/ ~Exists(handler[r].of)
       \/ \E next \in Statuses : ~CanTransitionTo(handler[r].row.status, next)
    /\ End(r)
    /\ UNCHANGED <<contract, told, linking, wanted, threads, imported, overlapped>>

\* A request that dies between two statements.
Fail(r) ==
    /\ Faults
    /\ handler[r].op # "idle"
    /\ End(r)
    /\ UNCHANGED <<contract, told, linking, wanted, threads, imported, overlapped>>

Next ==
    \/ \E r \in Handlers, c \in Contracts :
          \/ CreateContract(r, c)
          \/ GetContract(r, c)
          \/ ImportContract(r, c)
    \/ \E r \in Handlers :
          \/ PatchContract(r)
          \/ ChangeStatus(r)
          \/ AddContractDoc(r)
          \/ DeleteContractDoc(r)
          \/ ImportOver(r)
          \/ PublishStatus(r)
          \/ Refuse(r)
          \/ Fail(r)
    \/ \E c \in Contracts : EnsureContractThread(c) \/ DeleteContract(c)

Spec == Init /\ [][Next]_vars

-----------------------------------------------------------------------------
TypeOK ==
    /\ contract \in [Contracts -> ContractRow \cup {NoRow, Gone}]
    /\ told \in [Contracts -> Told]
    /\ linking \subseteq Contracts
    /\ handler \in [Handlers -> Request]
    /\ wanted \in [Contracts -> SUBSET Docs]
    /\ {threads, imported, overlapped} \subseteq SUBSET Contracts
    /\ \A r \in Handlers :
          handler[r].op = "read" => handler[r].row # NoRow

Stored(c) == contract[c] \notin {NoRow, Gone}

\* The audit trail of a contract the import never wrote explains its status: each
\* entry is a move the lifecycle allows and the last one is the status of the row,
\* although both columns are rewritten by requests that overlap.
LegalTrail(row) ==
    /\ row.trail[Len(row.trail)] = row.status
    /\ \A i \in 1 .. Len(row.trail) - 1 : row.trail[i + 1] \in Transitions[row.trail[i]]

TrailExplainsStatus ==
    \A c \in Contracts \ imported : Stored(c) => LegalTrail(contract[c])

Enforced(c) ==
    Stored(c) /\ Stored(c)' =>
        contract'[c].status \in {contract[c].status} \cup Transitions[contract[c].status]

\* The status of a contract on which no two writers overlapped and that no import
\* wrote moves along the allowed transitions only: closed and terminated are final.
StatusFollowsLifecycle ==
    [][ \A c \in Contracts : c \notin overlapped \cup imported' => Enforced(c) ]_vars

\* "Server-side enforcement" of the lifecycle, as the comment on govTransitions has
\* it: every change of the status of a contract is an allowed move.
StatusEnforced == [][ \A c \in Contracts : Enforced(c) ]_vars

\* No update is lost on a contract whose writers never overlapped: it has the
\* documents users gave it, the thread that was recorded unless an import erased it,
\* and in its trail the status other services were last told of.
NothingLostUnlessOverlapped ==
    \A c \in Contracts :
        Stored(c) /\ c \notin overlapped =>
            /\ contract[c].docs = wanted[c]
            /\ c \notin imported => (contract[c].thread <=> c \in threads)
            /\ told[c] # "" => told[c] \in Range(contract[c].trail)
=============================================================================
