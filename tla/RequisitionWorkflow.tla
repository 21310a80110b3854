------------------------ MODULE RequisitionWorkflow -------------------------
(***************************************************************************)
(* A requisition: raised with the raiser's own approval, corrected,        *)
(* cleared by the remaining desks or rejected, and, once approved, turned  *)
(* into a contract that carries its number and its estimate                *)
(* (internal/controllers/governance_modules_controller.go).                *)
(*                                                                         *)
(* A request reads its row with one statement and writes it with another.  *)
(* A conversion is two writes in two transactions: the contract, then the  *)
(* link and the status of the requisition.  What keeps one requisition     *)
(* from becoming two contracts is the UNIQUE number of a contract.         *)
(***************************************************************************)
EXTENDS GovChain, FiniteSets

CONSTANTS
    Requisitions,  \* requisition ids
    Contracts,     \* contract ids
    Numbers,       \* numbers of requisitions and of contracts
    Estimates,     \* estimates a requisition may be raised for or corrected to
    Handlers,      \* requests in service at one time
    Renames,       \* users change numbers, and values of contracts
    Faults,        \* requests may die and dropped errors may happen
    NoRow          \* no such row, no such contract

ASSUME RequisitionAssumption ==
    /\ Estimates \subseteq Nat
    /\ {Renames, Faults} \subseteq BOOLEAN
    /\ Requisitions # {} /\ NoRow \notin Contracts

VARIABLES
    requisition,  \* table gov_requisitions
    contract,     \* table gov_contracts: the rows conversions make
    told,         \* what procurement has been told of
    handler,      \* what each request has read and has still to do
    made,         \* contracts each requisition was ever turned into
    renamed,      \* requisitions that, or whose contract, changed number
    revalued,     \* contracts whose value a user changed
    disturbed     \* requisitions on which requests overlapped or half a conversion died

vars == <<requisition, contract, told, handler, made, renamed, revalued, disturbed>>

-----------------------------------------------------------------------------
\* "PendingApproval" is the code's "Pending Approval".
RequisitionRow ==
    [no : Numbers, estimate : Nat, stage : Stages, approvals : [Desks -> Signer],
     status : {"PendingApproval", "Approved", "Rejected", "Converted"},
     link : Contracts \cup {NoRow}]

ContractRow == [number : Numbers, value : Nat]

ASSUME NoRowAssumption == NoRow \notin RequisitionRow \cup ContractRow

Ops == {"idle", "advance", "reject", "patch", "convert", "link"}

Request == [op : Ops, of : Requisitions, row : RequisitionRow \cup {NoRow}]

Serving(op, q, row) == [op |-> op, of |-> q, row |-> row]

Idle == Serving("idle", CHOOSE q \in Requisitions : TRUE, NoRow)

\* NewRequisition: the raiser's approval is the first.
NewRequisition(no, estimate, by) ==
    [no |-> no, estimate |-> estimate, stage |-> 1,
     approvals |-> [d \in Desks |-> IF d = 0 THEN by ELSE Blank],
     status |-> "PendingApproval", link |-> NoRow]

\* GovRequisition.Advance on a pending row, which has a desk to clear.
Advanced(row, by) ==
    [row EXCEPT !.stage = row.stage + 1,
                !.approvals[row.stage] = by,
                !.status = IF row.stage + 1 = Complete THEN "Approved" ELSE @]

\* GovRequisition.Reject: at the stage reached, or at the last desk.
Rejected(row, by) ==
    [row EXCEPT !.status = "Rejected",
                !.approvals[IF row.stage < Complete THEN row.stage ELSE 3] = by]

Converted(row, c) == [row EXCEPT !.status = "Converted", !.link = c]

\* Fault: the link is left out of the chain columns.
UpdateRequisitionNoLink(stored, mine) ==
    [stored EXCEPT !.status = mine.status, !.stage = mine.stage,
                   !.approvals = mine.approvals]

\* Fault: so is the stage.
UpdateRequisitionNoStage(stored, mine) ==
    [stored EXCEPT !.status = mine.status, !.approvals = mine.approvals,
                   !.link = mine.link]

\* UpdateRequisition and UpdateRequisitionDetails: the chain columns with the
\* link, and the others.
UpdateRequisition(stored, mine) ==
    [stored EXCEPT !.status = mine.status, !.stage = mine.stage,
                   !.approvals = mine.approvals, !.link = mine.link]

UpdateDetails(stored, mine) == [stored EXCEPT !.no = mine.no, !.estimate = mine.estimate]

\* Fault: contract numbers need not be unique.
NumberFreeAlways(n) == TRUE

\* The UNIQUE numbers of gov_contracts.
NumberFree(n) == \A c \in Contracts : contract[c] # NoRow => contract[c].number # n

\* The UNIQUE numbers of gov_requisitions, but for q.
NoFree(n, q) ==
    \A p \in Requisitions \ {q} : requisition[p] # NoRow => requisition[p].no # n

-----------------------------------------------------------------------------
Init ==
    /\ requisition = [q \in Requisitions |-> NoRow]
    /\ contract = [c \in Contracts |-> NoRow]
    /\ told = {}
    /\ handler = [r \in Handlers |-> Idle]
    /\ made = [q \in Requisitions |-> {}]
    /\ renamed = {} /\ revalued = {}
    /\ disturbed = {}

End(r) == handler' = [handler EXCEPT ![r] = Idle]

\* PublishCommercial: an enqueue whose error is dropped.
Tell(news) ==
    \/ told' = told \cup {news}
    \/ Faults /\ UNCHANGED told

CreateRequisition(q) ==
    /\ requisition[q] = NoRow
    /\ \E no \in Numbers, estimate \in Estimates, by \in Names :
          /\ NoFree(no, q)
          /\ requisition' = [requisition EXCEPT ![q] = NewRequisition(no, estimate, by)]
    /\ UNCHANGED <<contract, told, handler, made, renamed, disturbed, revalued>>

\* The read of a request.
Open(r, q, op) ==
    /\ handler[r].op = "idle"
    /\ requisition[q] # NoRow
    /\ handler' = [handler EXCEPT ![r] = Serving(op, q, requisition[q])]
    /\ disturbed' = IF \E p \in Handlers : handler[p].of = q /\ handler[p].op # "idle"
                    THEN disturbed \cup {q} ELSE disturbed
    /\ UNCHANGED <<requisition, contract, told, made, renamed, revalued>>

\* Fault: the status is not looked at.
OpenAdvanceAny(r, q) == Open(r, q, "advance")

\* What a request refuses at once; a rejection refuses nothing.
OpenAdvance(r, q) == Open(r, q, "advance") /\ requisition[q].status = "PendingApproval"
OpenCorrection(r, q) == Open(r, q, "patch") /\ requisition[q].status = "PendingApproval"
OpenReject(r, q) == Open(r, q, "reject")
OpenConversion(r, q) ==
    /\ Open(r, q, "convert")
    /\ requisition[q].status = "Approved"
    /\ requisition[q].link = NoRow

Store(q, row) == requisition' = [requisition EXCEPT ![q] = row]

AdvanceRequisition(r) ==
    /\ handler[r].op = "advance"
    /\ LET q == handler[r].of
           row == handler[r].row IN
       \E by \in Names :
          LET mine == Advanced(row, by) IN
          /\ ~SelfSuccession(row.approvals, row.stage, by)
          /\ Store(q, UpdateRequisition(requisition[q], mine))
          /\ IF mine.status = "Approved" THEN Tell(<<"approved", q>>) ELSE UNCHANGED told
    /\ End(r)
    /\ UNCHANGED <<contract, made, renamed, disturbed, revalued>>

RejectRequisition(r) ==
    /\ handler[r].op = "reject"
    /\ LET q == handler[r].of IN
       \E by \in Names :
          Store(q, UpdateRequisition(requisition[q], Rejected(handler[r].row, by)))
    /\ End(r)
    /\ UNCHANGED <<contract, told, made, renamed, disturbed, revalued>>

\* PatchRequisition: the estimate is fixed once somebody beyond the raiser signed
\* the row that was read; number and estimate are written back in any case.
PatchRequisition(r) ==
    /\ handler[r].op = "patch"
    /\ LET q == handler[r].of
           row == handler[r].row IN
       \E no \in {row.no} \cup (IF Renames THEN Numbers ELSE {}),
          estimate \in {row.estimate} \cup (IF row.stage > 1 THEN {} ELSE Estimates) :
          /\ NoFree(no, q)
          /\ Store(q, UpdateDetails(requisition[q],
                          [row EXCEPT !.no = no, !.estimate = estimate]))
          /\ renamed' = IF no # requisition[q].no THEN renamed \cup {q} ELSE renamed
    /\ End(r)
    /\ UNCHANGED <<contract, told, made, disturbed, revalued>>

\* ConvertRequisition: the contract, under an id of its own.
ConvertRequisition(r) ==
    /\ handler[r].op = "convert"
    /\ LET q == handler[r].of
           row == handler[r].row IN
       \E c \in Contracts :
          /\ \A p \in Requisitions : c \notin made[p]
          /\ NumberFree(row.no)
          /\ contract' = [contract EXCEPT ![c] = [number |-> row.no, value |-> row.estimate]]
          /\ made' = [made EXCEPT ![q] = @ \cup {c}]
          /\ handler' = [handler EXCEPT ![r] = Serving("link", q, Converted(row, c))]
    /\ UNCHANGED <<requisition, told, renamed, disturbed, revalued>>

\* ConvertRequisition: the link.
LinkContract(r) ==
    /\ handler[r].op = "link"
    /\ LET q == handler[r].of IN
       /\ Store(q, UpdateRequisition(requisition[q], handler[r].row))
       /\ Tell(<<"converted", q>>)
    /\ End(r)
    /\ UNCHANGED <<contract, made, renamed, disturbed, revalued>>

\* PatchContract with a number or a value or both.  It reads the contract and writes it
\* back in two steps; one is enough here, since what a late write puts back was changed
\* by another PATCH, and that contract is marked already.
PatchContract(c) ==
    /\ Renames
    /\ contract[c] # NoRow
    /\ \E n \in Numbers, value \in {contract[c].value} \cup Estimates :
          /\ n = contract[c].number \/ NumberFree(n)
          /\ contract' = [contract EXCEPT ![c] = [number |-> n, value |-> value]]
          /\ renamed' = IF n = contract[c].number THEN renamed
                        ELSE renamed \cup {q \in Requisitions : c \in made[q]}
          /\ revalued' = IF value = contract[c].value THEN revalued ELSE revalued \cup {c}
    /\ UNCHANGED <<requisition, told, handler, made, disturbed>>

DeleteContract(c) ==
    /\ contract[c] # NoRow
    /\ contract' = [contract EXCEPT ![c] = NoRow]
    /\ UNCHANGED <<requisition, told, handler, made, renamed, disturbed, revalued>>

\* An error answer: the actor cleared the desk before, or the number is taken.
Refuse(r) ==
    /\ LET row == handler[r].row IN
       \/ /\ handler[r].op = "advance"
          /\ \E by \in Names : SelfSuccession(row.approvals, row.stage, by)
       \/ handler[r].op = "convert" /\ ~NumberFree(row.no)
    /\ End(r)
    /\ UNCHANGED <<requisition, contract, told, made, renamed, disturbed, revalued>>

\* A request that dies between two statements.
Fail(r) ==
    /\ Faults
    /\ handler[r].op # "idle"
    /\ disturbed' = IF handler[r].op = "link" THEN disturbed \cup {handler[r].of} ELSE disturbed
    /\ End(r)
    /\ UNCHANGED <<requisition, contract, told, made, renamed, revalued>>

Next ==
    \/ \E q \in Requisitions : CreateRequisition(q)
    \/ \E r \in Handlers, q \in Requisitions :
          \/ OpenAdvance(r, q)
          \/ OpenReject(r, q)
          \/ OpenCorrection(r, q)
          \/ OpenConversion(r, q)
    \/ \E r \in Handlers :
          \/ AdvanceRequisition(r)
          \/ RejectRequisition(r)
          \/ PatchRequisition(r)
          \/ ConvertRequisition(r)
          \/ LinkContract(r)
          \/ Refuse(r)
          \/ Fail(r)
    \/ \E c \in Contracts : PatchContract(c) \/ DeleteContract(c)

Spec == Init /\ [][Next]_vars

-----------------------------------------------------------------------------
TypeOK ==
    /\ requisition \in [Requisitions -> RequisitionRow \cup {NoRow}]
    /\ contract \in [Contracts -> ContractRow \cup {NoRow}]
    /\ told \subseteq ({"approved", "converted"} \X Requisitions)
    /\ handler \in [Handlers -> Request]
    /\ made \in [Requisitions -> SUBSET Contracts]
    /\ {renamed, disturbed} \subseteq SUBSET Requisitions /\ revalued \subseteq Contracts
    /\ \A r \in Handlers :
          /\ handler[r].op # "idle" => handler[r].row # NoRow /\ requisition[handler[r].of] # NoRow
          /\ handler[r].op = "advance" => handler[r].row.stage < Complete

\* Segregation of duties: whatever overlapped, no two successive desks of a
\* requisition that is not rejected were cleared by one person, the raiser's own
\* approval included.
RequisitionFourEyes ==
    \A q \in Requisitions :
        requisition[q] # NoRow /\ requisition[q].status # "Rejected" =>
            FourEyes(requisition[q].approvals, requisition[q].stage)

\* Status, stage, approvals and link of a stored requisition tell one story although
\* each request rewrites them from what it read: a requisition with a link was cleared
\* by all desks and has a contract of its own making, and only a converted one, or one
\* rejected since, has a link.
StoryHolds(q, row) ==
    /\ CASE row.status = "PendingApproval" -> row.stage \in 1 .. 3
         [] row.status \in {"Approved", "Converted"} -> row.stage = Complete
         [] row.status = "Rejected" -> TRUE
    /\ SignedBelow(row.approvals, IF row.status = "Rejected" THEN row.stage + 1 ELSE row.stage)
    /\ row.status = "Converted" => row.link # NoRow
    /\ row.link # NoRow => /\ row.status \in {"Converted", "Rejected"}
                           /\ row.stage = Complete
                           /\ row.link \in made[q]

RequisitionStory ==
    \A q \in Requisitions : requisition[q] # NoRow => StoryHolds(q, requisition[q])

\* A requisition is one contract at a time, whatever overlapped, died halfway or was
\* tried again, as long as its number and that of its contract stay what they were.
OneContractAtATime ==
    \A q \in Requisitions \ renamed :
        Cardinality({c \in made[q] : contract[c] # NoRow}) <= 1

\* "turns an approved requisition into a draft governance contract and links them":
\* when requests on a requisition neither overlapped nor died between the two writes,
\* it is linked to the one contract it was turned into and to no other, for the
\* estimate that was approved until a user gives the contract another value, and nobody
\* is told of a conversion that is not stored.
ConversionWhole ==
    \A q \in Requisitions \ disturbed :
        requisition[q] # NoRow /\ (\A r \in Handlers : handler[r].of = q => handler[r].op # "link") =>
            /\ made[q] = {requisition[q].link} \ {NoRow}
            /\ \A c \in made[q] \ revalued :
                  contract[c] # NoRow => contract[c].value = requisition[q].estimate
            /\ <<"converted", q>> \in told => made[q] # {}
=============================================================================
