------------------------- MODULE VariationWorkflow --------------------------
(***************************************************************************)
(* A contract variation: raised with the raiser's own approval, corrected, *)
(* cleared by the remaining desks or rejected, and added to the value of   *)
(* its contract once approved                                              *)
(* (internal/controllers/governance_workflow_controller.go).               *)
(*                                                                         *)
(* As with payments, a request reads its row with one statement and writes *)
(* it with another.  An approval is three statements in three transactions *)
(* of their own: the row, the value of the contract, the event; the errors *)
(* of the last two are dropped.  PatchContract writes back a whole         *)
(* contract row, value included, that it read some time before.            *)
(***************************************************************************)
EXTENDS GovChain, FiniteSets

CONSTANTS
    Variations,    \* variation ids
    Contracts,     \* contract ids
    On,            \* the contract of each variation
    Handlers,      \* requests in service at one time
    Amounts,       \* amounts a variation may be raised for or corrected to
    Values,        \* values a contract may be given
    Edits,         \* users edit contracts
    Faults,        \* requests may die and dropped errors may happen
    Serialized,    \* requests on one variation, and edits of its contract, do not overlap
    MaxValue,      \* bound on the size of a contract value
    NoRow          \* no such row

ASSUME VariationAssumption ==
    /\ On \in [Variations -> Contracts]
    /\ Amounts \subseteq Int /\ Values \subseteq Int
    /\ {Edits, Faults, Serialized} \subseteq BOOLEAN
    /\ MaxValue \in Nat
    /\ Variations # {} /\ Variations \cap Contracts = {}

VARIABLES
    contract,    \* table gov_contracts: the value of each row
    variation,   \* table gov_variations
    announced,   \* what contracts.variation.approved has been enqueued for
    handler,     \* what each request has read and has still to do
    agreed       \* what users and approvals make each contract worth

vars == <<contract, variation, announced, handler, agreed>>

-----------------------------------------------------------------------------
VariationRow == [amount : Int, status : {"Pending", "Approved", "Rejected"},
                 stage : Stages, approvals : [Desks -> Signer]]

Ops == {"idle", "advance", "reject", "patch", "apply", "announce", "contract"}

Request == [op : Ops, of : Variations \cup Contracts, row : VariationRow \cup {NoRow}, value : Int]

ASSUME NoRowAssumption == NoRow \notin VariationRow \cup Int

Serving(op, id, row, value) == [op |-> op, of |-> id, row |-> row, value |-> value]

Idle == Serving("idle", CHOOSE v \in Variations : TRUE, NoRow, 0)

\* NewVariation: the raiser's approval is the first.
NewVariation(amount, by) ==
    [amount |-> amount, status |-> "Pending", stage |-> 1,
     approvals |-> [d \in Desks |-> IF d = 0 THEN by ELSE Blank]]

\* GovVariation.Advance on the row a handler holds.
Advanced(row, by) ==
    IF row.stage >= Complete THEN [row EXCEPT !.status = "Approved"]
    ELSE [row EXCEPT !.stage = row.stage + 1,
                     !.approvals[row.stage] = by,
                     !.status = IF row.stage + 1 = Complete THEN "Approved" ELSE @]

\* GovVariation.Reject: who declined is named at the stage reached, or at the
\* last desk of a variation that has passed them all.
Rejected(row, by) ==
    [row EXCEPT !.status = "Rejected",
                !.approvals[IF row.stage < Complete THEN row.stage ELSE 3] = by]

\* Fault: the status is left out of the chain columns.
UpdateVariationNoStatus(stored, mine) ==
    [stored EXCEPT !.stage = mine.stage, !.approvals = mine.approvals]

\* UpdateVariation and UpdateVariationDetails: the chain columns and the others.
UpdateVariation(stored, mine) ==
    [stored EXCEPT !.status = mine.status, !.stage = mine.stage,
                   !.approvals = mine.approvals]

UpdateDetails(stored, mine) == [stored EXCEPT !.amount = mine.amount]

\* Fault: the desk before the last is taken for the last.
ApprovesEarly(mine) == mine.stage >= 3

Approves(mine) == mine.status = "Approved"

-----------------------------------------------------------------------------
Init ==
    /\ contract \in [Contracts -> Values]
    /\ variation = [v \in Variations |-> NoRow]
    /\ announced = {}
    /\ handler = [r \in Handlers |-> Idle]
    /\ agreed = contract

Begin(r, request) ==
    /\ handler[r].op = "idle"
    /\ handler' = [handler EXCEPT ![r] = request]

GoOn(r, op, value) == handler' = [handler EXCEPT ![r].op = op, ![r].value = value]

End(r) == handler' = [handler EXCEPT ![r] = Idle]

InService(ids) == \E r \in Handlers : handler[r].of \in ids /\ handler[r].op # "idle"

CreateVariation(v) ==
    /\ contract[On[v]] # NoRow
    /\ variation[v] = NoRow
    /\ \E amount \in Amounts, by \in Names :
          variation' = [variation EXCEPT ![v] = NewVariation(amount, by)]
    /\ UNCHANGED <<contract, announced, handler, agreed>>

\* The read of a request, and what it refuses at once: an advance or a correction
\* of a variation that is not pending.  A rejection refuses nothing.
Open(r, v, op) ==
    /\ variation[v] # NoRow
    /\ op \in {"advance", "patch"} => variation[v].status = "Pending"
    /\ Serialized => ~InService({v, On[v]})
    /\ Begin(r, Serving(op, v, variation[v], 0))
    /\ UNCHANGED <<contract, variation, announced, agreed>>

\* Fault: an advance refuses nothing either.
OpenAdvanceAny(r, v) ==
    /\ variation[v] # NoRow
    /\ Begin(r, Serving("advance", v, variation[v], 0))
    /\ UNCHANGED <<contract, variation, announced, agreed>>

OpenAdvance(r, v) == Open(r, v, "advance")
OpenReject(r, v) == Open(r, v, "reject")
OpenCorrection(r, v) == Open(r, v, "patch")

\* AdvanceVariation: the row.  The last approval goes on to the contract with
\* the amount the UPDATE returned.
AdvanceVariation(r) ==
    /\ handler[r].op = "advance"
    /\ LET v == handler[r].of
           row == handler[r].row IN
       /\ variation[v] # NoRow
       /\ \E by \in Names :
            LET mine == Advanced(row, by)
                c == On[v] IN
            /\ ~SelfSuccession(row.approvals, row.stage, by)
            /\ variation' = [variation EXCEPT ![v] = UpdateVariation(variation[v], mine)]
            /\ agreed' = IF mine.status = "Approved" /\ variation[v].status # "Approved"
                         THEN [agreed EXCEPT ![c] = @ + variation[v].amount]
                         ELSE agreed
            /\ IF Approves(mine) THEN GoOn(r, "apply", variation[v].amount) ELSE End(r)
    /\ UNCHANGED <<contract, announced>>

\* AddContractValue: one statement that adds; nothing to do for a zero amount or
\* for a contract that is gone.  Its error is dropped.
AddContractValue(r) ==
    /\ handler[r].op = "apply"
    /\ LET c == On[handler[r].of] IN
       \/ /\ contract[c] # NoRow
          /\ contract[c] + handler[r].value \in -MaxValue .. MaxValue
          /\ contract' = [contract EXCEPT ![c] = @ + handler[r].value]
       \/ /\ contract[c] = NoRow \/ Faults
          /\ UNCHANGED contract
    /\ GoOn(r, "announce", handler[r].value)
    /\ UNCHANGED <<variation, announced, agreed>>

\* PublishCommercial: an enqueue whose error is dropped.
AnnounceVariation(r) ==
    /\ handler[r].op = "announce"
    /\ \/ announced' = announced \cup {<<handler[r].of, handler[r].value>>}
       \/ Faults /\ UNCHANGED announced
    /\ End(r)
    /\ UNCHANGED <<contract, variation, agreed>>

RejectVariation(r) ==
    /\ handler[r].op = "reject"
    /\ LET v == handler[r].of IN
       /\ variation[v] # NoRow
       /\ \E by \in Names :
            variation' = [variation EXCEPT
                ![v] = UpdateVariation(variation[v], Rejected(handler[r].row, by))]
    /\ End(r)
    /\ UNCHANGED <<contract, announced, agreed>>

\* PatchVariation: the amount is fixed once somebody beyond the raiser signed
\* the row that was read, and is written back in any case.
PatchVariation(r) ==
    /\ handler[r].op = "patch"
    /\ LET v == handler[r].of
           row == handler[r].row IN
       /\ variation[v] # NoRow
       /\ \E amount \in {row.amount} \cup (IF row.stage > 1 THEN {} ELSE Amounts) :
            variation' = [variation EXCEPT
                ![v] = UpdateDetails(variation[v], [row EXCEPT !.amount = amount])]
    /\ End(r)
    /\ UNCHANGED <<contract, announced, agreed>>

\* PatchContract: the read and the write of the whole row.  A patch without a
\* value writes back the one it read.
OpenContract(r, c) ==
    /\ Edits
    /\ contract[c] # NoRow
    /\ Serialized => ~InService({c} \cup {v \in Variations : On[v] = c})
    /\ Begin(r, Serving("contract", c, NoRow, contract[c]))
    /\ UNCHANGED <<contract, variation, announced, agreed>>

PatchContract(r) ==
    /\ handler[r].op = "contract"
    /\ LET c == handler[r].of IN
       /\ contract[c] # NoRow
       /\ \/ /\ contract' = [contract EXCEPT ![c] = handler[r].value]
             /\ UNCHANGED agreed
          \/ \E value \in Values :
                /\ contract' = [contract EXCEPT ![c] = value]
                /\ agreed' = [agreed EXCEPT ![c] = value]
    /\ End(r)
    /\ UNCHANGED <<variation, announced>>

\* DeleteContract: its variations go with it.
DeleteContract(c) ==
    /\ contract[c] # NoRow
    /\ contract' = [contract EXCEPT ![c] = NoRow]
    /\ variation' = [v \in Variations |-> IF On[v] = c THEN NoRow ELSE variation[v]]
    /\ UNCHANGED <<announced, handler, agreed>>

\* An error answer: the row is gone, or the actor cleared the desk before.
Refuse(r) ==
    /\ LET id == handler[r].of
           row == handler[r].row IN
       \/ handler[r].op \in {"advance", "reject", "patch"} /\ variation[id] = NoRow
       \/ handler[r].op = "contract" /\ contract[id] = NoRow
       \/ /\ handler[r].op = "advance"
          /\ \E by \in Names : SelfSuccession(row.approvals, row.stage, by)
    /\ End(r)
    /\ UNCHANGED <<contract, variation, announced, agreed>>

\* A request that dies between two statements.
Fail(r) ==
    /\ Faults
    /\ handler[r].op # "idle"
    /\ End(r)
    /\ UNCHANGED <<contract, variation, announced, agreed>>

Next ==
    \/ \E v \in Variations : CreateVariation(v)
    \/ \E r \in Handlers, v \in Variations :
          \/ OpenAdvance(r, v)
          \/ OpenReject(r, v)
          \/ OpenCorrection(r, v)
    \/ \E r \in Handlers :
          \/ AdvanceVariation(r)
          \/ AddContractValue(r)
          \/ AnnounceVariation(r)
          \/ RejectVariation(r)
          \/ PatchVariation(r)
          \/ PatchContract(r)
          \/ Refuse(r)
          \/ Fail(r)
    \/ \E r \in Handlers, c \in Contracts : OpenContract(r, c)
    \/ \E c \in Contracts : DeleteContract(c)

Spec == Init /\ [][Next]_vars

-----------------------------------------------------------------------------
TypeOK ==
    /\ contract \in [Contracts -> Int \cup {NoRow}]
    /\ variation \in [Variations -> VariationRow \cup {NoRow}]
    /\ announced \subseteq (Variations \X Int)
    /\ handler \in [Handlers -> Request]
    /\ agreed \in [Contracts -> Int]
    /\ \A r \in Handlers :
          /\ handler[r].of \in IF handler[r].op = "contract" THEN Contracts ELSE Variations
          /\ handler[r].op \in {"advance", "reject", "patch"} => handler[r].row # NoRow
          /\ handler[r].op = "advance" => handler[r].row.status = "Pending"

\* Segregation of duties: whatever overlapped, no two successive desks of a
\* variation that is not rejected were cleared by one person, the raiser's own
\* approval included.
VariationFourEyes ==
    \A v \in Variations :
        variation[v] # NoRow /\ variation[v].status # "Rejected" =>
            FourEyes(variation[v].approvals, variation[v].stage)

\* Status, stage and approvals of a stored variation tell one story although each
\* request rewrites them from what it read: pending below the last desk and
\* approved at the end, signed exactly that far; rejected, with a name on the
\* desk that rejected it and on every desk before.
SignaturesMatchStatus ==
    \A v \in Variations :
        variation[v] # NoRow =>
            LET row == variation[v] IN
            CASE row.status = "Pending"  -> /\ row.stage \in 1 .. 3
                                            /\ SignedBelow(row.approvals, row.stage)
              [] row.status = "Approved" -> /\ row.stage = Complete
                                            /\ SignedBelow(row.approvals, row.stage)
              [] row.status = "Rejected" -> SignedBelow(row.approvals, row.stage + 1)

\* "On full approval the contract value is adjusted by amount": with no approval
\* on its way to the contract, the contract is worth what users gave it last and
\* the approvals since have added, each once.
ValueAccounts ==
    \A c \in Contracts :
        \/ contract[c] \in {NoRow, agreed[c]}
        \/ \E r \in Handlers : handler[r].op = "apply" /\ On[handler[r].of] = c

-----------------------------------------------------------------------------
(* What the comments say of a variation and the code does not keep.          *)

\* "a variation that has left Pending is finished": its status does not change.
FinishedStaysFinished ==
    [][ \A v \in Variations :
          variation[v] # NoRow /\ variation'[v] # NoRow
                /\ variation[v].status # "Pending" =>
              variation'[v].status = variation[v].status ]_vars

\* The amount is "frozen once anyone beyond the raiser has signed".
AmountFrozenOnceSigned ==
    [][ \A v \in Variations :
          variation[v] # NoRow /\ variation'[v] # NoRow /\ variation[v].stage > 1 =>
              variation'[v].amount = variation[v].amount ]_vars
=============================================================================
