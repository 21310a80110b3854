-------------------------- MODULE VariationProofs --------------------------
(***************************************************************************)
(* Proofs about VariationWorkflow, for any number of variations, contracts *)
(* and handlers, any amounts, with or without faults, edits and overlaps.  *)
(***************************************************************************)
EXTENDS VariationWorkflow, GovChainProofs, TLAPS

-----------------------------------------------------------------------------
\* What is true of every version of a variation, stored or held by a request: status,
\* stage and approvals tell one story, and its chain is four-eyed unless rejected.
Story(row) ==
    CASE row.status = "Pending"  -> row.stage \in 1 .. 3 /\ SignedBelow(row.approvals, row.stage)
      [] row.status = "Approved" -> row.stage = Complete /\ SignedBelow(row.approvals, row.stage)
      [] row.status = "Rejected" -> SignedBelow(row.approvals, row.stage + 1)

SoundRow(row) ==
    /\ row \in VariationRow
    /\ Story(row)
    /\ row.status # "Rejected" => FourEyes(row.approvals, row.stage)

LEMMA NewSound ==
    ASSUME NEW amount \in Int, NEW by \in Names
    PROVE  SoundRow(NewVariation(amount, by))
<1> DEFINE row == NewVariation(amount, by)
<1>1. /\ row \in VariationRow
      /\ row.status = "Pending" /\ row.stage = 1
      /\ row.approvals = [d \in Desks |-> IF d = 0 THEN by ELSE Blank]
    BY DEF NewVariation, VariationRow, Stages, Complete, Signer, Desks
<1> HIDE DEF row
<1>2. SignedBelow(row.approvals, row.stage)
    BY <1>1, NamesAssumption DEF SignedBelow, Desks
<1>3. FourEyes(row.approvals, row.stage)
    BY <1>1 DEF FourEyes
<1> QED
    BY <1>1, <1>2, <1>3 DEF SoundRow, Story, row

\* Clearing the desk of a pending row, by whom the engine accepts.
LEMMA AdvancedSound ==
    ASSUME NEW row, SoundRow(row), row.status = "Pending", NEW by \in Names,
           ~SelfSuccession(row.approvals, row.stage, by)
    PROVE  SoundRow(Advanced(row, by))
<1>1. /\ row.stage \in 1 .. 3 /\ row.approvals \in [Desks -> Signer]
      /\ SignedBelow(row.approvals, row.stage) /\ FourEyes(row.approvals, row.stage)
    BY DEF SoundRow, Story, VariationRow
<1> DEFINE after == [row.approvals EXCEPT ![row.stage] = by]
           status == IF row.stage + 1 = Complete THEN "Approved" ELSE row.status
           next == Advanced(row, by)
<1>2. row.stage \in Desks /\ row.stage + 1 \in Stages /\ row.stage < Complete
    BY <1>1 DEF Desks, Stages, Complete
<1>3. /\ after \in [Desks -> Signer]
      /\ SignedBelow(after, row.stage + 1) /\ FourEyes(after, row.stage + 1)
    BY <1>1, <1>2, SignedSteps, SignedOneMore, ClearedFourEyes
<1>4. next = [row EXCEPT !.stage = row.stage + 1, !.approvals = after, !.status = status]
    BY <1>2 DEF Advanced, SoundRow, VariationRow, Complete, Stages
<1> HIDE DEF after
<1>5. /\ next \in VariationRow
      /\ next.stage = row.stage + 1 /\ next.approvals = after /\ next.status = status
    BY <1>2, <1>3, <1>4 DEF SoundRow, VariationRow
<1> HIDE DEF next
<1>6. \/ next.status = "Pending" /\ next.stage \in 1 .. 3
      \/ next.status = "Approved" /\ next.stage = Complete
    BY <1>1, <1>5 DEF Complete
<1> QED
    BY <1>3, <1>5, <1>6 DEF SoundRow, Story, next

\* Declining any row whatever: the desk at the cursor, or the last, carries a name.
LEMMA RejectedSound ==
    ASSUME NEW row, SoundRow(row), NEW by \in Names
    PROVE  SoundRow(Rejected(row, by))
<1> DEFINE at == IF row.stage < Complete THEN row.stage ELSE 3
           after == [row.approvals EXCEPT ![at] = by]
           next == Rejected(row, by)
<1>1. /\ row.approvals \in [Desks -> Signer] /\ row.stage \in 0 .. 4
      /\ row.status \in {"Pending", "Approved", "Rejected"}
    BY DEF SoundRow, VariationRow, Stages, Complete
<1>2. at \in Desks /\ (row.stage = 4 => at = 3) /\ (row.stage # 4 => at = row.stage)
    BY <1>1 DEF Desks, Complete
<1>3. next = [row EXCEPT !.status = "Rejected", !.approvals = after]
    BY <1>1 DEF Rejected, SoundRow, VariationRow
<1> HIDE DEF at
<1>4. /\ after \in [Desks -> Signer] /\ after[at] = by
      /\ \A d \in Desks : d # at => after[d] = row.approvals[d]
    BY <1>1, <1>2, SignedSteps
<1> HIDE DEF after
<1>5. /\ next \in VariationRow
      /\ next.stage = row.stage /\ next.approvals = after /\ next.status = "Rejected"
    BY <1>3, <1>4 DEF SoundRow, VariationRow
<1> HIDE DEF next
<1>6. SignedBelow(row.approvals, row.stage) \/ SignedBelow(row.approvals, row.stage + 1)
    BY <1>1 DEF SoundRow, Story
<1>7. SignedBelow(after, row.stage + 1)
    BY <1>1, <1>2, <1>4, <1>6, NamesAssumption DEF SignedBelow, Desks
<1> QED
    BY <1>5, <1>7 DEF SoundRow, Story, next

\* The chain columns of a sound row on another row, and a sound row with another amount.
LEMMA UpdateSound ==
    ASSUME NEW stored \in VariationRow, NEW mine, SoundRow(mine)
    PROVE  SoundRow(UpdateVariation(stored, mine))
<1> DEFINE next == UpdateVariation(stored, mine)
<1>1. /\ next \in VariationRow
      /\ next.status = mine.status /\ next.stage = mine.stage /\ next.approvals = mine.approvals
    BY DEF SoundRow, UpdateVariation, VariationRow
<1> HIDE DEF next
<1> QED
    BY <1>1 DEF SoundRow, Story, next

LEMMA DetailsSound ==
    ASSUME NEW stored, SoundRow(stored), NEW mine, mine.amount \in Int
    PROVE  SoundRow(UpdateDetails(stored, mine))
<1> DEFINE next == UpdateDetails(stored, mine)
<1>1. /\ next \in VariationRow
      /\ next.status = stored.status /\ next.stage = stored.stage
      /\ next.approvals = stored.approvals
    BY DEF SoundRow, UpdateDetails, VariationRow
<1> HIDE DEF next
<1> QED
    BY <1>1 DEF SoundRow, Story, next

-----------------------------------------------------------------------------
\* The inductive invariant: types, with sound rows for rows.
FitRequest(request) ==
    /\ request \in Request
    /\ request.of \in IF request.op = "contract" THEN Contracts ELSE Variations
    /\ request.op \in {"advance", "reject", "patch"} => SoundRow(request.row)
    /\ request.op = "advance" => request.row.status = "Pending"

Ledgers ==
    /\ contract \in [Contracts -> Int \cup {NoRow}]
    /\ announced \subseteq (Variations \X Int)
    /\ agreed \in [Contracts -> Int]

Rows ==
    /\ variation \in [Variations -> VariationRow \cup {NoRow}]
    /\ \A v \in Variations : variation[v] # NoRow => SoundRow(variation[v])

Requests == /\ handler \in [Handlers -> Request]
            /\ \A r \in Handlers : FitRequest(handler[r])

Inv == Ledgers /\ Rows /\ Requests

LEMMA ServingFit ==
    ASSUME NEW op \in Ops, NEW id \in IF op = "contract" THEN Contracts ELSE Variations,
           NEW row \in VariationRow \cup {NoRow}, NEW value \in Int,
           op \in {"advance", "reject", "patch"} => SoundRow(row),
           op = "advance" => row.status = "Pending"
    PROVE  FitRequest(Serving(op, id, row, value))
<1> DEFINE request == Serving(op, id, row, value)
<1>1. /\ request \in Request
      /\ request.op = op /\ request.of = id /\ request.row = row
    BY DEF Serving, Request, Ops
<1> HIDE DEF request
<1> QED
    BY <1>1 DEF FitRequest, request

LEMMA IdleFit == FitRequest(Idle)
<1>1. (CHOOSE v \in Variations : TRUE) \in Variations
    BY VariationAssumption
<1> QED
    BY <1>1, ServingFit DEF Idle, Ops

\* One request ends, begins or goes on.
LEMMA HandlerStep ==
    ASSUME Requests, NEW r \in Handlers, NEW request, FitRequest(request),
           handler' = [handler EXCEPT ![r] = request]
    PROVE  Requests'
<1>1. handler' \in [Handlers -> Request]
    BY DEF Requests, FitRequest
<1>2. ASSUME NEW h \in Handlers
      PROVE  FitRequest(handler[h])'
    <2>1. handler'[h] \in {handler[h], request}
        BY DEF Requests
    <2>2. FitRequest(handler'[h])
        BY <2>1 DEF Requests
    <2> QED
        BY <2>2 DEF FitRequest, SoundRow, Story
<1> QED
    BY <1>1, <1>2 DEF Requests

LEMMA EndStep ==
    ASSUME Requests, NEW r \in Handlers, End(r)
    PROVE  Requests'
BY IdleFit, HandlerStep DEF End

LEMMA GoOnStep ==
    ASSUME Requests, NEW r \in Handlers, NEW op \in {"apply", "announce"}, NEW value \in Int,
           handler[r].op # "contract", GoOn(r, op, value)
    PROVE  Requests'
<1> DEFINE request == [handler[r] EXCEPT !.op = op, !.value = value]
<1>1. handler' = [handler EXCEPT ![r] = request]
    BY DEF GoOn, Requests, Request
<1>2. /\ request \in Request /\ request.op = op /\ request.of = handler[r].of
    BY DEF Requests, Request, Ops
<1> HIDE DEF request
<1>3. FitRequest(request)
    BY <1>2 DEF Requests, FitRequest
<1> QED
    BY <1>1, <1>3, HandlerStep

\* One variation is written.
LEMMA RowStep ==
    ASSUME Rows, NEW v \in Variations, NEW row, SoundRow(row),
           variation' = [variation EXCEPT ![v] = row]
    PROVE  Rows'
<1>1. row \in VariationRow
    BY DEF SoundRow
<1>2. \A w \in Variations : variation'[w] \in {variation[w], row}
    BY DEF Rows
<1> QED
    BY <1>1, <1>2 DEF Rows

\* What a request that advances, rejects or corrects has read.
LEMMA Held ==
    ASSUME Inv, NEW r \in Handlers, handler[r].op \in {"advance", "reject", "patch"},
           variation[handler[r].of] # NoRow
    PROVE  /\ handler[r].of \in Variations
           /\ SoundRow(handler[r].row)
           /\ handler[r].op = "advance" => handler[r].row.status = "Pending"
           /\ SoundRow(variation[handler[r].of])
           /\ variation[handler[r].of] \in VariationRow
           /\ variation[handler[r].of].amount \in Int
BY DEF Inv, Requests, Rows, FitRequest, SoundRow, VariationRow

-----------------------------------------------------------------------------
\* The steps.
LEMMA InitInv == Init => Inv
<1> SUFFICES ASSUME Init PROVE Inv
    OBVIOUS
<1>1. Ledgers
    BY VariationAssumption DEF Init, Ledgers
<1>2. Rows
    BY DEF Init, Rows
<1>3. Requests
    BY IdleFit DEF Init, Requests, FitRequest
<1> QED
    BY <1>1, <1>2, <1>3 DEF Inv

LEMMA CreateInv ==
    ASSUME Inv, NEW v \in Variations, CreateVariation(v)
    PROVE  Inv'
<1>1. PICK amount \in Amounts, by \in Names :
          variation' = [variation EXCEPT ![v] = NewVariation(amount, by)]
    BY DEF CreateVariation
<1>2. Rows'
    BY <1>1, NewSound, RowStep, VariationAssumption DEF Inv
<1>3. Ledgers' /\ Requests'
    BY DEF CreateVariation, Inv, Ledgers, Requests, FitRequest, SoundRow, Story
<1> QED
    BY <1>2, <1>3 DEF Inv

LEMMA OpenInv ==
    ASSUME Inv, NEW r \in Handlers, NEW v \in Variations,
           NEW op \in {"advance", "reject", "patch"}, Open(r, v, op)
    PROVE  Inv'
<1>1. /\ SoundRow(variation[v]) /\ variation[v] \in VariationRow
      /\ op = "advance" => variation[v].status = "Pending"
    BY DEF Open, Inv, Rows
<1>2. FitRequest(Serving(op, v, variation[v], 0))
    BY <1>1, ServingFit DEF Ops
<1>3. Requests'
    BY <1>2, HandlerStep DEF Open, Begin, Inv
<1>4. Ledgers' /\ Rows'
    BY DEF Open, Inv, Ledgers, Rows, SoundRow, Story
<1> QED
    BY <1>3, <1>4 DEF Inv

LEMMA AdvanceInv ==
    ASSUME Inv, NEW r \in Handlers, AdvanceVariation(r)
    PROVE  Inv'
<1> DEFINE v == handler[r].of
           row == handler[r].row
           amount == variation[v].amount
<1>1. PICK by \in Names :
          LET mine == Advanced(row, by) IN
          /\ ~SelfSuccession(row.approvals, row.stage, by)
          /\ variation' = [variation EXCEPT ![v] = UpdateVariation(variation[v], mine)]
          /\ agreed' = IF mine.status = "Approved" /\ variation[v].status # "Approved"
                       THEN [agreed EXCEPT ![On[v]] = @ + amount]
                       ELSE agreed
          /\ IF Approves(mine) THEN GoOn(r, "apply", amount) ELSE End(r)
    BY DEF AdvanceVariation
<1>2. /\ v \in Variations /\ SoundRow(row) /\ row.status = "Pending"
      /\ variation[v] \in VariationRow /\ amount \in Int
    BY Held DEF AdvanceVariation
<1>3. Rows'
    BY <1>1, <1>2, AdvancedSound, UpdateSound, RowStep DEF Inv
<1>4. Requests'
    BY <1>1, <1>2, EndStep, GoOnStep DEF Inv, AdvanceVariation
<1>5. Ledgers'
    BY <1>1, <1>2, VariationAssumption DEF AdvanceVariation, Inv, Ledgers
<1> QED
    BY <1>3, <1>4, <1>5 DEF Inv

LEMMA ApplyInv ==
    ASSUME Inv, NEW r \in Handlers, AddContractValue(r)
    PROVE  Inv'
<1>1. handler[r].of \in Variations /\ handler[r].value \in Int /\ On[handler[r].of] \in Contracts
    BY VariationAssumption DEF AddContractValue, Inv, Requests, FitRequest, Request
<1>2. Requests'
    BY <1>1, GoOnStep DEF AddContractValue, Inv
<1>3. Ledgers'
    BY <1>1 DEF AddContractValue, Inv, Ledgers
<1>4. Rows'
    BY DEF AddContractValue, Inv, Rows, SoundRow, Story
<1> QED
    BY <1>2, <1>3, <1>4 DEF Inv

LEMMA AnnounceInv ==
    ASSUME Inv, NEW r \in Handlers, AnnounceVariation(r)
    PROVE  Inv'
<1>1. handler[r].of \in Variations /\ handler[r].value \in Int
    BY DEF AnnounceVariation, Inv, Requests, FitRequest, Request
<1>2. Requests'
    BY EndStep DEF AnnounceVariation, Inv
<1>3. Ledgers'
    <2>1. <<handler[r].of, handler[r].value>> \in Variations \X Int
        BY <1>1
    <2> QED
        BY <2>1 DEF AnnounceVariation, Inv, Ledgers
<1>4. Rows'
    BY DEF AnnounceVariation, Inv, Rows, SoundRow, Story
<1> QED
    BY <1>2, <1>3, <1>4 DEF Inv

LEMMA RejectInv ==
    ASSUME Inv, NEW r \in Handlers, RejectVariation(r)
    PROVE  Inv'
<1>1. PICK by \in Names :
          variation' = [variation EXCEPT ![handler[r].of] =
              UpdateVariation(variation[handler[r].of], Rejected(handler[r].row, by))]
    BY DEF RejectVariation
<1>2. /\ handler[r].of \in Variations /\ SoundRow(handler[r].row)
      /\ variation[handler[r].of] \in VariationRow
    BY Held DEF RejectVariation
<1>3. Rows'
    BY <1>1, <1>2, RejectedSound, UpdateSound, RowStep DEF Inv
<1>4. Requests'
    BY EndStep DEF RejectVariation, Inv
<1>5. Ledgers'
    BY DEF RejectVariation, Inv, Ledgers
<1> QED
    BY <1>3, <1>4, <1>5 DEF Inv

LEMMA PatchInv ==
    ASSUME Inv, NEW r \in Handlers, PatchVariation(r)
    PROVE  Inv'
<1> DEFINE v == handler[r].of
           row == handler[r].row
<1>1. /\ v \in Variations /\ SoundRow(row) /\ SoundRow(variation[v])
    BY Held DEF PatchVariation
<1>2. row \in VariationRow /\ row.amount \in Int
    BY <1>1 DEF SoundRow, VariationRow
<1>3. PICK amount \in Int :
          variation' = [variation EXCEPT
              ![v] = UpdateDetails(variation[v], [row EXCEPT !.amount = amount])]
    BY <1>2, VariationAssumption DEF PatchVariation
<1>4. [row EXCEPT !.amount = amount].amount \in Int
    BY <1>2 DEF VariationRow
<1>5. Rows'
    BY <1>1, <1>3, <1>4, DetailsSound, RowStep DEF Inv
<1>6. Requests'
    BY EndStep DEF PatchVariation, Inv
<1>7. Ledgers'
    BY DEF PatchVariation, Inv, Ledgers
<1> QED
    BY <1>5, <1>6, <1>7 DEF Inv

LEMMA OpenContractInv ==
    ASSUME Inv, NEW r \in Handlers, NEW c \in Contracts, OpenContract(r, c)
    PROVE  Inv'
<1>1. contract[c] \in Int
    BY DEF OpenContract, Inv, Ledgers
<1>2. FitRequest(Serving("contract", c, NoRow, contract[c]))
    BY <1>1, ServingFit DEF Ops
<1>3. Requests'
    BY <1>2, HandlerStep DEF OpenContract, Begin, Inv
<1>4. Ledgers' /\ Rows'
    BY DEF OpenContract, Inv, Ledgers, Rows, SoundRow, Story
<1> QED
    BY <1>3, <1>4 DEF Inv

LEMMA PatchContractInv ==
    ASSUME Inv, NEW r \in Handlers, PatchContract(r)
    PROVE  Inv'
<1>1. handler[r].value \in Int
    BY DEF Inv, Requests, Request
<1>2. Requests'
    BY EndStep DEF PatchContract, Inv
<1>3. Ledgers'
    BY <1>1, VariationAssumption DEF PatchContract, Inv, Ledgers
<1>4. Rows'
    BY DEF PatchContract, Inv, Rows, SoundRow, Story
<1> QED
    BY <1>2, <1>3, <1>4 DEF Inv

LEMMA DeleteInv ==
    ASSUME Inv, NEW c \in Contracts, DeleteContract(c)
    PROVE  Inv'
<1>1. Rows'
    <2>1. \A v \in Variations : variation'[v] \in {variation[v], NoRow}
        BY DEF DeleteContract
    <2>2. variation' \in [Variations -> VariationRow \cup {NoRow}]
        BY DEF DeleteContract, Inv, Rows
    <2> QED
        BY <2>1, <2>2 DEF Inv, Rows
<1>2. Ledgers' /\ Requests'
    BY DEF DeleteContract, Inv, Ledgers, Requests, FitRequest, SoundRow, Story
<1> QED
    BY <1>1, <1>2 DEF Inv

\* A request that ends and writes nothing.
LEMMA QuietInv ==
    ASSUME Inv, NEW r \in Handlers, Refuse(r) \/ Fail(r)
    PROVE  Inv'
<1>1. End(r) /\ UNCHANGED <<contract, variation, announced, agreed>>
    BY DEF Refuse, Fail
<1>2. Requests'
    BY <1>1, EndStep DEF Inv
<1>3. Ledgers' /\ Rows'
    BY <1>1 DEF Inv, Ledgers, Rows, SoundRow, Story
<1> QED
    BY <1>2, <1>3 DEF Inv

LEMMA StepInv == Inv /\ [Next]_vars => Inv'
<1> SUFFICES ASSUME Inv, [Next]_vars PROVE Inv'
    OBVIOUS
<1>1. CASE UNCHANGED vars
    BY <1>1 DEF vars, Inv, Ledgers, Rows, Requests, FitRequest, SoundRow, Story
<1>2. CASE \E v \in Variations : CreateVariation(v)
    BY <1>2, CreateInv
<1>3. CASE \E r \in Handlers, v \in Variations :
               OpenAdvance(r, v) \/ OpenReject(r, v) \/ OpenCorrection(r, v)
    BY <1>3, OpenInv DEF OpenAdvance, OpenReject, OpenCorrection
<1>4. CASE \E r \in Handlers : AdvanceVariation(r)
    BY <1>4, AdvanceInv
<1>5. CASE \E r \in Handlers : AddContractValue(r) \/ AnnounceVariation(r)
    BY <1>5, ApplyInv, AnnounceInv
<1>6. CASE \E r \in Handlers : RejectVariation(r) \/ PatchVariation(r)
    BY <1>6, RejectInv, PatchInv
<1>7. CASE \E r \in Handlers : PatchContract(r) \/ (\E c \in Contracts : OpenContract(r, c))
    BY <1>7, PatchContractInv, OpenContractInv
<1>8. CASE \E c \in Contracts : DeleteContract(c)
    BY <1>8, DeleteInv
<1>9. CASE \E r \in Handlers : Refuse(r) \/ Fail(r)
    BY <1>9, QuietInv
<1> QED
    BY <1>1, <1>2, <1>3, <1>4, <1>5, <1>6, <1>7, <1>8, <1>9 DEF Next

\* Every version of every variation, stored or held, stays sound.
THEOREM RowsStaySound == Spec => []Inv
BY InitInv, StepInv, PTL DEF Spec

-----------------------------------------------------------------------------
\* Every variable keeps its type, and a request about to clear a desk holds a row that
\* was pending.
THEOREM TypeCorrect == Spec => []TypeOK
<1>1. Inv => TypeOK
    <2> SUFFICES ASSUME Inv PROVE TypeOK
        OBVIOUS
    <2>1. ASSUME NEW row, SoundRow(row)
          PROVE  row # NoRow
        BY <2>1, NoRowAssumption DEF SoundRow
    <2> QED
        BY <2>1 DEF Inv, Ledgers, Rows, Requests, FitRequest, TypeOK
<1> QED
    BY <1>1, RowsStaySound, PTL

\* No two successive desks of a variation that is not rejected were cleared by one
\* person, the raiser's own approval included, whatever requests overlap or die.
THEOREM FourEyesHolds == Spec => []VariationFourEyes
<1>1. Inv => VariationFourEyes
    BY DEF Inv, Rows, SoundRow, VariationFourEyes
<1> QED
    BY <1>1, RowsStaySound, PTL

\* Status, stage and approvals of a stored variation tell one story, although each
\* request rewrites them from what it read.
THEOREM StoryCorrect == Spec => []SignaturesMatchStatus
<1>1. Inv => SignaturesMatchStatus
    BY DEF Inv, Rows, SoundRow, Story, SignaturesMatchStatus
<1> QED
    BY <1>1, RowsStaySound, PTL
=============================================================================
