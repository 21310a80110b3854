------------------------- MODULE RequisitionProofs --------------------------
(***************************************************************************)
(* Proofs about RequisitionWorkflow, for any number of requisitions,       *)
(* contracts, handlers, names and numbers, with or without faults; and,    *)
(* below, about GovRegisters, for any number of requests, budget codes,    *)
(* requisitions, contracts, obligations and checklist items.               *)
(***************************************************************************)
EXTENDS GovRegisters, RequisitionWorkflow, GovChainProofs, FiniteSetTheorems, TLAPS

-----------------------------------------------------------------------------
\* What the operators do to a row.

LEMMA NewRequisitionType ==
    ASSUME NEW no \in Numbers, NEW estimate \in Nat, NEW by \in Names
    PROVE  NewRequisition(no, estimate, by) \in RequisitionRow
BY DEF NewRequisition, RequisitionRow, Stages, Complete, Signer, Desks

LEMMA AdvancedType ==
    ASSUME NEW row \in RequisitionRow, row.stage < Complete, NEW by \in Names
    PROVE  /\ row.stage \in Desks /\ row.approvals \in [Desks -> Signer]
           /\ Advanced(row, by) \in RequisitionRow
           /\ Advanced(row, by).stage = row.stage + 1
           /\ Advanced(row, by).approvals = [row.approvals EXCEPT ![row.stage] = by]
           /\ Advanced(row, by).link = row.link
           /\ Advanced(row, by).no = row.no
           /\ Advanced(row, by).estimate = row.estimate
           /\ Advanced(row, by).status =
                  IF row.stage + 1 = Complete THEN "Approved" ELSE row.status
<1>0. row.approvals \in [Desks -> Signer]
    BY DEF RequisitionRow
<1>1. row.stage \in Desks /\ row.stage + 1 \in Stages
    BY DEF RequisitionRow, Stages, Complete, Desks
<1>2. [row.approvals EXCEPT ![row.stage] = by] \in [Desks -> Signer]
    BY <1>0, <1>1, SignedSteps
<1> DEFINE after == [row.approvals EXCEPT ![row.stage] = by]
           status == IF row.stage + 1 = Complete THEN "Approved" ELSE row.status
<1>3. Advanced(row, by) = [row EXCEPT !.stage = row.stage + 1, !.approvals = after,
                                      !.status = status]
    BY DEF Advanced, RequisitionRow
<1>4. status \in {"PendingApproval", "Approved", "Rejected", "Converted"}
    BY DEF RequisitionRow
<1> HIDE DEF after, status
<1> QED
    BY <1>0, <1>1, <1>2, <1>3, <1>4 DEF RequisitionRow, after, status

LEMMA RejectedType ==
    ASSUME NEW row \in RequisitionRow, NEW by \in Names
    PROVE  /\ Rejected(row, by) \in RequisitionRow
           /\ Rejected(row, by).stage = row.stage
           /\ Rejected(row, by).approvals =
                  [row.approvals EXCEPT ![IF row.stage < Complete THEN row.stage ELSE 3] = by]
           /\ Rejected(row, by).status = "Rejected"
           /\ Rejected(row, by).link = row.link
           /\ Rejected(row, by).no = row.no
           /\ Rejected(row, by).estimate = row.estimate
<1> DEFINE at == IF row.stage < Complete THEN row.stage ELSE 3
<1>0. row.approvals \in [Desks -> Signer]
    BY DEF RequisitionRow
<1>1. at \in Desks
    BY DEF RequisitionRow, Stages, Complete, Desks
<1>2. [row.approvals EXCEPT ![at] = by] \in [Desks -> Signer]
    BY <1>0, <1>1, SignedSteps
<1> DEFINE after == [row.approvals EXCEPT ![at] = by]
<1>3. Rejected(row, by) = [row EXCEPT !.status = "Rejected", !.approvals = after]
    BY DEF Rejected, RequisitionRow
<1> HIDE DEF after
<1> QED
    BY <1>1, <1>2, <1>3 DEF RequisitionRow, after

LEMMA ConvertedType ==
    ASSUME NEW row \in RequisitionRow, NEW c \in Contracts
    PROVE  /\ Converted(row, c) \in RequisitionRow
           /\ Converted(row, c).status = "Converted"
           /\ Converted(row, c).link = c
           /\ Converted(row, c).stage = row.stage
           /\ Converted(row, c).approvals = row.approvals
           /\ Converted(row, c).no = row.no
BY DEF Converted, RequisitionRow

LEMMA UpdateType ==
    ASSUME NEW stored \in RequisitionRow, NEW mine \in RequisitionRow
    PROVE  /\ UpdateRequisition(stored, mine) \in RequisitionRow
           /\ UpdateRequisition(stored, mine).status = mine.status
           /\ UpdateRequisition(stored, mine).stage = mine.stage
           /\ UpdateRequisition(stored, mine).approvals = mine.approvals
           /\ UpdateRequisition(stored, mine).link = mine.link
           /\ UpdateRequisition(stored, mine).no = stored.no
           /\ UpdateRequisition(stored, mine).estimate = stored.estimate
BY DEF UpdateRequisition, RequisitionRow

LEMMA DetailsType ==
    ASSUME NEW stored \in RequisitionRow, NEW mine \in RequisitionRow
    PROVE  /\ UpdateDetails(stored, mine) \in RequisitionRow
           /\ UpdateDetails(stored, mine).status = stored.status
           /\ UpdateDetails(stored, mine).stage = stored.stage
           /\ UpdateDetails(stored, mine).approvals = stored.approvals
           /\ UpdateDetails(stored, mine).link = stored.link
           /\ UpdateDetails(stored, mine).no = mine.no
           /\ UpdateDetails(stored, mine).estimate = mine.estimate
BY DEF UpdateDetails, RequisitionRow

LEMMA IdleType == Idle \in Request /\ Idle.op = "idle"
<1>1. (CHOOSE q \in Requisitions : TRUE) \in Requisitions
    BY RequisitionAssumption
<1> QED
    BY <1>1 DEF Idle, Serving, Request, Ops

LEMMA ServingType ==
    ASSUME NEW op \in Ops, NEW q \in Requisitions, NEW row \in RequisitionRow
    PROVE  /\ Serving(op, q, row) \in Request
           /\ Serving(op, q, row).op = op
           /\ Serving(op, q, row).of = q
           /\ Serving(op, q, row).row = row
BY DEF Serving, Request

-----------------------------------------------------------------------------
\* What a request in service has read exists, and a row to advance has a desk left.
Fit(request) ==
    /\ request.op # "idle" =>
          request.row \in RequisitionRow /\ requisition[request.of] # NoRow
    /\ request.op = "advance" => request.row.stage < Complete

\* The handlers after one of them ended, or began or went on with a fit request,
\* while no requisition disappeared.
LEMMA HandlersType ==
    ASSUME TypeOK, NEW r \in Handlers, NEW request \in Request,
           handler' = [handler EXCEPT ![r] = request],
           Fit(request)',
           \A q \in Requisitions : requisition[q] # NoRow => requisition'[q] # NoRow
    PROVE  /\ handler' \in [Handlers -> Request]
           /\ (\A h \in Handlers :
                  /\ handler[h].op # "idle" => handler[h].row # NoRow
                                               /\ requisition[handler[h].of] # NoRow
                  /\ handler[h].op = "advance" => handler[h].row.stage < Complete)'
<1>1. handler' \in [Handlers -> Request]
    BY DEF TypeOK
<1>2. ASSUME NEW h \in Handlers
      PROVE  (/\ handler[h].op # "idle" => handler[h].row # NoRow
                                           /\ requisition[handler[h].of] # NoRow
              /\ handler[h].op = "advance" => handler[h].row.stage < Complete)'
    <2>1. CASE h = r
        <3>1. handler'[h] = request
            BY <2>1 DEF TypeOK
        <3> QED
            BY <3>1, NoRowAssumption DEF Fit
    <2>2. CASE h # r
        <3>1. handler'[h] = handler[h] /\ handler[h].of \in Requisitions
            BY <2>2 DEF TypeOK, Request
        <3> QED
            BY <3>1 DEF TypeOK
    <2> QED
        BY <2>1, <2>2
<1> QED
    BY <1>1, <1>2

\* A step that writes one requisition and ends.
LEMMA StoreType ==
    ASSUME TypeOK, NEW r \in Handlers, NEW q \in Requisitions, NEW row \in RequisitionRow,
           Store(q, row), End(r)
    PROVE  /\ requisition' \in [Requisitions -> RequisitionRow \cup {NoRow}]
           /\ \A p \in Requisitions : requisition[p] # NoRow => requisition'[p] # NoRow
           /\ handler' \in [Handlers -> Request]
           /\ (\A h \in Handlers :
                  /\ handler[h].op # "idle" => handler[h].row # NoRow
                                               /\ requisition[handler[h].of] # NoRow
                  /\ handler[h].op = "advance" => handler[h].row.stage < Complete)'
<1>1. /\ requisition' \in [Requisitions -> RequisitionRow \cup {NoRow}]
      /\ \A p \in Requisitions : requisition[p] # NoRow => requisition'[p] # NoRow
    BY NoRowAssumption DEF TypeOK, Store
<1>2. Fit(Idle)'
    BY IdleType DEF Fit
<1> QED
    BY <1>1, <1>2, IdleType, HandlersType DEF End

\* What a handler in service holds.
LEMMA HeldType ==
    ASSUME TypeOK, NEW r \in Handlers, handler[r].op # "idle"
    PROVE  /\ handler[r].of \in Requisitions
           /\ handler[r].row \in RequisitionRow
           /\ requisition[handler[r].of] \in RequisitionRow
BY DEF TypeOK, Request

-----------------------------------------------------------------------------
\* The type invariant.
LEMMA InitType == Init => TypeOK
BY IdleType DEF Init, TypeOK

LEMMA TellType ==
    ASSUME TypeOK, NEW q \in Requisitions, NEW what \in {"approved", "converted"},
           Tell(<<what, q>>)
    PROVE  told' \subseteq ({"approved", "converted"} \X Requisitions)
BY DEF TypeOK, Tell

-----------------------------------------------------------------------------
\* What is true of every version of a row, the ones requests hold included: it tells
\* one story, and its chain is four-eyed unless it was rejected.  A request that
\* advances or converts holds a version that may still be.
RowSound(q, row) ==
    /\ StoryHolds(q, row)
    /\ row.status # "Rejected" => FourEyes(row.approvals, row.stage)

RowsSound ==
    /\ \A q \in Requisitions : requisition[q] # NoRow => RowSound(q, requisition[q])
    /\ \A r \in Handlers :
          /\ handler[r].op # "idle" => RowSound(handler[r].of, handler[r].row)
          /\ handler[r].op = "advance" => handler[r].row.status = "PendingApproval"
          /\ handler[r].op = "convert" => /\ handler[r].row.status = "Approved"
                                          /\ handler[r].row.link = NoRow

Inv == TypeOK /\ RowsSound

\* Clearing a desk, declining and converting keep a row sound.
LEMMA NewSound ==
    ASSUME NEW q, NEW no \in Numbers, NEW estimate \in Nat, NEW by \in Names
    PROVE  RowSound(q, NewRequisition(no, estimate, by))
<1> DEFINE row == NewRequisition(no, estimate, by)
<1>1. /\ row.status = "PendingApproval" /\ row.stage = 1 /\ row.link = NoRow
      /\ row.approvals = [d \in Desks |-> IF d = 0 THEN by ELSE Blank]
    BY DEF NewRequisition
<1> HIDE DEF row
<1>2. SignedBelow(row.approvals, row.stage)
    BY <1>1, NamesAssumption DEF SignedBelow, Desks
<1>3. FourEyes(row.approvals, row.stage)
    BY <1>1 DEF FourEyes
<1> QED
    BY <1>1, <1>2, <1>3 DEF RowSound, StoryHolds, row

LEMMA AdvancedSound ==
    ASSUME NEW q, NEW row \in RequisitionRow, RowSound(q, row),
           row.status = "PendingApproval", NEW by \in Names,
           ~SelfSuccession(row.approvals, row.stage, by)
    PROVE  Advanced(row, by) \in RequisitionRow /\ RowSound(q, Advanced(row, by))
<1>1. row.stage \in 1 .. 3 /\ SignedBelow(row.approvals, row.stage)
      /\ FourEyes(row.approvals, row.stage) /\ row.link = NoRow
    BY DEF RowSound, StoryHolds
<1>2. row.stage < Complete /\ row.stage \in Nat
    BY <1>1 DEF Complete
<1> DEFINE next == Advanced(row, by)
<1>3. /\ row.stage \in Desks /\ row.approvals \in [Desks -> Signer]
      /\ next \in RequisitionRow
      /\ next.stage = row.stage + 1
      /\ next.approvals = [row.approvals EXCEPT ![row.stage] = by]
      /\ next.link = row.link
      /\ next.status = IF row.stage + 1 = Complete THEN "Approved" ELSE row.status
    BY <1>2, AdvancedType
<1> HIDE DEF next
<1>4. SignedBelow(next.approvals, next.stage) /\ FourEyes(next.approvals, next.stage)
    BY <1>1, <1>3, SignedOneMore, ClearedFourEyes
<1>5. \/ next.status = "PendingApproval" /\ next.stage \in 1 .. 3
      \/ next.status = "Approved" /\ next.stage = Complete
    BY <1>1, <1>3 DEF Complete
<1> QED
    BY <1>1, <1>3, <1>4, <1>5 DEF RowSound, StoryHolds, next

LEMMA RejectedSound ==
    ASSUME NEW q, NEW row \in RequisitionRow, RowSound(q, row), NEW by \in Names
    PROVE  Rejected(row, by) \in RequisitionRow /\ RowSound(q, Rejected(row, by))
<1> DEFINE next == Rejected(row, by)
           at == IF row.stage < Complete THEN row.stage ELSE 3
<1>1. /\ next \in RequisitionRow /\ next.status = "Rejected"
      /\ next.stage = row.stage /\ next.link = row.link
      /\ next.approvals = [row.approvals EXCEPT ![at] = by]
    BY RejectedType
<1>2. row.approvals \in [Desks -> Signer] /\ row.stage \in 0 .. 4
      /\ row.status \in {"PendingApproval", "Approved", "Rejected", "Converted"}
    BY DEF RequisitionRow, Stages, Complete
<1>3. at \in Desks /\ (row.stage = 4 => at = 3) /\ (row.stage # 4 => at = row.stage)
    BY <1>2 DEF Desks, Complete
<1> HIDE DEF next, at
<1>4. /\ next.approvals[at] = by /\ by # Blank
      /\ \A d \in Desks : d # at => next.approvals[d] = row.approvals[d]
    BY <1>1, <1>2, <1>3, SignedSteps, NamesAssumption
<1>5. SignedBelow(row.approvals, row.stage) \/ SignedBelow(row.approvals, row.stage + 1)
    BY DEF RowSound, StoryHolds
<1>6. SignedBelow(next.approvals, next.stage + 1)
    BY <1>1, <1>2, <1>3, <1>4, <1>5 DEF SignedBelow, Desks
<1>7. row.link # NoRow => row.stage = Complete /\ row.link \in made[q]
    BY DEF RowSound, StoryHolds
<1> QED
    BY <1>1, <1>6, <1>7 DEF RowSound, StoryHolds, next

\* A row with the chain columns and the link of a sound one is sound, and stays so as
\* contracts are made.
LEMMA SoundCopy ==
    ASSUME NEW q \in Requisitions, NEW row, NEW other, RowSound(q, row),
           other.status = row.status, other.stage = row.stage,
           other.approvals = row.approvals, other.link = row.link
    PROVE  RowSound(q, other)
BY DEF RowSound, StoryHolds

LEMMA SoundStays ==
    ASSUME NEW q \in Requisitions, NEW row, RowSound(q, row), made[q] \subseteq made'[q]
    PROVE  RowSound(q, row)'
BY DEF RowSound, StoryHolds

\* What a handler in service holds is sound.
LEMMA HeldSound ==
    ASSUME Inv, NEW r \in Handlers, handler[r].op # "idle"
    PROVE  /\ handler[r].of \in Requisitions
           /\ handler[r].row \in RequisitionRow
           /\ requisition[handler[r].of] \in RequisitionRow
           /\ RowSound(handler[r].of, handler[r].row)
           /\ RowSound(handler[r].of, requisition[handler[r].of])
<1>1. /\ handler[r].of \in Requisitions
      /\ handler[r].row \in RequisitionRow
      /\ requisition[handler[r].of] \in RequisitionRow
    BY HeldType DEF Inv
<1> QED
    BY <1>1, NoRowAssumption DEF Inv, RowsSound

\* A step that stores a sound row and ends.
LEMMA StoreSound ==
    ASSUME Inv, NEW r \in Handlers, NEW q \in Requisitions, NEW row \in RequisitionRow,
           RowSound(q, row), Store(q, row), End(r), UNCHANGED made
    PROVE  RowsSound'
<1>1. ASSUME NEW p \in Requisitions, requisition'[p] # NoRow
      PROVE  RowSound(p, requisition[p])'
    <2>1. CASE p = q
        <3>1. requisition'[p] = row
            BY <2>1 DEF Store, Inv, TypeOK
        <3> QED
            BY <2>1, <3>1 DEF RowSound, StoryHolds
    <2>2. CASE p # q
        <3>1. requisition'[p] = requisition[p]
            BY <2>2 DEF Store, Inv, TypeOK
        <3>2. RowSound(p, requisition[p])
            BY <1>1, <3>1 DEF Inv, RowsSound
        <3> QED
            BY <3>1, <3>2 DEF RowSound, StoryHolds
    <2> QED
        BY <2>1, <2>2
<1>2. ASSUME NEW h \in Handlers
      PROVE  (/\ handler[h].op # "idle" => RowSound(handler[h].of, handler[h].row)
              /\ handler[h].op = "advance" => handler[h].row.status = "PendingApproval"
              /\ handler[h].op = "convert" => /\ handler[h].row.status = "Approved"
                                              /\ handler[h].row.link = NoRow)'
    <2>1. CASE h = r
        BY <2>1, IdleType DEF End, Inv, TypeOK
    <2>2. CASE h # r
        <3>1. handler'[h] = handler[h]
            BY <2>2 DEF End, Inv, TypeOK
        <3> QED
            BY <3>1 DEF Inv, RowsSound, RowSound, StoryHolds
    <2> QED
        BY <2>1, <2>2
<1> QED
    BY <1>1, <1>2 DEF RowsSound

-----------------------------------------------------------------------------
\* The invariant: types and sound rows together, since that a row to advance has a
\* desk left follows from its story.
LEMMA InitInv == Init => Inv
BY IdleType, InitType DEF Init, Inv, RowsSound

\* A step that stores a row of sound chain, tells, and ends.
LEMMA StoreInv ==
    ASSUME Inv, NEW r \in Handlers, NEW q \in Requisitions, NEW row \in RequisitionRow,
           RowSound(q, row), Store(q, row), End(r), UNCHANGED <<contract, made, disturbed, revalued>>,
           renamed' \subseteq Requisitions,
           told' \subseteq ({"approved", "converted"} \X Requisitions)
    PROVE  Inv'
<1>1. RowsSound'
    BY StoreSound
<1>2. TypeOK
    BY DEF Inv
<1>3. /\ requisition' \in [Requisitions -> RequisitionRow \cup {NoRow}]
      /\ handler' \in [Handlers -> Request]
      /\ (\A h \in Handlers :
             /\ handler[h].op # "idle" => handler[h].row # NoRow
                                          /\ requisition[handler[h].of] # NoRow
             /\ handler[h].op = "advance" => handler[h].row.stage < Complete)'
    BY <1>2, StoreType
<1> QED
    BY <1>1, <1>2, <1>3 DEF Inv, TypeOK

\* A request that reads its row.
LEMMA OpenInv ==
    ASSUME Inv, NEW r \in Handlers, NEW q \in Requisitions,
           NEW op \in {"advance", "reject", "patch", "convert"}, Open(r, q, op),
           op = "advance" => requisition[q].status = "PendingApproval",
           op = "convert" => requisition[q].status = "Approved" /\ requisition[q].link = NoRow
    PROVE  Inv'
<1>1. TypeOK /\ RowsSound
    BY DEF Inv
<1>2. PICK row \in RequisitionRow : row = requisition[q] /\ RowSound(q, row)
    BY <1>1 DEF Open, TypeOK, RowsSound
<1>3. op = "advance" => row.stage < Complete
    <2>1. row.status = "PendingApproval" => row.stage \in 1 .. 3
        BY <1>2 DEF RowSound, StoryHolds
    <2> QED
        BY <1>2, <2>1 DEF Complete
<1> DEFINE request == Serving(op, q, row)
<1>4. /\ request \in Request /\ request.op = op /\ request.of = q
      /\ request.row = row
    BY <1>2, ServingType DEF Ops
<1>5. /\ UNCHANGED <<requisition, contract, told, made, renamed, revalued>>
      /\ handler' = [handler EXCEPT ![r] = request] /\ requisition[q] # NoRow
    BY <1>2 DEF Open
<1>6. disturbed' \subseteq Requisitions
    BY <1>1 DEF Open, TypeOK
<1> HIDE DEF request
<1>7. Fit(request)'
    BY <1>2, <1>3, <1>4, <1>5, NoRowAssumption DEF Fit
<1>8. TypeOK'
    <2>1. /\ handler' \in [Handlers -> Request]
          /\ (\A h \in Handlers :
                  /\ handler[h].op # "idle" => handler[h].row # NoRow
                                               /\ requisition[handler[h].of] # NoRow
                  /\ handler[h].op = "advance" => handler[h].row.stage < Complete)'
        BY <1>1, <1>4, <1>5, <1>7, HandlersType
    <2> QED
        BY <1>1, <1>5, <1>6, <2>1 DEF TypeOK
<1>9. RowsSound'
    <2>1. ASSUME NEW h \in Handlers
          PROVE  (/\ handler[h].op # "idle" => RowSound(handler[h].of, handler[h].row)
                  /\ handler[h].op = "advance" => handler[h].row.status = "PendingApproval"
                  /\ handler[h].op = "convert" => /\ handler[h].row.status = "Approved"
                                                  /\ handler[h].row.link = NoRow)'
        <3>1. CASE h = r
            <4>1. handler'[h] = request
                BY <1>1, <1>5, <3>1 DEF TypeOK
            <4> QED
                BY <1>2, <1>4, <1>5, <4>1 DEF RowSound, StoryHolds
        <3>2. CASE h # r
            <4>1. handler'[h] = handler[h]
                BY <1>1, <1>5, <3>2 DEF TypeOK
            <4> QED
                BY <1>1, <1>5, <4>1 DEF RowsSound, RowSound, StoryHolds
        <3> QED
            BY <3>1, <3>2
    <2> QED
        BY <1>1, <1>5, <2>1 DEF RowsSound, RowSound, StoryHolds
<1> QED
    BY <1>8, <1>9 DEF Inv

LEMMA CreateInv ==
    ASSUME Inv, NEW q \in Requisitions, CreateRequisition(q)
    PROVE  Inv'
<1>1. TypeOK /\ RowsSound
    BY DEF Inv
<1>2. PICK row \in RequisitionRow :
          /\ RowSound(q, row)
          /\ requisition' = [requisition EXCEPT ![q] = row]
    BY NewRequisitionType, NewSound, RequisitionAssumption DEF CreateRequisition
<1>3. UNCHANGED <<contract, told, handler, made, renamed, disturbed, revalued>>
    BY DEF CreateRequisition
<1>4. /\ requisition' \in [Requisitions -> RequisitionRow \cup {NoRow}]
      /\ requisition'[q] = row
      /\ \A p \in Requisitions : p # q => requisition'[p] = requisition[p]
      /\ \A p \in Requisitions : requisition[p] # NoRow => requisition'[p] # NoRow
    BY <1>1, <1>2, NoRowAssumption DEF TypeOK
<1>5. TypeOK'
    BY <1>1, <1>3, <1>4 DEF TypeOK, Request
<1>6. \A p \in Requisitions : requisition'[p] # NoRow => RowSound(p, requisition'[p])
    BY <1>1, <1>2, <1>4 DEF RowsSound
<1>7. RowsSound'
    BY <1>1, <1>3, <1>6 DEF RowsSound, RowSound, StoryHolds
<1> QED
    BY <1>5, <1>7 DEF Inv

\* A request that ends and writes no requisition.
LEMMA EndInv ==
    ASSUME Inv, NEW r \in Handlers, End(r), UNCHANGED <<requisition, contract, told, made, renamed, revalued>>,
           disturbed' \subseteq Requisitions
    PROVE  Inv'
<1>1. TypeOK /\ RowsSound
    BY DEF Inv
<1>2. Idle \in Request /\ Idle.op = "idle" /\ Fit(Idle)'
    BY IdleType DEF Fit
<1>3. TypeOK'
    <2>1. /\ handler' \in [Handlers -> Request]
          /\ (\A h \in Handlers :
                  /\ handler[h].op # "idle" => handler[h].row # NoRow
                                               /\ requisition[handler[h].of] # NoRow
                  /\ handler[h].op = "advance" => handler[h].row.stage < Complete)'
        BY <1>1, <1>2, HandlersType DEF End
    <2> QED
        BY <1>1, <2>1 DEF TypeOK
<1>4. \A h \in Handlers : handler'[h] = handler[h] \/ handler'[h].op = "idle"
    BY <1>1, <1>2 DEF End, TypeOK
<1>5. RowsSound'
    BY <1>1, <1>4 DEF RowsSound, RowSound, StoryHolds
<1> QED
    BY <1>3, <1>5 DEF Inv

LEMMA AdvanceInv ==
    ASSUME Inv, NEW r \in Handlers, AdvanceRequisition(r)
    PROVE  Inv'
<1>1. PICK q \in Requisitions, row \in RequisitionRow, stored \in RequisitionRow :
          /\ q = handler[r].of /\ row = handler[r].row /\ stored = requisition[q]
          /\ RowSound(q, row) /\ row.status = "PendingApproval"
    BY HeldSound DEF AdvanceRequisition, Inv, RowsSound
<1>2. PICK by \in Names :
          /\ ~SelfSuccession(row.approvals, row.stage, by)
          /\ Store(q, UpdateRequisition(stored, Advanced(row, by)))
          /\ IF Advanced(row, by).status = "Approved" THEN Tell(<<"approved", q>>)
                                                      ELSE UNCHANGED told
    BY <1>1 DEF AdvanceRequisition
<1>3. PICK mine \in RequisitionRow : mine = Advanced(row, by) /\ RowSound(q, mine)
    BY <1>1, <1>2, AdvancedSound
<1>4. PICK next \in RequisitionRow : next = UpdateRequisition(stored, mine) /\ RowSound(q, next)
    BY <1>3, UpdateType, SoundCopy
<1>5. told' \subseteq ({"approved", "converted"} \X Requisitions)
    BY <1>2 DEF Inv, TypeOK, Tell
<1>6. renamed' \subseteq Requisitions
    BY DEF AdvanceRequisition, Inv, TypeOK
<1>7. Store(q, next) /\ End(r) /\ UNCHANGED <<contract, made, disturbed, revalued>>
    BY <1>2, <1>3, <1>4 DEF AdvanceRequisition
<1> QED
    BY <1>4, <1>5, <1>6, <1>7, StoreInv

LEMMA RejectInv ==
    ASSUME Inv, NEW r \in Handlers, RejectRequisition(r)
    PROVE  Inv'
<1>1. PICK q \in Requisitions, row \in RequisitionRow, stored \in RequisitionRow :
          /\ q = handler[r].of /\ row = handler[r].row /\ stored = requisition[q]
          /\ RowSound(q, row)
    BY HeldSound DEF RejectRequisition
<1>2. PICK by \in Names : Store(q, UpdateRequisition(stored, Rejected(row, by)))
    BY <1>1 DEF RejectRequisition
<1>3. PICK mine \in RequisitionRow : mine = Rejected(row, by) /\ RowSound(q, mine)
    BY <1>1, RejectedSound
<1>4. PICK next \in RequisitionRow : next = UpdateRequisition(stored, mine) /\ RowSound(q, next)
    BY <1>3, UpdateType, SoundCopy
<1>5. Store(q, next) /\ End(r) /\ UNCHANGED <<contract, told, made, renamed, disturbed, revalued>>
    BY <1>2, <1>3, <1>4 DEF RejectRequisition
<1>6. renamed' \subseteq Requisitions /\ told' \subseteq ({"approved", "converted"} \X Requisitions)
    BY <1>5 DEF Inv, TypeOK
<1> QED
    BY <1>4, <1>5, <1>6, StoreInv

\* A correction writes the chain columns of the row as stored.
LEMMA PatchInv ==
    ASSUME Inv, NEW r \in Handlers, PatchRequisition(r)
    PROVE  Inv'
<1>1. PICK q \in Requisitions, row \in RequisitionRow, stored \in RequisitionRow :
          /\ q = handler[r].of /\ row = handler[r].row /\ stored = requisition[q]
          /\ RowSound(q, stored)
    BY HeldSound DEF PatchRequisition
<1>2. row.no \in Numbers /\ row.estimate \in Nat
    BY DEF RequisitionRow
<1>3. PICK no \in Numbers, estimate \in Nat :
          /\ Store(q, UpdateDetails(stored, [row EXCEPT !.no = no, !.estimate = estimate]))
          /\ renamed' = IF no # stored.no THEN renamed \cup {q} ELSE renamed
    BY <1>1, <1>2, RequisitionAssumption DEF PatchRequisition
<1>4. PICK mine \in RequisitionRow : mine = [row EXCEPT !.no = no, !.estimate = estimate]
    BY DEF RequisitionRow
<1>5. PICK next \in RequisitionRow : next = UpdateDetails(stored, mine) /\ RowSound(q, next)
    BY <1>1, DetailsType, SoundCopy
<1>6. Store(q, next) /\ End(r) /\ UNCHANGED <<contract, told, made, disturbed, revalued>>
    BY <1>3, <1>4, <1>5 DEF PatchRequisition
<1>7. renamed' \subseteq Requisitions /\ told' \subseteq ({"approved", "converted"} \X Requisitions)
    BY <1>3, <1>6 DEF Inv, TypeOK
<1> QED
    BY <1>5, <1>6, <1>7, StoreInv

LEMMA LinkInv ==
    ASSUME Inv, NEW r \in Handlers, LinkContract(r)
    PROVE  Inv'
<1>1. PICK q \in Requisitions, row \in RequisitionRow, stored \in RequisitionRow :
          /\ q = handler[r].of /\ row = handler[r].row /\ stored = requisition[q]
          /\ RowSound(q, row)
    BY HeldSound DEF LinkContract
<1>2. Store(q, UpdateRequisition(stored, row)) /\ Tell(<<"converted", q>>)
    BY <1>1 DEF LinkContract
<1>3. PICK next \in RequisitionRow : next = UpdateRequisition(stored, row) /\ RowSound(q, next)
    BY <1>1, UpdateType, SoundCopy
<1>4. Store(q, next) /\ End(r) /\ UNCHANGED <<contract, made, renamed, disturbed, revalued>>
    BY <1>2, <1>3 DEF LinkContract
<1>5. renamed' \subseteq Requisitions /\ told' \subseteq ({"approved", "converted"} \X Requisitions)
    BY <1>2, <1>4 DEF Inv, TypeOK, Tell
<1> QED
    BY <1>3, <1>4, <1>5, StoreInv

\* What a conversion makes and goes on with.
LEMMA ConvertStep ==
    ASSUME Inv, NEW r \in Handlers, ConvertRequisition(r)
    PROVE  \E q \in Requisitions, row \in RequisitionRow, c \in Contracts :
              /\ q = handler[r].of /\ row = handler[r].row
              /\ RowSound(q, row) /\ row.status = "Approved"
              /\ \A p \in Requisitions : c \notin made[p]
              /\ NumberFree(row.no)
              /\ contract' = [contract EXCEPT ![c] = [number |-> row.no, value |-> row.estimate]]
              /\ made' = [made EXCEPT ![q] = @ \cup {c}]
              /\ handler' = [handler EXCEPT ![r] = Serving("link", q, Converted(row, c))]
<1>1. PICK q \in Requisitions, row \in RequisitionRow :
          /\ q = handler[r].of /\ row = handler[r].row
          /\ RowSound(q, row) /\ row.status = "Approved"
    BY HeldSound DEF ConvertRequisition, Inv, RowsSound
<1> QED
    BY <1>1 DEF ConvertRequisition

LEMMA ConvertInv ==
    ASSUME Inv, NEW r \in Handlers, ConvertRequisition(r)
    PROVE  Inv'
<1>1. TypeOK /\ RowsSound
    BY DEF Inv
<1>2. PICK q \in Requisitions, row \in RequisitionRow, c \in Contracts :
          /\ q = handler[r].of /\ row = handler[r].row
          /\ RowSound(q, row) /\ row.status = "Approved"
          /\ contract' = [contract EXCEPT ![c] = [number |-> row.no, value |-> row.estimate]]
          /\ made' = [made EXCEPT ![q] = @ \cup {c}]
          /\ handler' = [handler EXCEPT ![r] = Serving("link", q, Converted(row, c))]
    BY ConvertStep
<1>3. UNCHANGED <<requisition, told, renamed, disturbed, revalued>> /\ requisition[q] # NoRow
    BY <1>1, <1>2 DEF ConvertRequisition, TypeOK
<1>4. PICK linked \in RequisitionRow : linked = Converted(row, c)
    BY <1>2, ConvertedType
<1> DEFINE request == Serving("link", q, linked)
<1>5. request \in Request /\ request.op = "link" /\ request.of = q /\ request.row = linked
    BY ServingType DEF Ops
<1>6. handler' = [handler EXCEPT ![r] = request]
    BY <1>2, <1>4
<1> HIDE DEF request
<1>7. /\ contract' \in [Contracts -> ContractRow \cup {NoRow}]
      /\ made' \in [Requisitions -> SUBSET Contracts]
      /\ c \in made'[q]
      /\ \A p \in Requisitions : made[p] \subseteq made'[p]
    <2>1. [number |-> row.no, value |-> row.estimate] \in ContractRow
        BY DEF RequisitionRow, ContractRow
    <2> QED
        BY <1>1, <1>2, <2>1 DEF TypeOK
<1>8. RowSound(q, linked)'
    <2>1. /\ linked.status = "Converted" /\ linked.link = c
          /\ linked.stage = row.stage /\ linked.approvals = row.approvals
        BY <1>4, ConvertedType
    <2>2. /\ row.stage = Complete /\ SignedBelow(row.approvals, row.stage)
          /\ FourEyes(row.approvals, row.stage)
        BY <1>2 DEF RowSound, StoryHolds
    <2>3. c # NoRow
        BY RequisitionAssumption
    <2> QED
        BY <1>7, <2>1, <2>2, <2>3 DEF RowSound, StoryHolds
<1>9. TypeOK'
    <2>1. Fit(request)'
        BY <1>3, <1>5 DEF Fit
    <2>2. /\ handler' \in [Handlers -> Request]
          /\ (\A h \in Handlers :
                  /\ handler[h].op # "idle" => handler[h].row # NoRow
                                               /\ requisition[handler[h].of] # NoRow
                  /\ handler[h].op = "advance" => handler[h].row.stage < Complete)'
        BY <1>1, <1>3, <1>5, <1>6, <2>1, HandlersType
    <2> QED
        BY <1>1, <1>3, <1>7, <2>2 DEF TypeOK
<1>10. ASSUME NEW h \in Handlers
       PROVE  (/\ handler[h].op # "idle" => RowSound(handler[h].of, handler[h].row)
               /\ handler[h].op = "advance" => handler[h].row.status = "PendingApproval"
               /\ handler[h].op = "convert" => /\ handler[h].row.status = "Approved"
                                               /\ handler[h].row.link = NoRow)'
    <2>1. CASE h = r
        <3>1. handler'[h] = request
            BY <1>1, <1>6, <2>1 DEF TypeOK
        <3> QED
            BY <1>5, <1>8, <3>1
    <2>2. CASE h # r
        <3>1. handler'[h] = handler[h] /\ handler[h].of \in Requisitions
            BY <1>1, <1>6, <2>2 DEF TypeOK, Request
        <3>2. handler[h].op # "idle" => RowSound(handler[h].of, handler[h].row)'
            BY <1>1, <1>7, <3>1, SoundStays DEF RowsSound
        <3> QED
            BY <1>1, <3>1, <3>2 DEF RowsSound
    <2> QED
        BY <2>1, <2>2
<1>11. (\A p \in Requisitions : requisition[p] # NoRow => RowSound(p, requisition[p]))'
    BY <1>1, <1>3, <1>7 DEF RowsSound, RowSound, StoryHolds
<1>12. RowsSound'
    BY <1>3, <1>10, <1>11 DEF RowsSound
<1> QED
    BY <1>9, <1>12 DEF Inv

\* What a user may change of a contract.
LEMMA PatchContractStep ==
    ASSUME Inv, NEW c \in Contracts, PatchContract(c)
    PROVE  \E n \in Numbers, value \in Nat :
              /\ n = contract[c].number \/ NumberFree(n)
              /\ contract[c] # NoRow
              /\ contract' \in [Contracts -> ContractRow \cup {NoRow}]
              /\ contract'[c] = [number |-> n, value |-> value]
              /\ \A d \in Contracts : d # c => contract'[d] = contract[d]
              /\ n # contract[c].number => \A q \in Requisitions : c \in made[q] => q \in renamed'
              /\ value # contract[c].value => c \in revalued'
<1>1. contract[c] \in ContractRow
    BY DEF PatchContract, Inv, TypeOK
<1>2. PICK n \in Numbers, value \in {contract[c].value} \cup Estimates :
          /\ n = contract[c].number \/ NumberFree(n)
          /\ contract' = [contract EXCEPT ![c] = [number |-> n, value |-> value]]
          /\ renamed' = IF n = contract[c].number THEN renamed
                        ELSE renamed \cup {q \in Requisitions : c \in made[q]}
          /\ revalued' = IF value = contract[c].value THEN revalued ELSE revalued \cup {c}
    BY DEF PatchContract
<1>3. value \in Nat /\ contract[c] # NoRow
    BY <1>1, RequisitionAssumption DEF ContractRow, PatchContract
<1>4. /\ contract' \in [Contracts -> ContractRow \cup {NoRow}]
      /\ contract'[c] = [number |-> n, value |-> value]
      /\ \A d \in Contracts : d # c => contract'[d] = contract[d]
    <2>1. [number |-> n, value |-> value] \in ContractRow
        BY <1>3 DEF ContractRow
    <2> QED
        BY <1>2, <2>1 DEF Inv, TypeOK
<1>5. n # contract[c].number => \A q \in Requisitions : c \in made[q] => q \in renamed'
    BY <1>2
<1> QED
    BY <1>2, <1>3, <1>4, <1>5

LEMMA NextInv == Inv /\ [Next]_vars => Inv'
<1> SUFFICES ASSUME Inv, [Next]_vars
             PROVE  Inv'
    OBVIOUS
<1>1. ASSUME NEW q \in Requisitions, CreateRequisition(q)
      PROVE  Inv'
    BY <1>1, CreateInv
<1>2. ASSUME NEW r \in Handlers, NEW q \in Requisitions, OpenAdvance(r, q)
      PROVE  Inv'
    BY <1>2, OpenInv DEF OpenAdvance
<1>3. ASSUME NEW r \in Handlers, NEW q \in Requisitions, OpenReject(r, q)
      PROVE  Inv'
    BY <1>3, OpenInv DEF OpenReject
<1>4. ASSUME NEW r \in Handlers, NEW q \in Requisitions, OpenCorrection(r, q)
      PROVE  Inv'
    BY <1>4, OpenInv DEF OpenCorrection
<1>5. ASSUME NEW r \in Handlers, NEW q \in Requisitions, OpenConversion(r, q)
      PROVE  Inv'
    BY <1>5, OpenInv DEF OpenConversion
<1>6. ASSUME NEW r \in Handlers, Refuse(r)
      PROVE  Inv'
    <2>1. disturbed' \subseteq Requisitions
        BY <1>6 DEF Refuse, Inv, TypeOK
    <2> QED
        BY <1>6, <2>1, EndInv DEF Refuse
<1>7. ASSUME NEW r \in Handlers, Fail(r)
      PROVE  Inv'
    <2>1. disturbed' \subseteq Requisitions
        BY <1>7 DEF Fail, Inv, TypeOK, Request
    <2> QED
        BY <1>7, <2>1, EndInv DEF Fail
<1>8. ASSUME NEW c \in Contracts, PatchContract(c) \/ DeleteContract(c)
      PROVE  Inv'
    <2>1. contract' \in [Contracts -> ContractRow \cup {NoRow}]
        <3>1. CASE PatchContract(c)
            BY <3>1, PatchContractStep
        <3>2. CASE DeleteContract(c)
            BY <1>8, <3>2 DEF DeleteContract, Inv, TypeOK
        <3> QED
            BY <1>8, <3>1, <3>2
    <2>2. UNCHANGED <<requisition, told, handler, made, disturbed>>
          /\ renamed' \subseteq Requisitions /\ revalued' \subseteq Contracts
        BY <1>8 DEF PatchContract, DeleteContract, Inv, TypeOK
    <2> QED
        BY <2>1, <2>2 DEF Inv, TypeOK, RowsSound, RowSound, StoryHolds
<1>9. CASE UNCHANGED vars
    BY <1>9 DEF vars, Inv, TypeOK, RowsSound, RowSound, StoryHolds
<1> QED
    BY <1>1, <1>2, <1>3, <1>4, <1>5, <1>6, <1>7, <1>8, <1>9, AdvanceInv, RejectInv,
       PatchInv, ConvertInv, LinkInv DEF Next

LEMMA Invariant == Spec => []Inv
BY InitInv, NextInv, PTL DEF Spec

\* Every reachable state is well typed; the part with content is that a request about
\* to clear a desk holds a row that has one left.
THEOREM TypeCorrect == Spec => []TypeOK
<1>1. Inv => TypeOK
    BY DEF Inv
<1> QED
    BY <1>1, Invariant, PTL

\* No two successive desks of a requisition that is not rejected were cleared by one
\* person, whatever requests overlapped, died or were repeated.
THEOREM FourEyesHolds == Spec => []RequisitionFourEyes
<1>1. Inv => RequisitionFourEyes
    BY DEF Inv, RowsSound, RowSound, RequisitionFourEyes
<1> QED
    BY <1>1, Invariant, PTL

\* Status, stage, approvals and link of every stored requisition tell one story.
THEOREM StoryCorrect == Spec => []RequisitionStory
<1>1. Inv => RequisitionStory
    BY DEF Inv, RowsSound, RowSound, RequisitionStory
<1> QED
    BY <1>1, Invariant, PTL

-----------------------------------------------------------------------------
\* Why one requisition is one contract at a time: contracts have numbers of their own,
\* and all that was made of a requisition nobody renumbered has its number, also the
\* contract a request is still to make.
NumbersUnique ==
    \A c, d \in Contracts :
        contract[c] # NoRow /\ contract[d] # NoRow /\ contract[c].number = contract[d].number
            => c = d

NumberKept(q) ==
    /\ \A c \in made[q] :
          contract[c] # NoRow => /\ requisition[q] # NoRow
                                 /\ contract[c].number = requisition[q].no
    /\ \A r \in Handlers :
          handler[r].op # "idle" /\ handler[r].of = q => handler[r].row.no = requisition[q].no

NumbersKept ==
    /\ NumbersUnique
    /\ \A q \in Requisitions \ renamed : NumberKept(q)

\* A step that makes no contract, renumbers none, marks every requisition it
\* renumbers, and after which each request holds what it held, or a row it has just
\* read, or nothing.
LEMMA KeptStep ==
    ASSUME Inv, NumbersKept,
           UNCHANGED made,
           \A c \in Contracts : contract'[c] = NoRow \/ contract'[c] = contract[c],
           renamed \subseteq renamed',
           \A q \in Requisitions \ renamed' : requisition[q] # NoRow =>
               requisition'[q] # NoRow /\ requisition'[q].no = requisition[q].no,
           \A h \in Handlers :
               \/ handler'[h].op = "idle"
               \/ handler'[h] = handler[h]
               \/ /\ requisition[handler'[h].of] # NoRow
                  /\ handler'[h].row = requisition[handler'[h].of]
    PROVE  NumbersKept'
<1>1. NumbersUnique'
    BY DEF NumbersKept, NumbersUnique
<1>2. ASSUME NEW q \in Requisitions \ renamed'
      PROVE  NumberKept(q)'
    <2>1. NumberKept(q) /\ made[q] \subseteq Contracts
        BY <1>2 DEF NumbersKept, Inv, TypeOK
    <2>2. ASSUME NEW c \in made'[q], contract'[c] # NoRow
          PROVE  requisition'[q] # NoRow /\ contract'[c].number = requisition'[q].no
        <3>1. contract'[c] = contract[c] /\ c \in made[q]
            BY <2>1, <2>2
        <3> QED
            BY <1>2, <2>1, <2>2, <3>1 DEF NumberKept
    <2>3. ASSUME NEW h \in Handlers, handler'[h].op # "idle", handler'[h].of = q
          PROVE  handler'[h].row.no = requisition'[q].no
        <3>1. CASE handler'[h] = handler[h]
            <4>1. requisition[q] # NoRow /\ handler[h].row.no = requisition[q].no
                BY <2>1, <2>3, <3>1 DEF NumberKept, Inv, TypeOK
            <4> QED
                BY <1>2, <3>1, <4>1
        <3>2. CASE requisition[q] # NoRow /\ handler'[h].row = requisition[q]
            BY <1>2, <3>2
        <3> QED
            BY <2>3, <3>1, <3>2
    <2> QED
        BY <2>2, <2>3 DEF NumberKept
<1> QED
    BY <1>1, <1>2 DEF NumbersKept

\* What the steps that end a request leave of the others.
LEMMA EndHandlers ==
    ASSUME Inv, NEW r \in Handlers, End(r)
    PROVE  \A h \in Handlers : handler'[h].op = "idle" \/ handler'[h] = handler[h]
BY IdleType DEF End, Inv, TypeOK

LEMMA StoreKept ==
    ASSUME Inv, NumbersKept, NEW r \in Handlers, NEW q \in Requisitions,
           NEW row \in RequisitionRow, requisition[q] # NoRow, Store(q, row), End(r),
           UNCHANGED <<contract, made, revalued>>, renamed \subseteq renamed',
           q \notin renamed' => row.no = requisition[q].no
    PROVE  NumbersKept'
<1>1. \A p \in Requisitions \ renamed' : requisition[p] # NoRow =>
          requisition'[p] # NoRow /\ requisition'[p].no = requisition[p].no
    BY NoRowAssumption DEF Store, Inv, TypeOK
<1> QED
    BY <1>1, KeptStep, EndHandlers

LEMMA OpenKept ==
    ASSUME Inv, NumbersKept, NEW r \in Handlers, NEW q \in Requisitions,
           NEW op \in Ops, Open(r, q, op)
    PROVE  NumbersKept'
<1>1. UNCHANGED <<requisition, contract, made, renamed, revalued>>
    BY DEF Open
<1>2. \A h \in Handlers :
          \/ handler'[h] = handler[h]
          \/ /\ requisition[handler'[h].of] # NoRow
             /\ handler'[h].row = requisition[handler'[h].of]
    BY DEF Open, Serving, Inv, TypeOK
<1> QED
    BY <1>1, <1>2, KeptStep

\* A new requisition had no contract and no request.
LEMMA CreateKept ==
    ASSUME Inv, NumbersKept, NEW q \in Requisitions, CreateRequisition(q)
    PROVE  NumbersKept'
<1>1. /\ UNCHANGED <<contract, handler, made, renamed, revalued>>
      /\ requisition[q] = NoRow
      /\ \A p \in Requisitions : p # q => requisition'[p] = requisition[p]
    BY DEF CreateRequisition, Inv, TypeOK
<1> QED
    BY <1>1, KeptStep

LEMMA AdvanceKept ==
    ASSUME Inv, NumbersKept, NEW r \in Handlers, AdvanceRequisition(r)
    PROVE  NumbersKept'
<1>1. PICK q \in Requisitions, row \in RequisitionRow, stored \in RequisitionRow :
          /\ q = handler[r].of /\ row = handler[r].row /\ stored = requisition[q]
          /\ RowSound(q, row) /\ row.status = "PendingApproval"
    BY HeldSound DEF AdvanceRequisition, Inv, RowsSound
<1>2. PICK by \in Names :
          /\ ~SelfSuccession(row.approvals, row.stage, by)
          /\ Store(q, UpdateRequisition(stored, Advanced(row, by)))
    BY <1>1 DEF AdvanceRequisition
<1>3. PICK next \in RequisitionRow :
          next = UpdateRequisition(stored, Advanced(row, by)) /\ next.no = stored.no
    BY <1>1, <1>2, AdvancedSound, UpdateType
<1>4. Store(q, next) /\ End(r) /\ UNCHANGED <<contract, made, renamed, revalued>>
    BY <1>2, <1>3 DEF AdvanceRequisition
<1> QED
    BY <1>1, <1>3, <1>4, StoreKept, NoRowAssumption

LEMMA RejectKept ==
    ASSUME Inv, NumbersKept, NEW r \in Handlers, RejectRequisition(r)
    PROVE  NumbersKept'
<1>1. PICK q \in Requisitions, row \in RequisitionRow, stored \in RequisitionRow :
          q = handler[r].of /\ row = handler[r].row /\ stored = requisition[q]
    BY HeldSound DEF RejectRequisition
<1>2. PICK by \in Names : Store(q, UpdateRequisition(stored, Rejected(row, by)))
    BY <1>1 DEF RejectRequisition
<1>3. PICK mine \in RequisitionRow : mine = Rejected(row, by)
    BY RejectedType
<1>4. PICK next \in RequisitionRow :
          next = UpdateRequisition(stored, mine) /\ next.no = stored.no
    BY UpdateType
<1>5. Store(q, next) /\ End(r) /\ UNCHANGED <<contract, made, renamed, revalued>>
    BY <1>2, <1>3, <1>4 DEF RejectRequisition
<1> QED
    BY <1>1, <1>4, <1>5, StoreKept, NoRowAssumption

\* A correction marks the requisition whose number it changes.
LEMMA PatchKept ==
    ASSUME Inv, NumbersKept, NEW r \in Handlers, PatchRequisition(r)
    PROVE  NumbersKept'
<1>1. PICK q \in Requisitions, row \in RequisitionRow, stored \in RequisitionRow :
          q = handler[r].of /\ row = handler[r].row /\ stored = requisition[q]
    BY HeldSound DEF PatchRequisition
<1>2. row.no \in Numbers /\ row.estimate \in Nat
    BY DEF RequisitionRow
<1>3. PICK no \in Numbers, estimate \in Nat :
          /\ Store(q, UpdateDetails(stored, [row EXCEPT !.no = no, !.estimate = estimate]))
          /\ renamed' = IF no # stored.no THEN renamed \cup {q} ELSE renamed
    BY <1>1, <1>2, RequisitionAssumption DEF PatchRequisition
<1>4. PICK mine \in RequisitionRow : mine = [row EXCEPT !.no = no, !.estimate = estimate]
    BY DEF RequisitionRow
<1> DEFINE next == UpdateDetails(stored, mine)
<1>5. next \in RequisitionRow /\ next.no = no
    <2>1. mine.no = no
        BY <1>4 DEF RequisitionRow
    <2> QED
        BY <2>1, DetailsType
<1>6. Store(q, next) /\ End(r) /\ UNCHANGED <<contract, made, revalued>>
    BY <1>3, <1>4 DEF PatchRequisition
<1> HIDE DEF next
<1>7. renamed \subseteq renamed' /\ (q \notin renamed' => next.no = requisition[q].no)
    BY <1>1, <1>3, <1>5
<1> QED
    BY <1>1, <1>5, <1>6, <1>7, StoreKept, NoRowAssumption

LEMMA LinkKept ==
    ASSUME Inv, NumbersKept, NEW r \in Handlers, LinkContract(r)
    PROVE  NumbersKept'
<1>1. PICK q \in Requisitions, row \in RequisitionRow, stored \in RequisitionRow :
          q = handler[r].of /\ row = handler[r].row /\ stored = requisition[q]
    BY HeldSound DEF LinkContract
<1>2. PICK next \in RequisitionRow :
          next = UpdateRequisition(stored, row) /\ next.no = stored.no
    BY UpdateType
<1>3. Store(q, next) /\ End(r) /\ UNCHANGED <<contract, made, renamed, revalued>>
    BY <1>1, <1>2 DEF LinkContract
<1> QED
    BY <1>1, <1>2, <1>3, StoreKept, NoRowAssumption

\* The contract a conversion makes takes the number it holds, which must be free.
LEMMA ConvertKept ==
    ASSUME Inv, NumbersKept, NEW r \in Handlers, ConvertRequisition(r)
    PROVE  NumbersKept'
<1>1. PICK q \in Requisitions, row \in RequisitionRow, c \in Contracts :
          /\ q = handler[r].of /\ row = handler[r].row
          /\ \A p \in Requisitions : c \notin made[p]
          /\ NumberFree(row.no)
          /\ contract' = [contract EXCEPT ![c] = [number |-> row.no, value |-> row.estimate]]
          /\ made' = [made EXCEPT ![q] = @ \cup {c}]
          /\ handler' = [handler EXCEPT ![r] = Serving("link", q, Converted(row, c))]
    BY ConvertStep
<1>2. UNCHANGED <<requisition, renamed, revalued>> /\ handler[r].op # "idle" /\ requisition[q] # NoRow
    BY <1>1 DEF ConvertRequisition, Inv, TypeOK
<1>3. /\ contract'[c].number = row.no
      /\ \A d \in Contracts : d # c => contract'[d] = contract[d]
      /\ made'[q] = made[q] \cup {c}
      /\ \A p \in Requisitions : p # q => made'[p] = made[p]
    BY <1>1 DEF Inv, TypeOK
<1>4. PICK linked \in RequisitionRow : linked = Converted(row, c) /\ linked.no = row.no
    BY ConvertedType
<1>5. PICK request \in Request :
          /\ request = Serving("link", q, linked)
          /\ request.of = q /\ request.row.no = row.no
    BY <1>4, ServingType DEF Ops
<1>6. /\ handler'[r] = request
      /\ \A h \in Handlers : h # r => handler'[h] = handler[h]
    BY <1>1, <1>4, <1>5 DEF Inv, TypeOK
<1>7. NumbersUnique'
    BY <1>1, <1>3 DEF NumbersKept, NumbersUnique, NumberFree
<1>8. ASSUME NEW p \in Requisitions \ renamed'
      PROVE  NumberKept(p)'
    <2>1. NumberKept(p) /\ made[p] \subseteq Contracts
        BY <1>2, <1>8 DEF NumbersKept, Inv, TypeOK
    <2>2. p = q => row.no = requisition[q].no
        BY <1>1, <1>2, <2>1 DEF NumberKept
    <2>3. ASSUME NEW d \in made'[p], contract'[d] # NoRow
          PROVE  requisition'[p] # NoRow /\ contract'[d].number = requisition'[p].no
        <3>1. CASE d = c
            <4>1. p = q
                BY <1>1, <1>3, <2>3, <3>1
            <4> QED
                BY <1>2, <1>3, <2>2, <3>1, <4>1
        <3>2. CASE d # c
            <4>1. d \in made[p] /\ contract'[d] = contract[d]
                BY <1>3, <2>1, <2>3, <3>2
            <4> QED
                BY <1>2, <2>1, <2>3, <4>1 DEF NumberKept
        <3> QED
            BY <3>1, <3>2
    <2>4. ASSUME NEW h \in Handlers, handler'[h].op # "idle", handler'[h].of = p
          PROVE  handler'[h].row.no = requisition'[p].no
        <3>1. CASE h = r
            BY <1>2, <1>5, <1>6, <2>2, <2>4, <3>1
        <3>2. CASE h # r
            BY <1>2, <1>6, <2>1, <2>4, <3>2 DEF NumberKept
        <3> QED
            BY <3>1, <3>2
    <2> QED
        BY <2>3, <2>4 DEF NumberKept
<1> QED
    BY <1>7, <1>8 DEF NumbersKept

\* A contract that changes number marks the requisition it was made from.
LEMMA PatchContractKept ==
    ASSUME Inv, NumbersKept, NEW c \in Contracts, PatchContract(c)
    PROVE  NumbersKept'
<1>1. PICK n \in Numbers, value \in Nat :
          /\ n = contract[c].number \/ NumberFree(n)
          /\ contract[c] # NoRow
          /\ contract'[c] = [number |-> n, value |-> value]
          /\ \A d \in Contracts : d # c => contract'[d] = contract[d]
          /\ n # contract[c].number => \A q \in Requisitions : c \in made[q] => q \in renamed'
    BY PatchContractStep
<1>2. UNCHANGED <<requisition, handler, made>> /\ renamed \subseteq renamed'
    BY DEF PatchContract
<1>3. contract'[c].number = n
    BY <1>1
<1>4. NumbersUnique'
    BY <1>1, <1>3 DEF NumbersKept, NumbersUnique, NumberFree
<1>5. ASSUME NEW p \in Requisitions \ renamed'
      PROVE  NumberKept(p)'
    <2>1. NumberKept(p) /\ made[p] \subseteq Contracts
        BY <1>2, <1>5 DEF NumbersKept, Inv, TypeOK
    <2>2. \A d \in made[p] : contract'[d] # NoRow =>
              contract[d] # NoRow /\ contract'[d].number = contract[d].number
        BY <1>1, <1>3, <1>5, <2>1
    <2> QED
        BY <1>2, <2>1, <2>2 DEF NumberKept
<1> QED
    BY <1>4, <1>5 DEF NumbersKept

LEMMA InitKept == Init => NumbersKept
BY IdleType DEF Init, NumbersKept, NumbersUnique, NumberKept

LEMMA NextKept == Inv /\ NumbersKept /\ [Next]_vars => NumbersKept'
<1> SUFFICES ASSUME Inv, NumbersKept, [Next]_vars
             PROVE  NumbersKept'
    OBVIOUS
<1>1. ASSUME NEW r \in Handlers, NEW q \in Requisitions,
             \/ OpenAdvance(r, q) \/ OpenReject(r, q)
             \/ OpenCorrection(r, q) \/ OpenConversion(r, q)
      PROVE  NumbersKept'
    BY <1>1, OpenKept DEF OpenAdvance, OpenReject, OpenCorrection, OpenConversion, Ops
<1>2. ASSUME NEW r \in Handlers, Refuse(r) \/ Fail(r)
      PROVE  NumbersKept'
    <2>1. End(r) /\ UNCHANGED <<requisition, contract, made, renamed, revalued>>
        BY <1>2 DEF Refuse, Fail
    <2> QED
        BY <1>2, <2>1, EndHandlers, KeptStep
<1>3. ASSUME NEW c \in Contracts, DeleteContract(c)
      PROVE  NumbersKept'
    <2>1. /\ UNCHANGED <<requisition, handler, made, renamed, revalued>>
          /\ \A d \in Contracts : contract'[d] = NoRow \/ contract'[d] = contract[d]
        BY <1>3 DEF DeleteContract, Inv, TypeOK
    <2> QED
        BY <2>1, KeptStep
<1>4. CASE UNCHANGED vars
    BY <1>4, KeptStep DEF vars
<1> QED
    BY <1>1, <1>2, <1>3, <1>4, CreateKept, AdvanceKept, RejectKept, PatchKept,
       ConvertKept, LinkKept, PatchContractKept DEF Next

\* A requisition is at most one contract at a time, whatever overlapped, died halfway or
\* was repeated, as long as nobody renumbered it or its contract.
THEOREM OneContract == Spec => []OneContractAtATime
<1>1. ASSUME Inv, NumbersKept
      PROVE  OneContractAtATime
    <2> SUFFICES ASSUME NEW q \in Requisitions \ renamed
                 PROVE  Cardinality({c \in made[q] : contract[c] # NoRow}) <= 1
        BY DEF OneContractAtATime
    <2>1. Cardinality({c \in made[q] : contract[c] # NoRow}) <= 1
        <3> DEFINE now == {c \in made[q] : contract[c] # NoRow}
        <3>1. \A c, d \in now : c = d
            BY <1>1 DEF NumbersKept, NumbersUnique, NumberKept, Inv, TypeOK
        <3>2. CASE now = {}
            BY <3>2, FS_EmptySet
        <3>3. CASE now # {}
            <4>1. PICK c : now = {c}
                BY <3>1, <3>3
            <4>2. Cardinality({c}) = 1
                BY FS_Singleton
            <4> QED
                BY <4>1, <4>2
        <3> QED
            BY <3>2, <3>3
    <2> QED
        BY <2>1
<1>2. Spec => []NumbersKept
    BY InitKept, NextKept, Invariant, PTL DEF Spec
<1> QED
    BY <1>1, <1>2, Invariant, PTL

-----------------------------------------------------------------------------
\* Why a conversion is whole where requests neither overlapped nor died: the one
\* request on a requisition holds its row as it is, until it has made the contract the
\* row is then linked to.
At(r, q) == handler[r].op # "idle" /\ handler[r].of = q

Linking(q) == \E r \in Handlers : At(r, q) /\ handler[r].op = "link"

Whole(q) ==
    /\ \A r, p \in Handlers : At(r, q) /\ At(p, q) => r = p
    /\ \A r \in Handlers : At(r, q) =>
          IF handler[r].op = "link"
          THEN handler[r].row.link \in Contracts /\ made[q] = {handler[r].row.link}
          ELSE handler[r].row = requisition[q]
    /\ ~Linking(q) =>
          made[q] = IF requisition[q] = NoRow THEN {} ELSE {requisition[q].link} \ {NoRow}
    /\ \A c \in made[q] : /\ requisition[q] # NoRow
                          /\ contract[c] # NoRow /\ c \notin revalued =>
                                contract[c].value = requisition[q].estimate
    /\ <<"converted", q>> \in told => made[q] # {}

WholeKept == \A q \in Requisitions \ disturbed : Whole(q)

\* A step that leaves a requisition, its contracts' values and what it is to link as
\* they are, and after which each request on it holds what it held or is over.
LEMMA WholeUntouched ==
    ASSUME Inv, NEW q \in Requisitions, Whole(q),
           requisition'[q] = requisition[q],
           made'[q] = made[q],
           revalued \subseteq revalued',
           \A c \in made[q] : contract'[c] # NoRow /\ c \notin revalued' =>
               contract[c] # NoRow /\ contract'[c].value = contract[c].value,
           <<"converted", q>> \in told' => <<"converted", q>> \in told,
           \A h \in Handlers :
               \/ handler'[h] = handler[h]
               \/ /\ handler'[h].op = "idle" \/ handler'[h].of # q
                  /\ ~(At(h, q) /\ handler[h].op = "link")
    PROVE  Whole(q)'
<1>1. \A h \in Handlers : At(h, q)' => At(h, q) /\ handler'[h] = handler[h]
    BY DEF At
<1>2. \A h \in Handlers : At(h, q) /\ handler[h].op = "link" =>
          At(h, q)' /\ handler'[h].op = "link"
    BY DEF At
<1>3. Linking(q) => Linking(q)'
    BY <1>2 DEF Linking
<1>4. \A r, p \in Handlers : At(r, q)' /\ At(p, q)' => r = p
    BY <1>1 DEF Whole
<1>5. ASSUME NEW h \in Handlers, At(h, q)'
      PROVE  IF handler'[h].op = "link"
             THEN handler'[h].row.link \in Contracts /\ made'[q] = {handler'[h].row.link}
             ELSE handler'[h].row = requisition'[q]
    <2>1. At(h, q) /\ handler'[h] = handler[h]
        BY <1>1, <1>5
    <2> QED
        BY <2>1 DEF Whole
<1>6. ~Linking(q)' =>
          made'[q] = IF requisition'[q] = NoRow THEN {} ELSE {requisition'[q].link} \ {NoRow}
    BY <1>3 DEF Whole
<1>7. \A c \in made'[q] :
          /\ requisition'[q] # NoRow
          /\ contract'[c] # NoRow /\ c \notin revalued' =>
                contract'[c].value = requisition'[q].estimate
    BY DEF Whole
<1>8. <<"converted", q>> \in told' => made'[q] # {}
    BY DEF Whole
<1> QED
    BY <1>4, <1>5, <1>6, <1>7, <1>8 DEF Whole

\* A request alone on a requisition, if the requisition is whole.
LEMMA Alone ==
    ASSUME NEW q \in Requisitions, Whole(q), NEW r \in Handlers, At(r, q),
           handler[r].op # "link"
    PROVE  /\ \A h \in Handlers : At(h, q) => h = r
           /\ handler[r].row = requisition[q]
           /\ ~Linking(q)
BY DEF Whole, Linking

\* The one request on a requisition, not about to link, stores the link it found and,
\* once a contract was made, the estimate it found.
LEMMA StoreWhole ==
    ASSUME Inv, WholeKept, NEW r \in Handlers, NEW q \in Requisitions,
           NEW row \in RequisitionRow, At(r, q), handler[r].op # "link",
           requisition[q] # NoRow,
           Whole(q) => row.link = requisition[q].link,
           Whole(q) /\ made[q] # {} => row.estimate = requisition[q].estimate,
           Store(q, row), End(r),
           \A p \in Requisitions : <<"converted", p>> \in told' => <<"converted", p>> \in told,
           UNCHANGED <<contract, made, disturbed, revalued>>
    PROVE  WholeKept'
<1>1. ASSUME NEW p \in Requisitions \ disturbed'
      PROVE  Whole(p)'
    <2>1. Whole(p)
        BY <1>1 DEF WholeKept
    <2>2. /\ \A h \in Handlers : h # r => handler'[h] = handler[h]
          /\ handler'[r].op = "idle"
        BY IdleType DEF End, Inv, TypeOK
    <2>3. CASE p # q
        <3>1. requisition'[p] = requisition[p]
            BY <2>3 DEF Store, Inv, TypeOK
        <3>2. \A h \in Handlers :
                  \/ handler'[h] = handler[h]
                  \/ /\ handler'[h].op = "idle" \/ handler'[h].of # p
                     /\ ~(At(h, p) /\ handler[h].op = "link")
            BY <2>2, <2>3 DEF At
        <3> QED
            BY <2>1, <3>1, <3>2, WholeUntouched
    <2>4. CASE p = q
        <3>1. requisition'[q] = row /\ row # NoRow
            BY NoRowAssumption DEF Store, Inv, TypeOK
        <3>2. (\A h \in Handlers : At(h, q) => h = r) /\ ~Linking(q)
            BY <2>1, <2>4, Alone
        <3>3. \A h \in Handlers : ~At(h, q)'
            BY <2>2, <3>2 DEF At
        <3>4. made[q] = {requisition[q].link} \ {NoRow}
            BY <2>1, <2>4, <3>2 DEF Whole
        <3>5. made'[q] = {requisition'[q].link} \ {NoRow}
            BY <2>1, <2>4, <3>1, <3>4
        <3>6. \A c \in made'[q] :
                  contract'[c] # NoRow /\ c \notin revalued' =>
                      contract'[c].value = requisition'[q].estimate
            BY <2>1, <2>4, <3>1 DEF Whole
        <3>7. <<"converted", q>> \in told' => made'[q] # {}
            BY <2>1, <2>4 DEF Whole
        <3> QED
            BY <2>4, <3>1, <3>3, <3>5, <3>6, <3>7 DEF Whole
    <2> QED
        BY <2>3, <2>4
<1> QED
    BY <1>1 DEF WholeKept

LEMMA AdvanceWhole ==
    ASSUME Inv, WholeKept, NEW r \in Handlers, AdvanceRequisition(r)
    PROVE  WholeKept'
<1>1. PICK q \in Requisitions, row \in RequisitionRow, stored \in RequisitionRow :
          /\ q = handler[r].of /\ row = handler[r].row /\ stored = requisition[q]
          /\ RowSound(q, row) /\ row.status = "PendingApproval"
    BY HeldSound DEF AdvanceRequisition, Inv, RowsSound
<1>2. PICK by \in Names :
          /\ ~SelfSuccession(row.approvals, row.stage, by)
          /\ Store(q, UpdateRequisition(stored, Advanced(row, by)))
    BY <1>1 DEF AdvanceRequisition
<1>3. \A p \in Requisitions : <<"converted", p>> \in told' => <<"converted", p>> \in told
    BY DEF AdvanceRequisition, Tell
<1>4. row.stage < Complete
    BY <1>1 DEF RowSound, StoryHolds, Complete
<1>5. Advanced(row, by) \in RequisitionRow /\ Advanced(row, by).link = row.link
    BY <1>4, AdvancedType
<1>6. PICK mine \in RequisitionRow :
          mine = Advanced(row, by) /\ mine.link = row.link
    BY <1>5
<1>7. PICK next \in RequisitionRow :
          /\ next = UpdateRequisition(stored, mine)
          /\ next.link = mine.link /\ next.estimate = stored.estimate
    BY UpdateType
<1>8. Store(q, next) /\ End(r) /\ UNCHANGED <<contract, made, disturbed, revalued>>
    BY <1>2, <1>6, <1>7 DEF AdvanceRequisition
<1>9. At(r, q) /\ handler[r].op # "link" /\ requisition[q] # NoRow
    BY <1>1, NoRowAssumption DEF AdvanceRequisition, At
<1>10. Whole(q) => next.link = requisition[q].link
    BY <1>1, <1>6, <1>7, <1>9, Alone
<1> QED
    BY <1>1, <1>3, <1>7, <1>8, <1>9, <1>10, StoreWhole

LEMMA RejectWhole ==
    ASSUME Inv, WholeKept, NEW r \in Handlers, RejectRequisition(r)
    PROVE  WholeKept'
<1>1. PICK q \in Requisitions, row \in RequisitionRow, stored \in RequisitionRow :
          q = handler[r].of /\ row = handler[r].row /\ stored = requisition[q]
    BY HeldSound DEF RejectRequisition
<1>2. PICK by \in Names : Store(q, UpdateRequisition(stored, Rejected(row, by)))
    BY <1>1 DEF RejectRequisition
<1>3. PICK mine \in RequisitionRow :
          mine = Rejected(row, by) /\ mine.link = row.link
    BY RejectedType
<1>4. PICK next \in RequisitionRow :
          /\ next = UpdateRequisition(stored, mine)
          /\ next.link = mine.link /\ next.estimate = stored.estimate
    BY UpdateType
<1>5. Store(q, next) /\ End(r) /\ UNCHANGED <<contract, told, made, disturbed, revalued>>
    BY <1>2, <1>3, <1>4 DEF RejectRequisition
<1>6. At(r, q) /\ handler[r].op # "link" /\ requisition[q] # NoRow
    BY <1>1, NoRowAssumption DEF RejectRequisition, At
<1>7. Whole(q) => next.link = requisition[q].link
    BY <1>1, <1>3, <1>4, <1>6, Alone
<1> QED
    BY <1>1, <1>4, <1>5, <1>6, <1>7, StoreWhole

\* A requisition that was turned into a contract passed all desks, so that a correction
\* leaves its estimate alone.
LEMMA PatchWhole ==
    ASSUME Inv, WholeKept, NEW r \in Handlers, PatchRequisition(r)
    PROVE  WholeKept'
<1>1. PICK q \in Requisitions, row \in RequisitionRow, stored \in RequisitionRow :
          /\ q = handler[r].of /\ row = handler[r].row /\ stored = requisition[q]
          /\ RowSound(q, row)
    BY HeldSound DEF PatchRequisition
<1>2. row.no \in Numbers /\ row.estimate \in Nat
    BY DEF RequisitionRow
<1>3. PICK no \in Numbers, estimate \in Nat :
          /\ Store(q, UpdateDetails(stored, [row EXCEPT !.no = no, !.estimate = estimate]))
          /\ row.stage > 1 => estimate = row.estimate
    BY <1>1, <1>2, RequisitionAssumption DEF PatchRequisition
<1>4. PICK mine \in RequisitionRow :
          mine = [row EXCEPT !.no = no, !.estimate = estimate]
    BY DEF RequisitionRow
<1>5. mine.estimate = estimate
    BY <1>4 DEF RequisitionRow
<1>6. PICK next \in RequisitionRow :
          /\ next = UpdateDetails(stored, mine)
          /\ next.link = stored.link /\ next.estimate = mine.estimate
    BY DetailsType
<1>7. Store(q, next) /\ End(r) /\ UNCHANGED <<contract, told, made, disturbed, revalued>>
    BY <1>3, <1>4, <1>6 DEF PatchRequisition
<1>8. At(r, q) /\ handler[r].op # "link" /\ requisition[q] # NoRow
    BY <1>1, NoRowAssumption DEF PatchRequisition, At
<1>9. Whole(q) /\ made[q] # {} => next.estimate = requisition[q].estimate
    <2>1. SUFFICES ASSUME Whole(q), made[q] # {}
                   PROVE  next.estimate = requisition[q].estimate
        OBVIOUS
    <2>2. row = requisition[q] /\ ~Linking(q)
        BY <1>1, <1>8, <2>1, Alone
    <2>3. row.link # NoRow
        BY <1>8, <2>1, <2>2 DEF Whole
    <2>4. row.stage > 1
        BY <1>1, <2>3 DEF RowSound, StoryHolds, Complete
    <2> QED
        BY <1>5, <1>3, <1>6, <2>2, <2>4
<1> QED
    BY <1>1, <1>6, <1>7, <1>8, <1>9, StoreWhole

\* The contract is for the estimate of the row, and the only one the row became.
LEMMA ConvertWhole ==
    ASSUME Inv, WholeKept, NEW r \in Handlers, ConvertRequisition(r)
    PROVE  WholeKept'
<1>1. PICK q \in Requisitions, row \in RequisitionRow, c \in Contracts :
          /\ q = handler[r].of /\ row = handler[r].row
          /\ \A p \in Requisitions : c \notin made[p]
          /\ contract' = [contract EXCEPT ![c] = [number |-> row.no, value |-> row.estimate]]
          /\ made' = [made EXCEPT ![q] = @ \cup {c}]
          /\ handler' = [handler EXCEPT ![r] = Serving("link", q, Converted(row, c))]
    BY ConvertStep
<1>2. /\ UNCHANGED <<requisition, told, disturbed, revalued>>
      /\ handler[r].op = "convert" /\ row.link = NoRow
    BY <1>1 DEF ConvertRequisition, Inv, RowsSound
<1>3. /\ contract'[c].value = row.estimate
      /\ \A d \in Contracts : d # c => contract'[d] = contract[d]
      /\ made'[q] = made[q] \cup {c}
      /\ \A p \in Requisitions : p # q => made'[p] = made[p]
    BY <1>1 DEF Inv, TypeOK
<1>4. PICK linked \in RequisitionRow : linked = Converted(row, c) /\ linked.link = c
    BY ConvertedType
<1>5. PICK request \in Request :
          /\ request = Serving("link", q, linked)
          /\ request.op = "link" /\ request.of = q /\ request.row = linked
    BY <1>4, ServingType DEF Ops
<1>6. /\ handler'[r] = request
      /\ \A h \in Handlers : h # r => handler'[h] = handler[h]
    BY <1>1, <1>4, <1>5 DEF Inv, TypeOK
<1>7. ASSUME NEW p \in Requisitions \ disturbed'
      PROVE  Whole(p)'
    <2>1. Whole(p) /\ made[p] \subseteq Contracts
        BY <1>2, <1>7 DEF WholeKept, Inv, TypeOK
    <2>2. CASE p # q
        <3>1. \A h \in Handlers :
                  \/ handler'[h] = handler[h]
                  \/ handler'[h].of # p /\ ~(At(h, p) /\ handler[h].op = "link")
            BY <1>1, <1>5, <1>6, <2>2 DEF At
        <3>2. \A d \in made[p] : contract'[d] = contract[d]
            BY <1>1, <1>3, <2>1
        <3> QED
            BY <1>2, <1>3, <2>1, <2>2, <3>1, <3>2, WholeUntouched
    <2>3. CASE p = q
        <3>1. At(r, q) /\ handler[r].op # "link"
            BY <1>1, <1>2 DEF At
        <3>2. /\ \A h \in Handlers : At(h, q) => h = r
              /\ row = requisition[q] /\ ~Linking(q)
            BY <1>1, <2>1, <2>3, <3>1, Alone
        <3>3. requisition[q] # NoRow
            BY <1>1, <3>1, <3>2, NoRowAssumption
        <3>4. made[q] = {} /\ made'[q] = {c}
            BY <1>2, <1>3, <2>1, <2>3, <3>2, <3>3 DEF Whole
        <3>5. At(r, q)' /\ Linking(q)'
            BY <1>5, <1>6 DEF At, Linking
        <3>6. \A h \in Handlers : At(h, q)' => h = r
            BY <1>6, <3>2 DEF At
        <3>7. handler'[r].op = "link" /\ handler'[r].row.link = c
            BY <1>4, <1>5, <1>6
        <3>8. contract'[c].value = requisition'[q].estimate
            BY <1>2, <1>3, <3>2
        <3> QED
            BY <1>2, <2>3, <3>3, <3>4, <3>5, <3>6, <3>7, <3>8 DEF Whole
    <2> QED
        BY <2>2, <2>3
<1> QED
    BY <1>7 DEF WholeKept

\* The link is that of the contract just made.
LEMMA LinkWhole ==
    ASSUME Inv, WholeKept, NEW r \in Handlers, LinkContract(r)
    PROVE  WholeKept'
<1>1. PICK q \in Requisitions, row \in RequisitionRow, stored \in RequisitionRow :
          q = handler[r].of /\ row = handler[r].row /\ stored = requisition[q]
    BY HeldSound DEF LinkContract
<1>2. PICK next \in RequisitionRow :
          /\ next = UpdateRequisition(stored, row)
          /\ next.link = row.link /\ next.estimate = stored.estimate
    BY UpdateType
<1>3. Store(q, next) /\ End(r) /\ UNCHANGED <<contract, made, disturbed, revalued>>
    BY <1>1, <1>2 DEF LinkContract
<1>4. At(r, q) /\ handler[r].op = "link"
    BY <1>1 DEF LinkContract, At
<1>5. \A p \in Requisitions \ {q} :
          <<"converted", p>> \in told' => <<"converted", p>> \in told
    BY <1>1 DEF LinkContract, Tell
<1>6. /\ \A h \in Handlers : h # r => handler'[h] = handler[h]
      /\ handler'[r].op = "idle"
    BY <1>3, IdleType DEF End, Inv, TypeOK
<1>7. ASSUME NEW p \in Requisitions \ disturbed'
      PROVE  Whole(p)'
    <2>1. Whole(p)
        BY <1>3, <1>7 DEF WholeKept
    <2>2. CASE p # q
        <3>1. requisition'[p] = requisition[p]
            BY <1>3, <2>2 DEF Store, Inv, TypeOK
        <3>2. \A h \in Handlers :
                  \/ handler'[h] = handler[h]
                  \/ /\ handler'[h].op = "idle" \/ handler'[h].of # p
                     /\ ~(At(h, p) /\ handler[h].op = "link")
            BY <1>1, <1>6, <2>2 DEF At
        <3> QED
            BY <1>3, <1>5, <2>1, <2>2, <3>1, <3>2, WholeUntouched
    <2>3. CASE p = q
        <3>1. requisition'[q] = next /\ next # NoRow
            BY <1>3, NoRowAssumption DEF Store, Inv, TypeOK
        <3>2. /\ \A h \in Handlers : At(h, q) => h = r
              /\ row.link \in Contracts /\ made[q] = {row.link}
            BY <1>1, <1>4, <2>1, <2>3 DEF Whole
        <3>3. \A h \in Handlers : ~At(h, q)'
            BY <1>6, <3>2 DEF At
        <3>4. made'[q] = {requisition'[q].link} \ {NoRow}
            BY <1>2, <1>3, <3>1, <3>2, RequisitionAssumption
        <3>5. \A c \in made'[q] :
                  contract'[c] # NoRow /\ c \notin revalued' =>
                      contract'[c].value = requisition'[q].estimate
            BY <1>1, <1>2, <1>3, <2>1, <2>3, <3>1 DEF Whole
        <3>6. made'[q] # {}
            BY <1>3, <3>2
        <3> QED
            BY <2>3, <3>1, <3>3, <3>4, <3>5, <3>6 DEF Whole
    <2> QED
        BY <2>2, <2>3
<1> QED
    BY <1>7 DEF WholeKept

\* A request on a requisition that another one is serving disturbs it.
LEMMA OpenWhole ==
    ASSUME Inv, WholeKept, NEW r \in Handlers, NEW q \in Requisitions,
           NEW op \in Ops \ {"idle", "link"}, Open(r, q, op)
    PROVE  WholeKept'
<1>1. /\ UNCHANGED <<requisition, contract, told, made, revalued>>
      /\ disturbed \subseteq disturbed'
      /\ q \notin disturbed' => \A h \in Handlers : ~At(h, q)
    BY DEF Open, At
<1>2. handler[r].op = "idle" /\ requisition[q] \in RequisitionRow
    BY DEF Open, Inv, TypeOK
<1>3. PICK request \in Request :
          /\ request = Serving(op, q, requisition[q])
          /\ request.op = op /\ request.of = q /\ request.row = requisition[q]
    BY <1>2, ServingType
<1>4. /\ handler'[r] = request
      /\ \A h \in Handlers : h # r => handler'[h] = handler[h]
    BY <1>3 DEF Open, Inv, TypeOK
<1>5. ASSUME NEW p \in Requisitions \ disturbed'
      PROVE  Whole(p)'
    <2>1. Whole(p)
        BY <1>1, <1>5 DEF WholeKept
    <2>2. CASE p # q
        <3>1. \A h \in Handlers :
                  \/ handler'[h] = handler[h]
                  \/ handler'[h].of # p /\ ~(At(h, p) /\ handler[h].op = "link")
            BY <1>2, <1>3, <1>4, <2>2
        <3> QED
            BY <1>1, <2>1, <3>1, WholeUntouched
    <2>3. CASE p = q
        <3>1. \A h \in Handlers : ~At(h, q)
            BY <1>1, <1>5, <2>3
        <3>2. \A h \in Handlers : At(h, q)' => h = r
            BY <1>4, <3>1 DEF At
        <3>3. handler'[r].op # "link" /\ handler'[r].row = requisition'[q]
            BY <1>1, <1>3, <1>4
        <3>4. ~Linking(q)
            BY <3>1 DEF Linking
        <3> QED
            BY <1>1, <2>1, <2>3, <3>2, <3>3, <3>4 DEF Whole
    <2> QED
        BY <2>2, <2>3
<1> QED
    BY <1>5 DEF WholeKept

\* Steps that touch no requisition and no request about to link on one that stays
\* undisturbed, and that leave the contracts their values or mark them.
LEMMA QuietWhole ==
    ASSUME Inv, WholeKept, UNCHANGED <<requisition, told, made>>,
           disturbed \subseteq disturbed', revalued \subseteq revalued',
           \A c \in Contracts : contract'[c] # NoRow /\ c \notin revalued' =>
               contract[c] # NoRow /\ contract'[c].value = contract[c].value,
           \A h \in Handlers :
               \/ handler'[h] = handler[h]
               \/ /\ handler'[h].op = "idle"
                  /\ handler[h].op = "link" => handler[h].of \in disturbed'
    PROVE  WholeKept'
<1>1. ASSUME NEW p \in Requisitions \ disturbed'
      PROVE  Whole(p)'
    <2>1. Whole(p) /\ made[p] \subseteq Contracts
        BY <1>1 DEF WholeKept, Inv, TypeOK
    <2>2. \A h \in Handlers :
              \/ handler'[h] = handler[h]
              \/ handler'[h].op = "idle" /\ ~(At(h, p) /\ handler[h].op = "link")
        BY <1>1 DEF At
    <2> QED
        BY <2>1, <2>2, WholeUntouched
<1> QED
    BY <1>1 DEF WholeKept

\* A new requisition has no request on it, became no contract and was announced to nobody.
LEMMA CreateWhole ==
    ASSUME Inv, WholeKept, NEW q \in Requisitions, CreateRequisition(q)
    PROVE  WholeKept'
<1>1. /\ UNCHANGED <<contract, told, handler, made, disturbed, revalued>>
      /\ requisition[q] = NoRow
    BY DEF CreateRequisition
<1>2. PICK no \in Numbers, estimate \in Estimates, by \in Names :
          requisition' = [requisition EXCEPT ![q] = NewRequisition(no, estimate, by)]
    BY DEF CreateRequisition
<1>3. PICK row \in RequisitionRow :
          row = NewRequisition(no, estimate, by) /\ row.link = NoRow
    BY NewRequisitionType, RequisitionAssumption DEF NewRequisition
<1>4. /\ requisition'[q] = row /\ row # NoRow
      /\ \A p \in Requisitions : p # q => requisition'[p] = requisition[p]
    BY <1>2, <1>3, NoRowAssumption DEF Inv, TypeOK
<1>5. ASSUME NEW p \in Requisitions \ disturbed'
      PROVE  Whole(p)'
    <2>1. Whole(p)
        BY <1>1, <1>5 DEF WholeKept
    <2>2. CASE p # q
        BY <1>1, <1>4, <2>1, <2>2, WholeUntouched
    <2>3. CASE p = q
        <3>1. \A h \in Handlers : ~At(h, q) /\ ~At(h, q)'
            BY <1>1 DEF At, Inv, TypeOK
        <3>2. ~Linking(q)
            BY <3>1 DEF Linking
        <3>3. made'[q] = {}
            BY <1>1, <2>1, <2>3, <3>2 DEF Whole
        <3>4. made'[q] = {requisition'[q].link} \ {NoRow}
            BY <1>3, <1>4, <3>3
        <3>5. <<"converted", q>> \notin told'
            BY <1>1, <2>1, <2>3, <3>3 DEF Whole
        <3> QED
            BY <1>4, <2>3, <3>1, <3>3, <3>4, <3>5 DEF Whole
    <2> QED
        BY <2>2, <2>3
<1> QED
    BY <1>5 DEF WholeKept

LEMMA InitWhole == Init => WholeKept
BY IdleType DEF Init, WholeKept, Whole, At, Linking

LEMMA NextWhole == Inv /\ WholeKept /\ [Next]_vars => WholeKept'
<1> SUFFICES ASSUME Inv, WholeKept, [Next]_vars
             PROVE  WholeKept'
    OBVIOUS
<1>1. ASSUME NEW r \in Handlers, NEW q \in Requisitions,
             \/ OpenAdvance(r, q) \/ OpenReject(r, q)
             \/ OpenCorrection(r, q) \/ OpenConversion(r, q)
      PROVE  WholeKept'
    BY <1>1, OpenWhole DEF OpenAdvance, OpenReject, OpenCorrection, OpenConversion, Ops
<1>2. ASSUME NEW r \in Handlers, Refuse(r)
      PROVE  WholeKept'
    <2>1. /\ End(r) /\ UNCHANGED <<requisition, contract, told, made, disturbed, revalued>>
          /\ handler[r].op # "link"
        BY <1>2 DEF Refuse
    <2>2. \A h \in Handlers :
              \/ handler'[h] = handler[h]
              \/ /\ handler'[h].op = "idle"
                 /\ handler[h].op # "link"
        BY <2>1, IdleType DEF End, Inv, TypeOK
    <2> QED
        BY <2>1, <2>2, QuietWhole
<1>3. ASSUME NEW r \in Handlers, Fail(r)
      PROVE  WholeKept'
    <2>1. /\ End(r) /\ UNCHANGED <<requisition, contract, told, made, revalued>>
          /\ disturbed \subseteq disturbed'
          /\ handler[r].op = "link" => handler[r].of \in disturbed'
        BY <1>3 DEF Fail
    <2>2. \A h \in Handlers :
              \/ handler'[h] = handler[h]
              \/ /\ handler'[h].op = "idle"
                 /\ handler[h].op = "link" => handler[h].of \in disturbed'
        BY <2>1, IdleType DEF End, Inv, TypeOK
    <2> QED
        BY <2>1, <2>2, QuietWhole
<1>4. ASSUME NEW c \in Contracts, DeleteContract(c)
      PROVE  WholeKept'
    <2>1. /\ UNCHANGED <<requisition, told, handler, made, disturbed, revalued>>
          /\ \A d \in Contracts : contract'[d] = NoRow \/ contract'[d] = contract[d]
        BY <1>4 DEF DeleteContract, Inv, TypeOK
    <2> QED
        BY <2>1, QuietWhole
<1>5. ASSUME NEW c \in Contracts, PatchContract(c)
      PROVE  WholeKept'
    <2>1. UNCHANGED <<requisition, told, handler, made, disturbed>> /\ revalued \subseteq revalued'
        BY <1>5 DEF PatchContract
    <2>2. PICK n \in Numbers, value \in Nat :
              /\ contract[c] # NoRow
              /\ contract'[c] = [number |-> n, value |-> value]
              /\ \A d \in Contracts : d # c => contract'[d] = contract[d]
              /\ value # contract[c].value => c \in revalued'
        BY <1>5, PatchContractStep
    <2>3. contract'[c].value = value
        BY <2>2
    <2>4. \A d \in Contracts : contract'[d] # NoRow /\ d \notin revalued' =>
              contract[d] # NoRow /\ contract'[d].value = contract[d].value
        BY <2>2, <2>3
    <2> QED
        BY <2>1, <2>4, QuietWhole
<1>6. CASE UNCHANGED vars
    BY <1>6, QuietWhole DEF vars
<1> QED
    BY <1>1, <1>2, <1>3, <1>4, <1>5, <1>6, CreateWhole, AdvanceWhole, RejectWhole,
       PatchWhole, ConvertWhole, LinkWhole DEF Next

\* Converting turns an approved requisition into one contract and links them: where
\* requests on it neither overlapped nor died between the two writes, its link is the one
\* contract it became, for its estimate until a user gives the contract another value, and procurement hears of no other conversion.
THEOREM ConversionKept == Spec => []ConversionWhole
<1>1. ASSUME Inv, WholeKept
      PROVE  ConversionWhole
    <2>1. ASSUME NEW q \in Requisitions \ disturbed, requisition[q] # NoRow,
                 \A r \in Handlers : handler[r].of = q => handler[r].op # "link"
          PROVE  /\ made[q] = {requisition[q].link} \ {NoRow}
                 /\ \A c \in made[q] \ revalued : contract[c] # NoRow =>
                        contract[c].value = requisition[q].estimate
                 /\ <<"converted", q>> \in told => made[q] # {}
        <3>1. ~Linking(q) /\ Whole(q)
            BY <1>1, <2>1 DEF Linking, At, WholeKept
        <3> QED
            BY <2>1, <3>1 DEF Whole
    <2> QED
        BY <2>1 DEF ConversionWhole
<1>2. Spec => []WholeKept
    BY InitWhole, NextWhole, Invariant, PTL DEF Spec
<1> QED
    BY <1>1, <1>2, Invariant, PTL

-----------------------------------------------------------------------------
(***************************************************************************)
(* The registers beside the requisitions: GovRegisters.                    *)
(***************************************************************************)

\* What a request may hold, by what it is about to do.
ToCharge == [op : {"charge"}, of : Charges, row : Codes]
ToRename == [op : {"budget"}, of : Codes, row : [to : Codes]]
Renaming ==
    [op : {"moved"}, of : Codes,
     row : [to : Codes, moved : SUBSET Charges, seen : SUBSET Charges]]
ToPatch == [op : {"duty"}, of : Duties, row : DutyRow]
ToClose == [op : {"closeout"}, of : Deals, row : CloseoutRow]
Holding == {Unused} \cup ToCharge \cup ToRename \cup Renaming \cup ToPatch \cup ToClose

EditorsOK == editor \in [Editors -> Holding]

BudgetsOK ==
    /\ lines \in Nat
    /\ budgets \in [Codes -> Nat]
    /\ charges \in [Charges -> ChargeRow \cup {NoRecord}]

RecordsOK ==
    /\ deals \in SUBSET Deals
    /\ duties \in [Duties -> DutyRow \cup {NoRecord}]
    /\ closeouts \in [Deals -> CloseoutRow \cup {NoRecord}]
    /\ given \in [Duties \cup Deals -> DutyRow \cup CloseoutRow \cup {NoRecord}]
    /\ \A d \in Deals : given[d] \in CloseoutRow
    /\ \A o \in Duties : given[o] \in DutyRow \cup {NoRecord}
    /\ excused \in SUBSET (Duties \cup Deals)

\* Requisitions that are not loose are charged to a line that stands.
ChargesSound ==
    \A q \in Charges : charges[q] # NoRecord /\ ~charges[q].loose =>
        /\ Standing(charges[q].code)
        /\ budgets[charges[q].code] = charges[q].line

\* A rename between its statements and its commit has the line, the free code and
\* every requisition it repoints to itself.
RenamesSound ==
    /\ \A e \in Editors : editor[e].op = "charge" => charges[editor[e].of] # NoRecord
    /\ \A e \in Editors : editor[e].op = "moved" =>
          /\ Standing(editor[e].of) /\ ~Standing(editor[e].row.to)
          /\ editor[e].row.moved = editor[e].row.seen
          /\ \A q \in editor[e].row.moved :
                charges[q] # NoRecord /\ charges[q].code = editor[e].of
    /\ \A e, f \in Editors : editor[e].op = "moved" /\ editor[f].op = "moved" /\ e # f =>
          /\ editor[e].of # editor[f].of /\ editor[e].of # editor[f].row.to
          /\ editor[e].row.to # editor[f].row.to

\* The closeout of a contract as requests see it.
Closeout(d) == IF closeouts[d] = NoRecord THEN NoCloseout ELSE closeouts[d]

\* Rows, and the copies requests hold, are what users last gave.
RecordsSound ==
    /\ \A o \in Duties : duties[o] # NoRecord =>
          given[o] # NoRecord /\ (o \notin excused => duties[o] = given[o])
    /\ \A d \in deals \ excused : given[d] = Closeout(d)
    /\ \A e \in Editors : editor[e].op = "duty" =>
          /\ given[editor[e].of] # NoRecord
          /\ editor[e].of \notin excused => editor[e].row = given[editor[e].of]
    /\ \A e \in Editors : editor[e].op = "closeout" /\ editor[e].of \in deals \ excused =>
          editor[e].row = given[editor[e].of]

BudgetInv == BudgetsOK /\ ChargesSound /\ RenamesSound

RecordInv == RecordsOK /\ RecordsSound

RegInv == EditorsOK /\ BudgetInv /\ RecordInv

-----------------------------------------------------------------------------
(* What requests hold.                                                      *)

\* The parts of what is held, by what it is for.
LEMMA HoldingParts ==
    ASSUME NEW x \in Holding
    PROVE  /\ x = [op |-> x.op, of |-> x.of, row |-> x.row]
           /\ x.op = "idle" => x = Unused
           /\ x.op = "charge" => x \in ToCharge /\ x.of \in Charges /\ x.row \in Codes
           /\ x.op = "budget" => x \in ToRename /\ x.of \in Codes /\ x.row.to \in Codes
           /\ x.op = "moved" => /\ x \in Renaming /\ x.of \in Codes /\ x.row.to \in Codes
                                /\ x.row.moved \in SUBSET Charges
           /\ x.op = "duty" => x \in ToPatch /\ x.of \in Duties /\ x.row \in DutyRow
           /\ x.op = "closeout" => x \in ToClose /\ x.of \in Deals /\ x.row \in CloseoutRow
<1>1. CASE x = Unused
    BY <1>1 DEF Unused
<1>2. CASE x \in ToCharge
    BY <1>2 DEF ToCharge
<1>3. CASE x \in ToRename
    BY <1>3 DEF ToRename
<1>4. CASE x \in Renaming
    BY <1>4 DEF Renaming
<1>5. CASE x \in ToPatch
    BY <1>5 DEF ToPatch
<1>6. CASE x \in ToClose
    BY <1>6 DEF ToClose
<1> QED
    BY <1>1, <1>2, <1>3, <1>4, <1>5, <1>6 DEF Holding

\* A request takes hold of something.
LEMMA Held ==
    ASSUME EditorsOK, NEW e \in Editors, NEW x \in Holding, editor' = [editor EXCEPT ![e] = x]
    PROVE  /\ EditorsOK'
           /\ editor'[e] = x
           /\ \A f \in Editors : f # e => editor'[f] = editor[f]
BY DEF EditorsOK

\* A request ends.
LEMMA Released ==
    ASSUME EditorsOK, NEW e \in Editors, Release(e)
    PROVE  /\ EditorsOK'
           /\ editor'[e].op = "idle"
           /\ \A f \in Editors : f # e => editor'[f] = editor[f]
<1>1. Unused \in Holding /\ Unused.op = "idle"
    BY DEF Holding, Unused
<1>2. editor' = [editor EXCEPT ![e] = Unused]
    BY DEF Release
<1> QED
    BY <1>1, <1>2 DEF EditorsOK

\* A request reads a row.
LEMMA Taken ==
    ASSUME EditorsOK, NEW e \in Editors, NEW op, NEW id, NEW row, Hold(e, op, id, row),
           [op |-> op, of |-> id, row |-> row] \in Holding
    PROVE  /\ EditorsOK'
           /\ editor'[e].op = op /\ editor'[e].of = id /\ editor'[e].row = row
           /\ \A f \in Editors : f # e => editor'[f] = editor[f]
<1>1. PICK x \in Holding : x = [op |-> op, of |-> id, row |-> row]
    OBVIOUS
<1>2. editor' = [editor EXCEPT ![e] = x]
    BY <1>1 DEF Hold
<1>3. /\ EditorsOK' /\ editor'[e] = x
      /\ \A f \in Editors : f # e => editor'[f] = editor[f]
    BY <1>2, Held
<1> QED
    BY <1>1, <1>3

-----------------------------------------------------------------------------
(* Steps that leave a part alone.                                           *)

\* The budgets, when no request begins or goes on with one.
LEMMA BudgetsQuiet ==
    ASSUME BudgetInv, UNCHANGED budgetVars,
           \A e \in Editors : editor'[e].op \in {"charge", "moved"} => editor'[e] = editor[e]
    PROVE  BudgetInv'
<1>1. /\ lines' = lines /\ budgets' = budgets /\ charges' = charges
    BY DEF budgetVars
<1>2. BudgetsOK' /\ ChargesSound'
    BY <1>1 DEF BudgetInv, BudgetsOK, ChargesSound, Standing
<1>3. RenamesSound'
    BY <1>1 DEF BudgetInv, RenamesSound, Standing
<1> QED
    BY <1>2, <1>3 DEF BudgetInv

\* The records, likewise.
LEMMA RecordsQuiet ==
    ASSUME RecordInv, UNCHANGED recordVars,
           \A e \in Editors : editor'[e].op \in {"duty", "closeout"} => editor'[e] = editor[e]
    PROVE  RecordInv'
<1>1. /\ deals' = deals /\ duties' = duties /\ closeouts' = closeouts
      /\ given' = given /\ excused' = excused
    BY DEF recordVars
<1>2. RecordsOK'
    BY <1>1 DEF RecordInv, RecordsOK
<1>3. RecordsSound'
    BY <1>1 DEF RecordInv, RecordsSound, Closeout
<1> QED
    BY <1>2, <1>3 DEF RecordInv

\* A request that ends without writing.
LEMMA LettingGo ==
    ASSUME RegInv, NEW e \in Editors, Release(e), UNCHANGED <<budgetVars, recordVars>>
    PROVE  RegInv'
<1>1. /\ EditorsOK' /\ editor'[e].op = "idle"
      /\ \A f \in Editors : f # e => editor'[f] = editor[f]
    BY Released DEF RegInv
<1>2. /\ \A f \in Editors : editor'[f].op \in {"charge", "moved"} => editor'[f] = editor[f]
      /\ \A f \in Editors : editor'[f].op \in {"duty", "closeout"} => editor'[f] = editor[f]
    BY <1>1
<1> QED
    BY <1>1, <1>2, BudgetsQuiet, RecordsQuiet DEF RegInv

-----------------------------------------------------------------------------
(* Budget lines.                                                            *)

LEMMA ChargeType ==
    ASSUME BudgetsOK, NEW c \in Codes
    PROVE  /\ Charge(c) \in ChargeRow /\ Charge(c) # NoRecord
           /\ Charge(c).code = c /\ Charge(c).line = budgets[c]
           /\ ~Charge(c).loose => Standing(c)
<1>1. /\ Charge(c) \in ChargeRow
      /\ Charge(c).code = c /\ Charge(c).line = budgets[c] /\ Charge(c).loose = ~Standing(c)
    <2>1. PICK loose \in BOOLEAN : loose = ~Standing(c)
        OBVIOUS
    <2>2. budgets[c] \in Nat
        BY DEF BudgetsOK
    <2>3. Charge(c) = [code |-> c, line |-> budgets[c], loose |-> loose]
        BY <2>1 DEF Charge
    <2> QED
        BY <2>1, <2>2, <2>3 DEF ChargeRow
<1> QED
    BY <1>1, RegAssumption

\* A row of the requisitions is rewritten while nobody renames its line.
LEMMA Recharged ==
    ASSUME BudgetInv, EditorsOK, NEW q \in Charges, NEW row \in ChargeRow,
           budgets' = budgets, lines' = lines, charges' = [charges EXCEPT ![q] = row],
           ~row.loose => Standing(row.code) /\ budgets[row.code] = row.line,
           \A e \in Editors : editor[e].op = "moved" => q \notin editor[e].row.moved,
           \A e \in Editors : editor'[e].op \in {"charge", "moved"} => editor'[e] = editor[e]
    PROVE  BudgetInv'
<1>1. /\ charges' \in [Charges -> ChargeRow \cup {NoRecord}]
      /\ charges'[q] = row /\ row # NoRecord
      /\ \A p \in Charges : p # q => charges'[p] = charges[p]
    BY RegAssumption DEF BudgetInv, BudgetsOK
<1>2. BudgetsOK'
    BY <1>1 DEF BudgetInv, BudgetsOK
<1>3. ChargesSound'
    BY <1>1 DEF BudgetInv, ChargesSound, Standing
<1>4. ASSUME NEW e \in Editors, editor'[e].op = "charge"
      PROVE  charges'[editor'[e].of] # NoRecord
    <2>1. editor'[e] = editor[e] /\ charges[editor[e].of] # NoRecord
        BY <1>4 DEF BudgetInv, RenamesSound
    <2>2. editor[e].of \in Charges
        BY <1>4, <2>1, HoldingParts DEF EditorsOK
    <2> QED
        BY <1>1, <2>1, <2>2
<1>5. ASSUME NEW e \in Editors, editor'[e].op = "moved"
      PROVE  /\ Standing(editor[e].of)' /\ ~Standing(editor[e].row.to)'
             /\ editor'[e].row.moved = editor'[e].row.seen
             /\ \A p \in editor'[e].row.moved :
                   charges'[p] # NoRecord /\ charges'[p].code = editor'[e].of
    <2>1. editor'[e] = editor[e]
        BY <1>5
    <2>2. /\ Standing(editor[e].of) /\ ~Standing(editor[e].row.to)
          /\ editor[e].row.moved = editor[e].row.seen
          /\ \A p \in editor[e].row.moved :
                charges[p] # NoRecord /\ charges[p].code = editor[e].of
          /\ q \notin editor[e].row.moved
        BY <1>5, <2>1 DEF BudgetInv, RenamesSound
    <2>4. editor[e].row.moved \in SUBSET Charges
        BY <1>5, <2>1, HoldingParts DEF EditorsOK
    <2>3. ASSUME NEW p \in editor[e].row.moved
          PROVE  charges'[p] # NoRecord /\ charges'[p].code = editor[e].of
        <3>1. p # q /\ charges[p] # NoRecord /\ charges[p].code = editor[e].of
            BY <2>2
        <3>2. charges'[p] = charges[p]
            BY <1>1, <2>4, <3>1
        <3> QED
            BY <3>1, <3>2
    <2>5. Standing(editor[e].of)' /\ ~Standing(editor[e].row.to)'
        BY <2>1, <2>2 DEF Standing
    <2> QED
        BY <2>1, <2>2, <2>3, <2>5
<1>6. \A e, f \in Editors : editor'[e].op = "moved" /\ editor'[f].op = "moved" /\ e # f =>
          /\ editor'[e].of # editor'[f].of /\ editor'[e].of # editor'[f].row.to
          /\ editor'[e].row.to # editor'[f].row.to
    BY DEF BudgetInv, RenamesSound
<1>7. RenamesSound'
    BY <1>4, <1>5, <1>6 DEF RenamesSound
<1> QED
    BY <1>2, <1>3, <1>7 DEF BudgetInv

LEMMA ChargeStep ==
    ASSUME RegInv, NEW q \in Charges, ChargeRequisition(q)
    PROVE  RegInv'
<1>1. /\ charges[q] = NoRecord /\ budgets' = budgets /\ lines' = lines
      /\ editor' = editor /\ UNCHANGED recordVars
    BY DEF ChargeRequisition
<1>2. PICK c \in Codes : charges' = [charges EXCEPT ![q] = Charge(c)]
    BY DEF ChargeRequisition
<1>3. BudgetInv /\ BudgetsOK /\ RecordInv /\ EditorsOK /\ RenamesSound
    BY DEF RegInv, BudgetInv
<1>4. PICK row \in ChargeRow : row = Charge(c)
    BY <1>3, ChargeType
<1>5. ~row.loose => Standing(row.code) /\ budgets[row.code] = row.line
    BY <1>3, <1>4, ChargeType
<1>6. \A e \in Editors : editor[e].op = "moved" => q \notin editor[e].row.moved
    BY <1>1, <1>3 DEF RenamesSound
<1>7. \A e \in Editors : editor'[e] = editor[e]
    BY <1>1
<1>8. charges' = [charges EXCEPT ![q] = row]
    BY <1>2, <1>4
<1>9. BudgetInv'
    BY <1>1, <1>3, <1>5, <1>6, <1>7, <1>8, Recharged
<1>10. RecordInv'
    BY <1>1, <1>3, <1>7, RecordsQuiet
<1> QED
    BY <1>1, <1>3, <1>9, <1>10 DEF RegInv, EditorsOK

LEMMA PatchChargeStep ==
    ASSUME RegInv, NEW e \in Editors, PatchCharge(e)
    PROVE  RegInv'
<1>1. /\ editor[e].op = "charge" /\ ~Locked(editor[e].of) /\ Release(e)
      /\ budgets' = budgets /\ lines' = lines /\ UNCHANGED recordVars
    BY DEF PatchCharge
<1>2. BudgetInv /\ BudgetsOK /\ RecordInv /\ EditorsOK /\ RenamesSound /\ ChargesSound
    BY DEF RegInv, BudgetInv
<1>3. PICK q \in Charges, read \in Codes : q = editor[e].of /\ read = editor[e].row
    BY <1>1, <1>2, HoldingParts DEF EditorsOK
<1>4. charges[q] \in ChargeRow /\ charges[q] # NoRecord
    BY <1>1, <1>2, <1>3 DEF RenamesSound, BudgetsOK
<1>5. PICK row \in ChargeRow :
          /\ charges' = [charges EXCEPT ![q] = row]
          /\ ~row.loose => Standing(row.code) /\ budgets[row.code] = row.line
    <2>1. CASE \E c \in Codes : charges' = [charges EXCEPT ![q] = Charge(c)]
        <3>1. PICK c \in Codes : charges' = [charges EXCEPT ![q] = Charge(c)]
            BY <2>1
        <3>2. PICK row \in ChargeRow : row = Charge(c)
            BY <1>2, ChargeType
        <3>3. ~row.loose => Standing(row.code) /\ budgets[row.code] = row.line
            BY <1>2, <3>2, ChargeType
        <3>4. charges' = [charges EXCEPT ![q] = row]
            BY <3>1, <3>2
        <3> QED
            BY <3>3, <3>4
    <2>2. CASE charges' = [charges EXCEPT ![q].code = read,
                                          ![q].loose = @ \/ charges[q].code # read]
        <3>1. PICK row : row = [charges[q] EXCEPT !.code = read,
                                                  !.loose = @ \/ charges[q].code # read]
            OBVIOUS
        <3>2. charges' = [charges EXCEPT ![q] = row]
            BY <1>2, <2>2, <3>1 DEF BudgetsOK
        <3>3. /\ row.code = read /\ row.line = charges[q].line
              /\ row.loose <=> (charges[q].loose \/ charges[q].code # read)
              /\ row \in ChargeRow
            <4>1. PICK loose \in BOOLEAN : loose = (charges[q].loose \/ charges[q].code # read)
                OBVIOUS
            <4>2. row = [charges[q] EXCEPT !.code = read, !.loose = loose]
                BY <3>1, <4>1
            <4>3. row \in ChargeRow /\ row.code = read /\ row.line = charges[q].line /\ row.loose = loose
                BY <1>4, <4>2 DEF ChargeRow
            <4> QED
                BY <4>1, <4>3
        <3>4. ASSUME ~row.loose
              PROVE  Standing(row.code) /\ budgets[row.code] = row.line
            <4>1. ~charges[q].loose /\ charges[q].code = read
                BY <3>3, <3>4
            <4> QED
                BY <1>2, <1>4, <3>3, <4>1 DEF ChargesSound
        <3> QED
            BY <3>2, <3>3, <3>4
    <2> QED
        BY <1>3, <2>1, <2>2 DEF PatchCharge
<1>6. \A f \in Editors : editor[f].op = "moved" => q \notin editor[f].row.moved
    BY <1>1, <1>3 DEF Locked
<1>7. /\ EditorsOK' /\ editor'[e].op = "idle"
      /\ \A f \in Editors : f # e => editor'[f] = editor[f]
    BY <1>1, <1>2, Released
<1>8. /\ \A f \in Editors : editor'[f].op \in {"charge", "moved"} => editor'[f] = editor[f]
      /\ \A f \in Editors : editor'[f].op \in {"duty", "closeout"} => editor'[f] = editor[f]
    BY <1>7
<1>9. BudgetInv'
    BY <1>1, <1>2, <1>5, <1>6, <1>8, Recharged
<1> QED
    BY <1>1, <1>2, <1>7, <1>8, <1>9, RecordsQuiet DEF RegInv

\* A request that only takes hold of a row, of a charge, a line or a record.
LEMMA OpenStep ==
    ASSUME RegInv, NEW e \in Editors, UNCHANGED <<budgetVars, recordVars>>,
           \/ \E q \in Charges : OpenCharge(e, q)
           \/ \E c \in Codes : OpenBudget(e, c)
    PROVE  RegInv'
<1>1. BudgetInv /\ BudgetsOK /\ RecordInv /\ EditorsOK /\ RenamesSound
    BY DEF RegInv, BudgetInv
<1>2. /\ EditorsOK' /\ \A f \in Editors : f # e => editor'[f] = editor[f]
      /\ editor'[e].op \in {"charge", "budget"}
      /\ editor'[e].op = "charge" => charges[editor'[e].of] # NoRecord
    <2>1. ASSUME NEW q \in Charges, OpenCharge(e, q)
          PROVE  <1>2
        <3>1. PICK read \in Codes : read = charges[q].code /\ Hold(e, "charge", q, read)
            BY <1>1, <2>1 DEF OpenCharge, BudgetsOK, ChargeRow
        <3>2. [op |-> "charge", of |-> q, row |-> read] \in Holding
            BY DEF Holding, ToCharge
        <3> QED
            BY <1>1, <2>1, <3>1, <3>2, Taken DEF OpenCharge
    <2>2. ASSUME NEW c \in Codes, OpenBudget(e, c)
          PROVE  <1>2
        <3>1. PICK to \in Codes : Hold(e, "budget", c, [to |-> to])
            BY <2>2 DEF OpenBudget
        <3>2. PICK row \in [to : Codes] : row = [to |-> to]
            OBVIOUS
        <3>3. [op |-> "budget", of |-> c, row |-> row] \in Holding
            BY DEF Holding, ToRename
        <3> QED
            BY <1>1, <3>1, <3>2, <3>3, Taken
    <2> QED
        BY <2>1, <2>2
<1>3. \A f \in Editors : editor'[f].op \in {"duty", "closeout"} => editor'[f] = editor[f]
    BY <1>2
<1>4. RecordInv'
    BY <1>1, <1>3, RecordsQuiet
<1>5. budgets' = budgets /\ lines' = lines /\ charges' = charges
    BY DEF budgetVars
<1>6. BudgetsOK' /\ ChargesSound'
    BY <1>1, <1>5 DEF BudgetInv, BudgetsOK, ChargesSound, Standing
<1>7. RenamesSound'
    BY <1>1, <1>2, <1>5 DEF RenamesSound, Standing
<1> QED
    BY <1>2, <1>4, <1>6, <1>7 DEF RegInv, BudgetInv

\* A line is opened under a code that is free.
LEMMA UpsertStep ==
    ASSUME RegInv, NEW c \in Codes, UpsertBudget(c)
    PROVE  RegInv'
<1>1. /\ ~Standing(c) /\ ~LockedCode(c) /\ lines' = lines + 1
      /\ budgets' = [budgets EXCEPT ![c] = lines + 1]
      /\ charges' = charges /\ editor' = editor /\ UNCHANGED recordVars
    BY DEF UpsertBudget
<1>2. BudgetInv /\ BudgetsOK /\ RecordInv /\ EditorsOK /\ RenamesSound /\ ChargesSound
    BY DEF RegInv, BudgetInv
<1>3. lines + 1 \in Nat /\ lines + 1 # 0
    BY <1>2 DEF BudgetsOK
<1>4. /\ budgets' \in [Codes -> Nat] /\ Standing(c)'
      /\ \A k \in Codes : k # c => budgets'[k] = budgets[k] /\ (Standing(k)' <=> Standing(k))
    BY <1>1, <1>2, <1>3 DEF BudgetsOK, Standing
<1>5. BudgetsOK'
    BY <1>1, <1>2, <1>3, <1>4 DEF BudgetsOK
<1>6. ChargesSound'
    <2>1. ASSUME NEW q \in Charges, charges[q] # NoRecord, ~charges[q].loose
          PROVE  Standing(charges[q].code)' /\ budgets'[charges[q].code] = charges[q].line
        <3>1. /\ Standing(charges[q].code) /\ charges[q].code \in Codes
              /\ budgets[charges[q].code] = charges[q].line
            BY <1>2, <2>1 DEF ChargesSound, BudgetsOK, ChargeRow
        <3> QED
            BY <1>1, <1>4, <3>1
    <2> QED
        BY <1>1, <2>1 DEF ChargesSound, Standing
<1>7. RenamesSound'
    <2>1. ASSUME NEW e \in Editors, editor[e].op = "moved"
          PROVE  Standing(editor[e].of)' /\ ~Standing(editor[e].row.to)'
        <3>1. /\ editor[e].of \in Codes /\ editor[e].row.to \in Codes
              /\ editor[e].of # c /\ editor[e].row.to # c
            BY <1>1, <1>2, <2>1, HoldingParts DEF EditorsOK, LockedCode
        <3> QED
            BY <1>1, <1>2, <1>4, <2>1, <3>1 DEF RenamesSound
    <2> QED
        BY <1>1, <1>2, <2>1 DEF RenamesSound, Standing
<1>8. RecordInv'
    BY <1>1, <1>2, RecordsQuiet
<1> QED
    BY <1>1, <1>2, <1>5, <1>6, <1>7, <1>8 DEF RegInv, BudgetInv, EditorsOK

\* The statements of a rename, before its commit.
LEMMA RepointStep ==
    ASSUME RegInv, NEW e \in Editors, RepointCharges(e)
    PROVE  RegInv'
<1>1. BudgetInv /\ BudgetsOK /\ RecordInv /\ EditorsOK /\ RenamesSound /\ ChargesSound
    BY DEF RegInv, BudgetInv
<1>2. PICK from \in Codes, to \in Codes :
          from = editor[e].of /\ to = editor[e].row.to
    <2>1. editor[e].op = "budget" /\ editor[e] \in Holding
        BY <1>1 DEF RepointCharges, EditorsOK
    <2> QED
        BY <2>1, HoldingParts
<1>3. PICK moved \in SUBSET Charges : moved = ChargedTo(from)
    BY DEF ChargedTo
<1>4. PICK row : row = [to |-> to, moved |-> moved, seen |-> moved]
    OBVIOUS
<1>5. /\ Standing(from) /\ ~Standing(to) /\ ~LockedCode(from) /\ ~LockedCode(to)
      /\ editor' = [editor EXCEPT ![e] = [op |-> "moved", of |-> from, row |-> row]]
      /\ UNCHANGED budgetVars /\ UNCHANGED recordVars
    BY <1>2, <1>3, <1>4 DEF RepointCharges, Repointed
<1>6. PICK x : x = [op |-> "moved", of |-> from, row |-> row]
    OBVIOUS
<1>7. /\ row \in [to : Codes, moved : SUBSET Charges, seen : SUBSET Charges]
      /\ row.to = to /\ row.moved = moved /\ row.seen = moved
    BY <1>4
<1>8. x \in Holding /\ x.op = "moved" /\ x.of = from /\ x.row = row
    BY <1>6, <1>7 DEF Holding, Renaming
<1>9. editor' = [editor EXCEPT ![e] = x]
    BY <1>5, <1>6
<1>10. /\ EditorsOK' /\ editor'[e] = x
       /\ \A f \in Editors : f # e => editor'[f] = editor[f]
    BY <1>1, <1>8, <1>9, Held
<1>11. budgets' = budgets /\ lines' = lines /\ charges' = charges
    BY <1>5 DEF budgetVars
<1>12. BudgetsOK' /\ ChargesSound'
    BY <1>1, <1>11 DEF BudgetsOK, ChargesSound, Standing
<1>13. ASSUME NEW f \in Editors, f # e, editor[f].op = "moved"
       PROVE  from # editor[f].of /\ from # editor[f].row.to /\ to # editor[f].of /\ to # editor[f].row.to
    BY <1>5, <1>13 DEF LockedCode
<1>14. \A q \in moved : charges[q] # NoRecord /\ charges[q].code = from
    BY <1>3 DEF ChargedTo
<1>15. RenamesSound'
    <2>1. ASSUME NEW f \in Editors, editor'[f].op = "charge"
          PROVE  charges'[editor'[f].of] # NoRecord
        BY <1>1, <1>8, <1>10, <1>11, <2>1 DEF RenamesSound
    <2>2. ASSUME NEW f \in Editors, editor'[f].op = "moved"
          PROVE  /\ budgets'[editor'[f].of] # 0 /\ budgets'[editor'[f].row.to] = 0
                 /\ editor'[f].row.moved = editor'[f].row.seen
                 /\ \A q \in editor'[f].row.moved :
                       charges'[q] # NoRecord /\ charges'[q].code = editor'[f].of
        <3>1. CASE f = e
            BY <1>5, <1>7, <1>8, <1>10, <1>11, <1>14, <3>1 DEF Standing
        <3>2. CASE f # e
            BY <1>1, <1>10, <1>11, <2>2, <3>2 DEF RenamesSound, Standing
        <3> QED
            BY <3>1, <3>2
    <2>3. ASSUME NEW f \in Editors, NEW g \in Editors, f # g,
                 editor'[f].op = "moved", editor'[g].op = "moved"
          PROVE  /\ editor'[f].of # editor'[g].of /\ editor'[f].of # editor'[g].row.to
                 /\ editor'[f].row.to # editor'[g].row.to
        <3>1. CASE f = e
            BY <1>7, <1>8, <1>10, <1>13, <2>3, <3>1
        <3>2. CASE g = e
            BY <1>7, <1>8, <1>10, <1>13, <2>3, <3>2
        <3>3. CASE f # e /\ g # e
            BY <1>1, <1>10, <2>3, <3>3 DEF RenamesSound
        <3> QED
            BY <3>1, <3>2, <3>3
    <2> QED
        BY <2>1, <2>2, <2>3 DEF RenamesSound, Standing
<1>16. \A f \in Editors : editor'[f].op \in {"duty", "closeout"} => editor'[f] = editor[f]
    BY <1>8, <1>10
<1>17. RecordInv'
    BY <1>1, <1>5, <1>16, RecordsQuiet
<1> QED
    BY <1>10, <1>12, <1>15, <1>17 DEF RegInv, BudgetInv

\* A requisition that is made loose, or not.
LEMMA Loosened ==
    ASSUME NEW row \in ChargeRow
    PROVE  /\ [row EXCEPT !.loose = TRUE] \in ChargeRow
           /\ [row EXCEPT !.loose = TRUE].loose = TRUE
           /\ [row EXCEPT !.loose = TRUE].code = row.code
BY DEF ChargeRow

LEMMA Recoded ==
    ASSUME NEW row \in ChargeRow, NEW to \in Codes
    PROVE  /\ [row EXCEPT !.code = to] \in ChargeRow
           /\ [row EXCEPT !.code = to].code = to
           /\ [row EXCEPT !.code = to].line = row.line
           /\ [row EXCEPT !.code = to].loose = row.loose
BY DEF ChargeRow

\* A line is deleted: what is charged to it is loose.
LEMMA DeleteStep ==
    ASSUME RegInv, NEW c \in Codes, DeleteBudget(c)
    PROVE  RegInv'
<1>1. /\ ~LockedCode(c) /\ budgets' = [budgets EXCEPT ![c] = 0]
      /\ charges' = [q \in Charges |->
            IF q \in ChargedTo(c) THEN [charges[q] EXCEPT !.loose = TRUE] ELSE charges[q]]
      /\ lines' = lines /\ editor' = editor /\ UNCHANGED recordVars
    BY DEF DeleteBudget
<1>2. BudgetInv /\ BudgetsOK /\ RecordInv /\ EditorsOK /\ RenamesSound /\ ChargesSound
    BY DEF RegInv, BudgetInv
<1>3. /\ budgets' \in [Codes -> Nat]
      /\ \A k \in Codes : k # c => budgets'[k] = budgets[k]
      /\ budgets'[c] = 0
    BY <1>1, <1>2 DEF BudgetsOK
<1>4. ASSUME NEW q \in Charges
      PROVE  /\ charges'[q] \in ChargeRow \cup {NoRecord}
             /\ charges'[q] # NoRecord <=> charges[q] # NoRecord
             /\ charges'[q] # NoRecord => charges'[q].code = charges[q].code
             /\ charges'[q] # NoRecord /\ ~charges'[q].loose =>
                   ~charges[q].loose /\ charges[q].code # c /\ charges'[q] = charges[q]
    <2>1. CASE q \in ChargedTo(c)
        <3>1. charges[q] \in ChargeRow /\ charges[q] # NoRecord
            BY <1>2, <2>1 DEF ChargedTo, BudgetsOK
        <3>2. charges'[q] = [charges[q] EXCEPT !.loose = TRUE]
            BY <1>1, <2>1
        <3> QED
            BY <3>1, <3>2, Loosened, RegAssumption
    <2>2. CASE q \notin ChargedTo(c)
        <3>1. charges'[q] = charges[q] /\ (charges[q] # NoRecord => charges[q].code # c)
            BY <1>1, <2>2 DEF ChargedTo
        <3> QED
            BY <1>2, <3>1 DEF BudgetsOK
    <2> QED
        BY <2>1, <2>2
<1>5. BudgetsOK'
    <2>1. charges' \in [Charges -> ChargeRow \cup {NoRecord}]
        BY <1>1, <1>4
    <2> QED
        BY <1>1, <1>2, <1>3, <2>1 DEF BudgetsOK
<1>6. ChargesSound'
    <2>1. ASSUME NEW q \in Charges, charges'[q] # NoRecord, ~charges'[q].loose
          PROVE  budgets'[charges'[q].code] # 0 /\ budgets'[charges'[q].code] = charges'[q].line
        <3>1. /\ charges'[q] = charges[q] /\ charges[q].code # c
              /\ charges[q] # NoRecord /\ ~charges[q].loose
            BY <1>4, <2>1
        <3>2. charges[q].code \in Codes
            BY <1>2, <3>1 DEF BudgetsOK, ChargeRow
        <3> QED
            BY <1>2, <1>3, <3>1, <3>2 DEF ChargesSound, Standing
    <2> QED
        BY <2>1 DEF ChargesSound, Standing
<1>7. RenamesSound'
    <2>1. ASSUME NEW e \in Editors, editor[e].op = "charge"
          PROVE  charges'[editor[e].of] # NoRecord
        <3>1. editor[e].of \in Charges
            BY <1>2, <2>1, HoldingParts DEF EditorsOK
        <3> QED
            BY <1>2, <1>4, <2>1, <3>1 DEF RenamesSound
    <2>2. ASSUME NEW e \in Editors, editor[e].op = "moved"
          PROVE  /\ budgets'[editor[e].of] # 0 /\ budgets'[editor[e].row.to] = 0
                 /\ editor[e].row.moved = editor[e].row.seen
                 /\ \A q \in editor[e].row.moved :
                       charges'[q] # NoRecord /\ charges'[q].code = editor[e].of
        <3>1. /\ editor[e].of \in Codes /\ editor[e].row.to \in Codes
              /\ editor[e].of # c /\ editor[e].row.to # c
              /\ editor[e].row.moved \in SUBSET Charges
            BY <1>1, <1>2, <2>2, HoldingParts DEF EditorsOK, LockedCode
        <3>2. /\ budgets[editor[e].of] # 0 /\ budgets[editor[e].row.to] = 0
              /\ editor[e].row.moved = editor[e].row.seen
              /\ \A q \in editor[e].row.moved :
                    charges[q] # NoRecord /\ charges[q].code = editor[e].of
            BY <1>2, <2>2 DEF RenamesSound, Standing
        <3> QED
            BY <1>3, <1>4, <3>1, <3>2
    <2>3. \A e, f \in Editors :
              editor[e].op = "moved" /\ editor[f].op = "moved" /\ e # f =>
                 /\ editor[e].of # editor[f].of /\ editor[e].of # editor[f].row.to
                 /\ editor[e].row.to # editor[f].row.to
        BY <1>2 DEF RenamesSound
    <2>4. editor' = editor
        BY <1>1
    <2> QED
        BY <2>1, <2>2, <2>3, <2>4 DEF RenamesSound, Standing
<1>8. RecordInv'
    BY <1>1, <1>2, RecordsQuiet
<1> QED
    BY <1>1, <1>2, <1>5, <1>6, <1>7, <1>8 DEF RegInv, BudgetInv, EditorsOK

\* A rename is committed: the line stands under the new code, and so do the
\* requisitions it repointed; one charged to the old code in between is loose.
LEMMA RenameStep ==
    ASSUME RegInv, NEW e \in Editors, RenameBudget(e)
    PROVE  RegInv'
<1>1. BudgetInv /\ BudgetsOK /\ RecordInv /\ EditorsOK /\ RenamesSound /\ ChargesSound
    BY DEF RegInv, BudgetInv
<1>2. editor[e].op = "moved" /\ Release(e) /\ lines' = lines /\ UNCHANGED recordVars
    BY DEF RenameBudget
<1>3. PICK from \in Codes, to \in Codes, moved \in SUBSET Charges :
          from = editor[e].of /\ to = editor[e].row.to /\ moved = editor[e].row.moved
    BY <1>1, <1>2, HoldingParts DEF EditorsOK
<1>4. /\ Standing(from) /\ ~Standing(to) /\ from # to /\ moved = editor[e].row.seen
      /\ \A q \in moved : charges[q] # NoRecord /\ charges[q].code = from
    BY <1>1, <1>2, <1>3 DEF RenamesSound
<1>5. /\ budgets' = [budgets EXCEPT ![from] = 0, ![to] = budgets[from]]
      /\ charges' = [q \in Charges |->
            IF q \in moved THEN [charges[q] EXCEPT !.code = to]
            ELSE IF q \in ChargedTo(from) \ moved THEN [charges[q] EXCEPT !.loose = TRUE]
            ELSE charges[q]]
    BY <1>3, <1>4 DEF RenameBudget
<1>6. /\ budgets' \in [Codes -> Nat]
      /\ budgets'[from] = 0 /\ budgets'[to] = budgets[from] /\ budgets[from] # 0
      /\ \A k \in Codes : k # from /\ k # to => budgets'[k] = budgets[k]
    BY <1>1, <1>4, <1>5 DEF BudgetsOK, Standing
<1>7. ASSUME NEW q \in Charges
      PROVE  /\ charges'[q] \in ChargeRow \cup {NoRecord}
             /\ charges'[q] # NoRecord <=> charges[q] # NoRecord
             /\ charges'[q] # NoRecord =>
                   charges'[q].code = IF q \in moved THEN to ELSE charges[q].code
             /\ charges'[q] # NoRecord /\ ~charges'[q].loose =>
                   /\ ~charges[q].loose /\ charges'[q].line = charges[q].line
                   /\ q \notin moved => charges[q].code # from
    <2>1. CASE q \in moved
        <3>1. charges[q] \in ChargeRow /\ charges[q] # NoRecord
            BY <1>1, <1>4, <2>1 DEF BudgetsOK
        <3>2. charges'[q] = [charges[q] EXCEPT !.code = to]
            BY <1>5, <2>1
        <3> QED
            BY <2>1, <3>1, <3>2, Recoded, RegAssumption
    <2>2. CASE q \in ChargedTo(from) \ moved
        <3>1. charges[q] \in ChargeRow /\ charges[q] # NoRecord
            BY <1>1, <2>2 DEF BudgetsOK, ChargedTo
        <3>2. charges'[q] = [charges[q] EXCEPT !.loose = TRUE]
            BY <1>5, <2>2
        <3> QED
            BY <2>2, <3>1, <3>2, Loosened, RegAssumption
    <2>3. CASE q \notin moved /\ q \notin ChargedTo(from)
        <3>1. charges'[q] = charges[q] /\ (charges[q] # NoRecord => charges[q].code # from)
            BY <1>5, <2>3 DEF ChargedTo
        <3> QED
            BY <1>1, <2>3, <3>1 DEF BudgetsOK
    <2> QED
        BY <2>1, <2>2, <2>3
<1>8. BudgetsOK'
    <2>1. charges' \in [Charges -> ChargeRow \cup {NoRecord}]
        BY <1>5, <1>7
    <2> QED
        BY <1>1, <1>2, <1>6, <2>1 DEF BudgetsOK
<1>9. ChargesSound'
    <2>1. ASSUME NEW q \in Charges, charges'[q] # NoRecord, ~charges'[q].loose
          PROVE  budgets'[charges'[q].code] # 0 /\ budgets'[charges'[q].code] = charges'[q].line
        <3>1. /\ charges[q] # NoRecord /\ ~charges[q].loose /\ charges'[q].line = charges[q].line
              /\ charges'[q].code = IF q \in moved THEN to ELSE charges[q].code
              /\ q \notin moved => charges[q].code # from
            BY <1>7, <2>1
        <3>2. /\ charges[q].code \in Codes /\ budgets[charges[q].code] # 0
              /\ budgets[charges[q].code] = charges[q].line
            BY <1>1, <3>1 DEF ChargesSound, Standing, BudgetsOK, ChargeRow
        <3>3. CASE q \in moved
            BY <1>4, <1>6, <3>1, <3>2, <3>3
        <3>4. CASE q \notin moved
            <4>1. charges[q].code # from /\ charges[q].code # to
                BY <1>4, <3>1, <3>2, <3>4 DEF Standing
            <4> QED
                BY <1>6, <3>1, <3>2, <3>4, <4>1
        <3> QED
            BY <3>3, <3>4
    <2> QED
        BY <2>1 DEF ChargesSound, Standing
<1>10. /\ EditorsOK' /\ editor'[e].op = "idle"
       /\ \A f \in Editors : f # e => editor'[f] = editor[f]
    BY <1>1, <1>2, Released
<1>11. RenamesSound'
    <2>1. ASSUME NEW f \in Editors, editor'[f].op = "charge"
          PROVE  charges'[editor'[f].of] # NoRecord
        <3>1. editor'[f] = editor[f] /\ editor[f].of \in Charges /\ editor[f].op = "charge"
            BY <1>1, <1>10, <2>1, HoldingParts DEF EditorsOK
        <3> QED
            BY <1>1, <1>7, <3>1 DEF RenamesSound
    <2>2. ASSUME NEW f \in Editors, editor'[f].op = "moved"
          PROVE  /\ budgets'[editor'[f].of] # 0 /\ budgets'[editor'[f].row.to] = 0
                 /\ editor'[f].row.moved = editor'[f].row.seen
                 /\ \A q \in editor'[f].row.moved :
                       charges'[q] # NoRecord /\ charges'[q].code = editor'[f].of
        <3>1. f # e /\ editor'[f] = editor[f] /\ editor[f].op = "moved"
            BY <1>10, <2>2
        <3>2. /\ editor[f].of \in Codes /\ editor[f].row.to \in Codes
              /\ editor[f].row.moved \in SUBSET Charges
            BY <1>1, <3>1, HoldingParts DEF EditorsOK
        <3>3. /\ editor[f].of # from /\ editor[f].of # to
              /\ editor[f].row.to # from /\ editor[f].row.to # to
            BY <1>1, <1>2, <1>3, <3>1 DEF RenamesSound
        <3>4. /\ budgets[editor[f].of] # 0 /\ budgets[editor[f].row.to] = 0
              /\ editor[f].row.moved = editor[f].row.seen
              /\ \A q \in editor[f].row.moved :
                    charges[q] # NoRecord /\ charges[q].code = editor[f].of
            BY <1>1, <3>1 DEF RenamesSound, Standing
        <3>5. \A q \in editor[f].row.moved : q \notin moved
            BY <1>4, <3>3, <3>4
        <3> QED
            BY <1>6, <1>7, <3>1, <3>2, <3>3, <3>4, <3>5
    <2>3. ASSUME NEW f \in Editors, NEW g \in Editors, f # g,
                 editor'[f].op = "moved", editor'[g].op = "moved"
          PROVE  /\ editor'[f].of # editor'[g].of /\ editor'[f].of # editor'[g].row.to
                 /\ editor'[f].row.to # editor'[g].row.to
        BY <1>1, <1>10, <2>3 DEF RenamesSound
    <2> QED
        BY <2>1, <2>2, <2>3 DEF RenamesSound, Standing
<1>12. \A f \in Editors : editor'[f].op \in {"duty", "closeout"} => editor'[f] = editor[f]
    BY <1>10
<1>13. RecordInv'
    BY <1>1, <1>2, <1>12, RecordsQuiet
<1> QED
    BY <1>8, <1>9, <1>10, <1>11, <1>13 DEF RegInv, BudgetInv

-----------------------------------------------------------------------------
(* Obligations and closeouts.                                               *)

\* Whatever the text, its status is one of five, and a status is the text of itself.
LEMMA NormalStatus ==
    /\ \A text : NormalizeObligationStatus(text)
                    \in {"Open", "In Progress", "Overdue", "Met", "Waived"}
    /\ \A s \in {"Open", "In Progress", "Overdue", "Met", "Waived"} :
          NormalizeObligationStatus(s) = s
<1>1. \A text : NormalizeObligationStatus(text)
                   \in {"Open", "In Progress", "Overdue", "Met", "Waived"}
    BY Zenon DEF NormalizeObligationStatus
<1>2. NormalizeObligationStatus("Open") = "Open"
    BY Zenon DEF NormalizeObligationStatus
<1>3. NormalizeObligationStatus("In Progress") = "In Progress"
    BY Zenon DEF NormalizeObligationStatus
<1>4. NormalizeObligationStatus("Overdue") = "Overdue"
    BY Zenon DEF NormalizeObligationStatus
<1>5. NormalizeObligationStatus("Met") = "Met"
    BY Zenon DEF NormalizeObligationStatus
<1>6. NormalizeObligationStatus("Waived") = "Waived"
    BY Zenon DEF NormalizeObligationStatus
<1> QED
    BY <1>1, <1>2, <1>3, <1>4, <1>5, <1>6, Zenon

\* A patched obligation is one.
LEMMA PatchedDuty ==
    ASSUME deals \in SUBSET Deals, NEW row \in DutyRow, NEW in \in DutyPatches
    PROVE  Patched(row, in) \in DutyRow
<1> DEFINE Statuses == {"Open", "In Progress", "Overdue", "Met", "Waived"}
<1>1. DOMAIN row = {"deal", "status"} /\ row.deal \in Deals /\ row.status \in Statuses
    BY DEF DutyRow
<1>2. /\ "deal" \in DOMAIN in => in["deal"] \in Deals
      /\ "status" \in DOMAIN in => in["status"] \in Statuses
    <2>1. CASE in = <<>>
        BY <2>1
    <2>2. CASE in \in [deal : deals]
        BY <2>2
    <2>3. CASE in \in [status : {NormalizeObligationStatus(text) : text \in DutyTexts}]
        BY <2>3, NormalStatus
    <2>4. CASE in \in [deal : deals, status : {NormalizeObligationStatus(text) : text \in DutyTexts}]
        BY <2>4, NormalStatus
    <2> QED
        BY <2>1, <2>2, <2>3, <2>4 DEF DutyPatches
<1> QED
    BY <1>1, <1>2 DEF Patched, DutyRow

\* A patched checklist is one.
LEMMA PatchedCloseout ==
    ASSUME NEW row \in CloseoutRow, NEW in \in CloseoutPatches
    PROVE  Patched(row, in) \in CloseoutRow
<1>1. \A x \in DOMAIN in : in[x] \in {"Open", "Closed", "yes", "no"}
    BY DEF CloseoutPatches
<1> QED
    BY <1>1 DEF Patched, CloseoutRow

LEMMA NoCloseoutRow == NoCloseout \in CloseoutRow
BY DEF NoCloseout, CloseoutRow

\* The obligations, their decisions and the excuses change, and a request with them.
LEMMA DutyWritten ==
    ASSUME RecordInv, NEW o \in Duties, NEW row \in DutyRow \cup {NoRecord},
           NEW last \in DutyRow \cup {NoRecord},
           deals' = deals, closeouts' = closeouts,
           duties' = [duties EXCEPT ![o] = row], given' = [given EXCEPT ![o] = last],
           excused \subseteq excused', excused' \in SUBSET (Duties \cup Deals),
           excused' \cap Deals = excused \cap Deals,
           row # NoRecord => last # NoRecord /\ (o \notin excused' => row = last),
           \A e \in Editors : editor'[e].op = "duty" =>
              /\ editor'[e] = editor[e]
              /\ editor[e].of = o => last # NoRecord /\ (o \notin excused' => last = given[o]),
           \A e \in Editors : editor'[e].op = "closeout" =>
              editor'[e] = editor[e] /\ editor[e].of \in Deals,
           \A e \in Editors : editor[e].op = "duty" => editor[e].of \in Duties
    PROVE  RecordInv'
<1>1. RecordsOK /\ RecordsSound /\ Duties \cap Deals = {}
    BY RegAssumption DEF RecordInv
<1>2. /\ duties' \in [Duties -> DutyRow \cup {NoRecord}] /\ duties'[o] = row
      /\ \A p \in Duties : p # o => duties'[p] = duties[p]
    BY <1>1 DEF RecordsOK
<1>3. /\ given' \in [Duties \cup Deals -> DutyRow \cup CloseoutRow \cup {NoRecord}]
      /\ given'[o] = last
      /\ \A x \in Duties \cup Deals : x # o => given'[x] = given[x]
    BY <1>1 DEF RecordsOK
<1>4. RecordsOK'
    BY <1>1, <1>2, <1>3 DEF RecordsOK
<1>5. \A p \in Duties : duties'[p] # NoRecord =>
          given'[p] # NoRecord /\ (p \notin excused' => duties'[p] = given'[p])
    BY <1>1, <1>2, <1>3 DEF RecordsSound
<1>6. \A d \in deals' \ excused' : given'[d] = Closeout(d)'
    <2>1. \A d \in deals' \ excused' : d \in deals \ excused /\ d \in Deals /\ d # o
        BY <1>1 DEF RecordsOK
    <2> QED
        BY <1>1, <1>3, <2>1 DEF RecordsSound, Closeout
<1>7. ASSUME NEW e \in Editors, editor'[e].op = "duty"
      PROVE  /\ given'[editor'[e].of] # NoRecord
             /\ editor'[e].of \notin excused' => editor'[e].row = given'[editor'[e].of]
    <2>1. editor'[e] = editor[e] /\ editor[e].op = "duty" /\ editor[e].of \in Duties
        BY <1>7
    <2>2. /\ given[editor[e].of] # NoRecord
          /\ editor[e].of \notin excused => editor[e].row = given[editor[e].of]
        BY <1>1, <2>1 DEF RecordsSound
    <2>3. CASE editor[e].of = o
        BY <1>3, <1>7, <2>1, <2>2, <2>3
    <2>4. CASE editor[e].of # o
        BY <1>3, <2>1, <2>2, <2>4
    <2> QED
        BY <2>3, <2>4
<1>8. ASSUME NEW e \in Editors, editor'[e].op = "closeout", editor'[e].of \in deals' \ excused'
      PROVE  editor'[e].row = given'[editor'[e].of]
    <2>1. editor'[e] = editor[e] /\ editor[e].of \in Deals /\ editor[e].of # o
        BY <1>1, <1>8
    <2>2. editor[e].of \in deals \ excused
        BY <1>8, <2>1
    <2> QED
        BY <1>1, <1>3, <1>8, <2>1, <2>2 DEF RecordsSound
<1>9. RecordsSound'
    BY <1>5, <1>6, <1>7, <1>8 DEF RecordsSound
<1> QED
    BY <1>4, <1>9 DEF RecordInv

LEMMA CreateObligationStep ==
    ASSUME RegInv, NEW o \in Duties, CreateObligation(o)
    PROVE  RegInv'
<1>1. /\ given[o] = NoRecord /\ deals' = deals /\ closeouts' = closeouts
      /\ editor' = editor /\ excused' = excused /\ UNCHANGED budgetVars
    BY DEF CreateObligation
<1>2. BudgetInv /\ RecordInv /\ EditorsOK /\ RecordsOK /\ RecordsSound
    BY DEF RegInv, RecordInv
<1>3. PICK d \in deals, text \in DutyTexts :
          LET row == [deal |-> d, status |-> NormalizeObligationStatus(text)] IN
          StoreDuty(o, row) /\ GiveDuty(o, row)
    BY DEF CreateObligation
<1>4. PICK status \in {"Open", "In Progress", "Overdue", "Met", "Waived"} :
          status = NormalizeObligationStatus(text)
    BY NormalStatus
<1>5. PICK row : row = [deal |-> d, status |-> status]
    OBVIOUS
<1>6. row \in DutyRow /\ row # NoRecord
    <2>1. d \in Deals
        BY <1>2 DEF RecordsOK
    <2>2. row \in DutyRow
        BY <1>5, <2>1 DEF DutyRow
    <2> QED
        BY <2>2, RegAssumption
<1>7. duties' = [duties EXCEPT ![o] = row] /\ given' = [given EXCEPT ![o] = row]
    BY <1>3, <1>4, <1>5 DEF StoreDuty, GiveDuty
<1>8. \A e \in Editors : /\ editor[e].op = "duty" => editor[e].of \in Duties /\ editor[e].of # o
                         /\ editor[e].op = "closeout" => editor[e].of \in Deals
    BY <1>1, <1>2, HoldingParts DEF EditorsOK, RecordsSound
<1>9. excused' \in SUBSET (Duties \cup Deals)
    BY <1>1, <1>2 DEF RecordsOK
<1>10. RecordInv'
    <2>1. \A e \in Editors : editor'[e].op = "duty" =>
              /\ editor'[e] = editor[e]
              /\ editor[e].of = o => row # NoRecord /\ (o \notin excused' => row = given[o])
        BY <1>1, <1>8
    <2>2. \A e \in Editors : editor'[e].op = "closeout" =>
              editor'[e] = editor[e] /\ editor[e].of \in Deals
        BY <1>1, <1>8
    <2>3. \A e \in Editors : editor[e].op = "duty" => editor[e].of \in Duties
        BY <1>8
    <2>4. excused \subseteq excused' /\ excused' \cap Deals = excused \cap Deals
        BY <1>1
    <2>5. PICK last \in DutyRow \cup {NoRecord} : last = row
        BY <1>6
    <2>6. duties' = [duties EXCEPT ![o] = last] /\ given' = [given EXCEPT ![o] = last]
        BY <1>7, <2>5
    <2>7. \A e \in Editors : editor'[e].op = "duty" =>
              /\ editor'[e] = editor[e]
              /\ editor[e].of = o => last # NoRecord /\ (o \notin excused' => last = given[o])
        BY <2>1, <2>5
    <2>8. RecordInv /\ deals' = deals /\ closeouts' = closeouts /\ last # NoRecord
        BY <1>1, <1>2, <1>6, <2>5
    <2> QED
        BY <1>9, <2>2, <2>3, <2>4, <2>6, <2>7, <2>8, DutyWritten
<1> QED
    BY <1>1, <1>2, <1>10, BudgetsQuiet DEF RegInv, EditorsOK

LEMMA PatchObligationStep ==
    ASSUME RegInv, NEW e \in Editors, PatchObligation(e)
    PROVE  RegInv'
<1>1. /\ editor[e].op = "duty" /\ Release(e) /\ Overlapping("duty", editor[e].of, e)
      /\ duties[editor[e].of] # NoRecord
      /\ deals' = deals /\ closeouts' = closeouts /\ UNCHANGED budgetVars
    BY DEF PatchObligation
<1>2. BudgetInv /\ RecordInv /\ EditorsOK /\ RecordsOK /\ RecordsSound
    BY DEF RegInv, RecordInv
<1>3. PICK o \in Duties, read \in DutyRow : o = editor[e].of /\ read = editor[e].row
    BY <1>1, <1>2, HoldingParts DEF EditorsOK
<1>4. PICK in \in DutyPatches :
          /\ duties' = [duties EXCEPT ![o] = Patched(read, in)]
          /\ given' = [given EXCEPT ![o] = Patched(given[o], in)]
    BY <1>3 DEF PatchObligation, StoreDuty, GiveDuty
<1>5. given[o] \in DutyRow
    BY <1>1, <1>2, <1>3 DEF RecordsOK, RecordsSound
<1>6. PICK row \in DutyRow, last \in DutyRow :
          row = Patched(read, in) /\ last = Patched(given[o], in)
    BY <1>2, <1>5, PatchedDuty DEF RecordsOK
<1>7. row # NoRecord /\ last # NoRecord
    BY RegAssumption
<1>8. duties' = [duties EXCEPT ![o] = row] /\ given' = [given EXCEPT ![o] = last]
    BY <1>4, <1>6
<1>9. excused' = IF \E x \in Editors \ {e} : editor[x].op = "duty" /\ editor[x].of = o
                 THEN excused \cup {o} ELSE excused
    BY <1>1, <1>3 DEF Overlapping
<1>10. /\ excused \subseteq excused' /\ excused' \in SUBSET (Duties \cup Deals)
       /\ excused' \cap Deals = excused \cap Deals
    BY <1>2, <1>9, RegAssumption DEF RecordsOK
<1>11. o \notin excused' => row = last
    <2>1. o \notin excused => read = given[o]
        BY <1>1, <1>2, <1>3 DEF RecordsSound
    <2> QED
        BY <1>6, <1>10, <2>1
<1>12. /\ EditorsOK' /\ editor'[e].op = "idle"
       /\ \A f \in Editors : f # e => editor'[f] = editor[f]
    BY <1>1, <1>2, Released
<1>13. ASSUME NEW f \in Editors, editor'[f].op = "duty"
       PROVE  /\ editor'[f] = editor[f]
              /\ editor[f].of = o => last # NoRecord /\ (o \notin excused' => last = given[o])
    <2>1. f # e /\ editor'[f] = editor[f] /\ f \in Editors \ {e}
        BY <1>12, <1>13
    <2>2. editor[f].of = o => o \in excused'
        BY <1>9, <1>13, <2>1
    <2> QED
        BY <1>7, <2>1, <2>2
<1>14. ASSUME NEW f \in Editors, editor'[f].op = "closeout"
       PROVE  editor'[f] = editor[f] /\ editor[f].of \in Deals
    BY <1>2, <1>12, <1>14, HoldingParts DEF EditorsOK
<1>15. \A f \in Editors : editor[f].op = "duty" => editor[f].of \in Duties
    BY <1>2, HoldingParts DEF EditorsOK
<1>16. RecordInv'
    BY <1>1, <1>2, <1>7, <1>8, <1>10, <1>11, <1>13, <1>14, <1>15, DutyWritten
<1>17. \A f \in Editors : editor'[f].op \in {"charge", "moved"} => editor'[f] = editor[f]
    BY <1>12
<1>18. BudgetInv'
    BY <1>1, <1>2, <1>17, BudgetsQuiet
<1> QED
    BY <1>12, <1>16, <1>18 DEF RegInv

LEMMA DeleteObligationStep ==
    ASSUME RegInv, NEW o \in Duties, DeleteObligation(o)
    PROVE  RegInv'
<1>1. /\ duties' = [duties EXCEPT ![o] = NoRecord] /\ given' = given
      /\ deals' = deals /\ closeouts' = closeouts
      /\ editor' = editor /\ excused' = excused /\ UNCHANGED budgetVars
    BY DEF DeleteObligation, StoreDuty
<1>2. BudgetInv /\ RecordInv /\ EditorsOK /\ RecordsOK /\ RecordsSound
    BY DEF RegInv, RecordInv
<1>3. /\ duties' \in [Duties -> DutyRow \cup {NoRecord}]
      /\ \A p \in Duties : duties'[p] # NoRecord => duties'[p] = duties[p] /\ duties[p] # NoRecord
    BY <1>1, <1>2 DEF RecordsOK
<1>4. RecordsOK' /\ RecordsSound'
    BY <1>1, <1>2, <1>3 DEF RecordsOK, RecordsSound, Closeout
<1> QED
    BY <1>1, <1>2, <1>4, BudgetsQuiet DEF RegInv, RecordInv, EditorsOK

\* A request reads an obligation.
LEMMA OpenDutyStep ==
    ASSUME RegInv, NEW e \in Editors, NEW o \in Duties, OpenDuty(e, o)
    PROVE  RegInv'
<1>1. /\ duties[o] # NoRecord /\ Hold(e, "duty", o, duties[o])
      /\ UNCHANGED budgetVars /\ UNCHANGED recordVars
    BY DEF OpenDuty
<1>2. BudgetInv /\ RecordInv /\ EditorsOK /\ RecordsOK /\ RecordsSound
    BY DEF RegInv, RecordInv
<1>3. PICK row \in DutyRow : row = duties[o]
    BY <1>1, <1>2 DEF RecordsOK
<1>4. [op |-> "duty", of |-> o, row |-> row] \in Holding
    BY DEF Holding, ToPatch
<1>5. /\ EditorsOK' /\ editor'[e].op = "duty" /\ editor'[e].of = o /\ editor'[e].row = row
      /\ \A f \in Editors : f # e => editor'[f] = editor[f]
    BY <1>1, <1>2, <1>3, <1>4, Taken
<1>6. \A f \in Editors : editor'[f].op \in {"charge", "moved"} => editor'[f] = editor[f]
    BY <1>5
<1>7. BudgetInv'
    BY <1>1, <1>2, <1>6, BudgetsQuiet
<1>8. /\ deals' = deals /\ duties' = duties /\ closeouts' = closeouts
      /\ given' = given /\ excused' = excused
    BY <1>1 DEF recordVars
<1>9. given[o] # NoRecord /\ (o \notin excused => row = given[o])
    BY <1>1, <1>2, <1>3 DEF RecordsSound
<1>10. RecordsOK' /\ RecordsSound'
    BY <1>2, <1>5, <1>8, <1>9 DEF RecordsOK, RecordsSound, Closeout
<1> QED
    BY <1>5, <1>7, <1>10 DEF RegInv, RecordInv

\* A request reads a checklist, or takes an error for a missing one.
LEMMA OpenCloseoutStep ==
    ASSUME RegInv, NEW e \in Editors, NEW d \in Deals, OpenCloseout(e, d)
    PROVE  RegInv'
<1>1. /\ d \in deals /\ deals' = deals /\ duties' = duties /\ closeouts' = closeouts
      /\ given' = given /\ UNCHANGED budgetVars
      /\ \/ Hold(e, "closeout", d, Closeout(d)) /\ excused' = excused
         \/ Hold(e, "closeout", d, NoCloseout) /\ excused' = excused \cup {d}
    BY DEF OpenCloseout, Closeout
<1>2. BudgetInv /\ RecordInv /\ EditorsOK /\ RecordsOK /\ RecordsSound
    BY DEF RegInv, RecordInv
<1>3. PICK row \in CloseoutRow :
          /\ Hold(e, "closeout", d, row)
          /\ d \notin excused' => row = Closeout(d)
    <2>1. Closeout(d) \in CloseoutRow /\ NoCloseout \in CloseoutRow
        BY <1>2, NoCloseoutRow DEF RecordsOK, Closeout
    <2> QED
        BY <1>1, <2>1
<1>4. [op |-> "closeout", of |-> d, row |-> row] \in Holding
    BY DEF Holding, ToClose
<1>5. /\ EditorsOK' /\ editor'[e].op = "closeout" /\ editor'[e].of = d /\ editor'[e].row = row
      /\ \A f \in Editors : f # e => editor'[f] = editor[f]
    BY <1>2, <1>3, <1>4, Taken
<1>6. \A f \in Editors : editor'[f].op \in {"charge", "moved"} => editor'[f] = editor[f]
    BY <1>5
<1>7. BudgetInv'
    BY <1>1, <1>2, <1>6, BudgetsQuiet
<1>8. excused \subseteq excused' /\ excused' \in SUBSET (Duties \cup Deals)
    BY <1>1, <1>2 DEF RecordsOK
<1>9. RecordsOK'
    BY <1>1, <1>2, <1>8 DEF RecordsOK
<1>10. \A x \in deals \ excused' : given[x] = Closeout(x)
    BY <1>2, <1>8 DEF RecordsSound
<1>11. RecordsSound'
    <2>1. \A f \in Editors : editor'[f].op = "duty" =>
              /\ given[editor'[f].of] # NoRecord
              /\ editor'[f].of \notin excused' => editor'[f].row = given[editor'[f].of]
        BY <1>2, <1>5, <1>8 DEF RecordsSound
    <2>2. ASSUME NEW f \in Editors, editor'[f].op = "closeout", editor'[f].of \in deals \ excused'
          PROVE  editor'[f].row = given[editor'[f].of]
        <3>1. CASE f = e
            BY <1>3, <1>5, <1>10, <2>2, <3>1
        <3>2. CASE f # e
            BY <1>2, <1>5, <1>8, <2>2, <3>2 DEF RecordsSound
        <3> QED
            BY <3>1, <3>2
    <2>3. \A o \in Duties : duties[o] # NoRecord =>
              given[o] # NoRecord /\ (o \notin excused' => duties[o] = given[o])
        BY <1>2, <1>8 DEF RecordsSound
    <2> QED
        BY <1>1, <1>10, <2>1, <2>2, <2>3 DEF RecordsSound, Closeout
<1> QED
    BY <1>5, <1>7, <1>9, <1>11 DEF RegInv, RecordInv

\* A checklist is written.
LEMMA UpsertCloseoutStep ==
    ASSUME RegInv, NEW e \in Editors, UpsertCloseout(e)
    PROVE  RegInv'
<1>1. /\ editor[e].op = "closeout" /\ Release(e) /\ Overlapping("closeout", editor[e].of, e)
      /\ editor[e].of \in deals
      /\ deals' = deals /\ duties' = duties /\ UNCHANGED budgetVars
    BY DEF UpsertCloseout
<1>2. BudgetInv /\ RecordInv /\ EditorsOK /\ RecordsOK /\ RecordsSound
    BY DEF RegInv, RecordInv
<1>3. PICK d \in Deals, read \in CloseoutRow : d = editor[e].of /\ read = editor[e].row
    BY <1>1, <1>2, HoldingParts DEF EditorsOK
<1>4. PICK in \in CloseoutPatches :
          /\ closeouts' = [closeouts EXCEPT ![d] = Patched(read, in)]
          /\ given' = [given EXCEPT ![d] = Patched(@, in)]
    BY <1>3 DEF UpsertCloseout, ApplyCloseout
<1>5. PICK row \in CloseoutRow, last \in CloseoutRow :
          row = Patched(read, in) /\ last = Patched(given[d], in)
    BY <1>2, PatchedCloseout DEF RecordsOK
<1>6. row # NoRecord
    BY RegAssumption
<1>7. /\ closeouts' \in [Deals -> CloseoutRow \cup {NoRecord}] /\ closeouts'[d] = row
      /\ \A x \in Deals : x # d => closeouts'[x] = closeouts[x]
    BY <1>2, <1>4, <1>5 DEF RecordsOK
<1>8. /\ given' \in [Duties \cup Deals -> DutyRow \cup CloseoutRow \cup {NoRecord}]
      /\ given'[d] = last
      /\ \A x \in Duties \cup Deals : x # d => given'[x] = given[x]
    <2>1. given' = [given EXCEPT ![d] = last]
        BY <1>4, <1>5
    <2> QED
        BY <1>2, <2>1 DEF RecordsOK
<1>9. excused' = IF \E x \in Editors \ {e} : editor[x].op = "closeout" /\ editor[x].of = d
                 THEN excused \cup {d} ELSE excused
    BY <1>1, <1>3 DEF Overlapping
<1>10. excused \subseteq excused' /\ excused' \in SUBSET (Duties \cup Deals)
    BY <1>2, <1>9 DEF RecordsOK
<1>11. d \notin excused' => row = last
    <2>1. d \notin excused => read = given[d]
        BY <1>1, <1>2, <1>3 DEF RecordsSound
    <2> QED
        BY <1>5, <1>10, <2>1
<1>12. /\ EditorsOK' /\ editor'[e].op = "idle"
       /\ \A f \in Editors : f # e => editor'[f] = editor[f]
    BY <1>1, <1>2, Released
<1>13. \A o \in Duties : o # d
    BY RegAssumption
<1>14. RecordsOK'
    BY <1>1, <1>2, <1>7, <1>8, <1>10, <1>13 DEF RecordsOK
<1>15. RecordsSound'
    <2>1. \A o \in Duties : duties'[o] # NoRecord =>
              given'[o] # NoRecord /\ (o \notin excused' => duties'[o] = given'[o])
        BY <1>1, <1>2, <1>8, <1>10, <1>13 DEF RecordsSound
    <2>2. ASSUME NEW x \in deals \ excused'
          PROVE  given'[x] = IF closeouts'[x] = NoRecord THEN NoCloseout ELSE closeouts'[x]
        <3>1. x \in Deals /\ x \in deals \ excused
            BY <1>2, <1>10 DEF RecordsOK
        <3>2. CASE x = d
            BY <1>6, <1>7, <1>8, <1>11, <3>2
        <3>3. CASE x # d
            BY <1>2, <1>7, <1>8, <3>1, <3>3 DEF RecordsSound, Closeout
        <3> QED
            BY <3>2, <3>3
    <2>3. ASSUME NEW f \in Editors, editor'[f].op = "duty"
          PROVE  /\ given'[editor'[f].of] # NoRecord
                 /\ editor'[f].of \notin excused' => editor'[f].row = given'[editor'[f].of]
        <3>1. editor'[f] = editor[f] /\ editor[f].of \in Duties /\ editor[f].op = "duty"
            BY <1>2, <1>12, <2>3, HoldingParts DEF EditorsOK
        <3> QED
            BY <1>2, <1>8, <1>10, <1>13, <3>1 DEF RecordsSound
    <2>4. ASSUME NEW f \in Editors, editor'[f].op = "closeout", editor'[f].of \in deals \ excused'
          PROVE  editor'[f].row = given'[editor'[f].of]
        <3>1. f # e /\ editor'[f] = editor[f] /\ editor[f].op = "closeout"
              /\ editor[f].of \in Deals
            BY <1>2, <1>12, <2>4, HoldingParts DEF EditorsOK
        <3>2. editor[f].of # d
            BY <1>9, <2>4, <3>1
        <3>3. editor[f].of \in deals \ excused
            BY <1>10, <2>4, <3>1
        <3> QED
            BY <1>2, <1>8, <3>1, <3>2, <3>3 DEF RecordsSound
    <2> QED
        BY <1>1, <2>1, <2>2, <2>3, <2>4 DEF RecordsSound, Closeout
<1>16. \A f \in Editors : editor'[f].op \in {"charge", "moved"} => editor'[f] = editor[f]
    BY <1>12
<1>17. BudgetInv'
    BY <1>1, <1>2, <1>16, BudgetsQuiet
<1> QED
    BY <1>12, <1>14, <1>15, <1>17 DEF RegInv, RecordInv

\* A contract is deleted with what belongs to it.
LEMMA DeleteDealStep ==
    ASSUME RegInv, NEW d \in Deals, DeleteDeal(d)
    PROVE  RegInv'
<1>1. /\ deals' = deals \ {d} /\ closeouts' = [closeouts EXCEPT ![d] = NoRecord]
      /\ duties' = [o \in Duties |->
            IF duties[o] # NoRecord /\ duties[o].deal = d THEN NoRecord ELSE duties[o]]
      /\ editor' = editor /\ given' = given /\ excused' = excused /\ UNCHANGED budgetVars
    BY DEF DeleteDeal
<1>2. BudgetInv /\ RecordInv /\ EditorsOK /\ RecordsOK /\ RecordsSound
    BY DEF RegInv, RecordInv
<1>3. \A o \in Duties : duties'[o] = NoRecord \/ duties'[o] = duties[o]
    BY <1>1
<1>4. /\ closeouts' \in [Deals -> CloseoutRow \cup {NoRecord}]
      /\ \A x \in Deals : x # d => closeouts'[x] = closeouts[x]
    BY <1>1, <1>2 DEF RecordsOK
<1>5. duties' \in [Duties -> DutyRow \cup {NoRecord}]
    BY <1>1, <1>2 DEF RecordsOK
<1>6. RecordsOK'
    BY <1>1, <1>2, <1>4, <1>5 DEF RecordsOK
<1>7. \A x \in deals' \ excused : given[x] = IF closeouts'[x] = NoRecord THEN NoCloseout ELSE closeouts'[x]
    <2>1. \A x \in deals' : x \in deals /\ x \in Deals /\ x # d
        BY <1>1, <1>2 DEF RecordsOK
    <2> QED
        BY <1>2, <1>4, <2>1 DEF RecordsSound, Closeout
<1>8. RecordsSound'
    <2>1. \A o \in Duties : duties'[o] # NoRecord =>
              given[o] # NoRecord /\ (o \notin excused => duties'[o] = given[o])
        BY <1>2, <1>3 DEF RecordsSound
    <2>2. \A e \in Editors : editor[e].op = "closeout" /\ editor[e].of \in deals' \ excused =>
              editor[e].row = given[editor[e].of]
        BY <1>1, <1>2 DEF RecordsSound
    <2>3. \A e \in Editors : editor[e].op = "duty" =>
              /\ given[editor[e].of] # NoRecord
              /\ editor[e].of \notin excused => editor[e].row = given[editor[e].of]
        BY <1>2 DEF RecordsSound
    <2> QED
        BY <1>1, <1>7, <2>1, <2>2, <2>3 DEF RecordsSound, Closeout
<1>9. BudgetInv'
    BY <1>1, <1>2, BudgetsQuiet
<1> QED
    BY <1>1, <1>2, <1>6, <1>8, <1>9 DEF RegInv, RecordInv, EditorsOK

-----------------------------------------------------------------------------
\* Nothing in either part changes: a rule is written, or the step is a stutter.
LEMMA RegIdle ==
    ASSUME RegInv, UNCHANGED <<budgetVars, editor, recordVars>>
    PROVE  RegInv'
BY BudgetsQuiet, RecordsQuiet DEF RegInv, EditorsOK

LEMMA RegStep ==
    ASSUME RegInv, [RegNext]_regVars
    PROVE  RegInv'
<1>1. CASE BudgetNext
    <2>1. ASSUME NEW e \in Editors, PatchCharge(e) \/ RepointCharges(e) \/ RenameBudget(e)
          PROVE  RegInv'
        BY <2>1, PatchChargeStep, RepointStep, RenameStep
    <2>2. ASSUME NEW e \in Editors, RefuseRename(e) \/ EditorFails(e)
          PROVE  RegInv'
        BY <2>2, LettingGo DEF RefuseRename, EditorFails
    <2>3. ASSUME NEW e \in Editors,
                 (\E q \in Charges : OpenCharge(e, q)) \/ (\E c \in Codes : OpenBudget(e, c))
          PROVE  RegInv'
        <3>1. UNCHANGED <<budgetVars, recordVars>>
            BY <2>3 DEF OpenCharge, OpenBudget
        <3> QED
            BY <2>3, <3>1, OpenStep
    <2>4. ASSUME (\E q \in Charges : ChargeRequisition(q))
                 \/ \E c \in Codes : UpsertBudget(c) \/ DeleteBudget(c)
          PROVE  RegInv'
        BY <2>4, ChargeStep, UpsertStep, DeleteStep
    <2> QED
        BY <1>1, <2>1, <2>2, <2>3, <2>4 DEF BudgetNext
<1>2. CASE ObligationNext
    <2>1. ASSUME NEW e \in Editors, RefuseRecord(e) \/ EditorFails(e)
          PROVE  RegInv'
        BY <2>1, LettingGo DEF RefuseRecord, EditorFails
    <2> QED
        BY <1>2, <2>1, CreateObligationStep, DeleteObligationStep, DeleteDealStep,
           OpenDutyStep, PatchObligationStep DEF ObligationNext
<1>3. CASE CloseoutNext
    <2>1. ASSUME NEW e \in Editors, RefuseRecord(e) \/ EditorFails(e)
          PROVE  RegInv'
        BY <2>1, LettingGo DEF RefuseRecord, EditorFails
    <2> QED
        BY <1>3, <2>1, DeleteDealStep, OpenCloseoutStep, UpsertCloseoutStep DEF CloseoutNext
<1>4. CASE RuleNext
    BY <1>4, RegIdle DEF RuleNext, UpsertApprovalRule, DeleteApprovalRule
<1>5. CASE UNCHANGED regVars
    BY <1>5, RegIdle DEF regVars, budgetVars, recordVars
<1> QED
    BY <1>1, <1>2, <1>3, <1>4, <1>5 DEF RegNext

\* The inductive invariant of the registers.
THEOREM RegistersHeld == RegSpec => []RegInv
<1>1. RegInit => RegInv
    <2> SUFFICES ASSUME RegInit PROVE RegInv
        OBVIOUS
    <2>1. /\ \A e \in Editors : editor[e] = Unused /\ editor[e].op = "idle"
          /\ editor \in [Editors -> Holding]
        BY DEF RegInit, Unused, Holding
    <2>2. BudgetInv
        BY <2>1 DEF RegInit, BudgetInv, BudgetsOK, ChargesSound, RenamesSound
    <2>3. RecordsOK
        <3>1. \A d \in Deals : given[d] = NoCloseout
            BY DEF RegInit
        <3>2. \A o \in Duties : given[o] = NoRecord
            BY RegAssumption DEF RegInit
        <3> QED
            BY <3>1, <3>2, NoCloseoutRow DEF RegInit, RecordsOK
    <2>4. RecordsSound
        BY <2>1 DEF RegInit, RecordsSound, Closeout
    <2> QED
        BY <2>1, <2>2, <2>3, <2>4 DEF RegInv, EditorsOK, RecordInv
<1> QED
    BY <1>1, RegStep, PTL DEF RegSpec

\* A requisition that was not written loose is charged to the line it was meant for,
\* whatever lines were renamed, deleted and opened meanwhile.
THEOREM ChargesKept == RegSpec => []ChargedRight
<1>1. RegInv => ChargedRight
    BY DEF RegInv, BudgetInv, ChargesSound, ChargedRight
<1> QED
    BY <1>1, RegistersHeld, PTL

\* Obligations and closeouts are what users last gave of them, and the badge counts
\* the obligations that are open, unless requests overlapped or a checklist was misread.
THEOREM DecisionsHold == RegSpec => []DecisionsKept
<1>1. RegInv => DecisionsKept
    <2> SUFFICES ASSUME RegInv PROVE DecisionsKept
        OBVIOUS
    <2>1. RecordsOK /\ RecordsSound
        BY DEF RegInv, RecordInv
    <2>2. \A o \in Duties \ excused : duties[o] # NoRecord => duties[o] = given[o]
        BY <2>1 DEF RecordsSound
    <2>3. \A d \in deals \ excused :
              given[d] = IF closeouts[d] = NoRecord THEN NoCloseout ELSE closeouts[d]
        BY <2>1 DEF RecordsSound, Closeout
    <2>4. ASSUME Duties \cap excused = {}
          PROVE  {o \in Duties : duties[o] # NoRecord /\ duties[o].status \notin {"Met", "Waived"}}
                    = {o \in Duties : duties[o] # NoRecord /\ IsObligationOpen(given[o].status)}
        <3>1. ASSUME NEW o \in Duties, duties[o] # NoRecord
              PROVE  IsObligationOpen(given[o].status) <=> duties[o].status \notin {"Met", "Waived"}
            <4>1. duties[o] \in DutyRow /\ given[o] = duties[o]
                BY <2>1, <2>2, <2>4, <3>1 DEF RecordsOK
            <4>2. duties[o].status \in {"Open", "In Progress", "Overdue", "Met", "Waived"}
                BY <4>1 DEF DutyRow
            <4>3. NormalizeObligationStatus(duties[o].status) = duties[o].status
                BY <4>2, NormalStatus, Zenon
            <4> QED
                BY <4>1, <4>3 DEF IsObligationOpen
        <3> QED
            BY <3>1
    <2> QED
        BY <2>2, <2>3, <2>4 DEF DecisionsKept, CountsObligations
<1> QED
    BY <1>1, RegistersHeld, PTL
=============================================================================
