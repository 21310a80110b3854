---------------------------- MODULE PaymentProofs ---------------------------
(***************************************************************************)
(* Proofs about PaymentWorkflow, for any number of milestones, handlers,   *)
(* names and figures, with or without faults.                              *)
(***************************************************************************)
EXTENDS PaymentWorkflow, GovChainProofs, TLAPS

-----------------------------------------------------------------------------
\* Facts about the operators the workflow is built from.

LEMMA ClampRange ==
    ASSUME NEW retention \in Int
    PROVE  Clamp(retention) \in 0 .. 100
BY DEF Clamp

LEMMA PayableType ==
    ASSUME NEW amount \in Int, NEW retention \in Int
    PROVE  Payable(amount, retention) \in Int
BY DEF Payable

LEMMA NewPaymentType ==
    ASSUME NEW amount \in Int, NEW retention \in 0 .. 100
    PROVE  NewPayment(amount, retention) \in PaymentRow
BY PayableType DEF NewPayment, PaymentRow, Stages, Complete, Signer

\* Clearing a desk keeps the row a row and leaves its figures alone.
LEMMA AdvancedType ==
    ASSUME NEW row \in PaymentRow, row.stage < Complete, NEW by \in Names
    PROVE  /\ Advanced(row, by) \in PaymentRow
           /\ Advanced(row, by).stage = row.stage + 1
           /\ FiguresOf(Advanced(row, by)) = FiguresOf(row)
<1>1. row.stage \in Desks /\ row.stage + 1 \in Stages
    BY DEF PaymentRow, Stages, Complete, Desks
<1>2. [row.history EXCEPT ![row.stage] = by] \in [Desks -> Signer]
    BY DEF PaymentRow, Signer
<1> QED
    BY <1>1, <1>2 DEF Advanced, PaymentRow, FiguresOf

LEMMA UpdateChainType ==
    ASSUME NEW stored \in PaymentRow, NEW mine \in PaymentRow
    PROVE  /\ UpdateChain(stored, mine) \in PaymentRow
           /\ UpdateChain(stored, mine).stage = mine.stage
           /\ UpdateChain(stored, mine).history = mine.history
           /\ FiguresOf(UpdateChain(stored, mine)) = FiguresOf(stored)
BY DEF UpdateChain, PaymentRow, FiguresOf

LEMMA UpdateAmountsType ==
    ASSUME NEW stored \in PaymentRow, NEW mine \in PaymentRow
    PROVE  /\ UpdateAmounts(stored, mine) \in PaymentRow
           /\ UpdateAmounts(stored, mine).stage = stored.stage
           /\ UpdateAmounts(stored, mine).history = stored.history
           /\ FiguresOf(UpdateAmounts(stored, mine)) = FiguresOf(mine)
BY DEF UpdateAmounts, PaymentRow, FiguresOf

LEMMA AnnouncementsType ==
    ASSUME NEW m \in Milestones, NEW row \in PaymentRow, NEW currency \in Currencies
    PROVE  Announcements(m, row, currency) \in Seq(Event)
<1> DEFINE event == [type |-> IF row.stage = 3 THEN "authorized" ELSE "paid",
                     of |-> m, payable |-> row.payable, currency |-> currency]
<1>1. event \in Event
    BY DEF Event, PaymentRow
<1>2. <<event>> \in Seq(Event) /\ << >> \in Seq(Event)
    BY <1>1
<1> QED
    BY <1>2 DEF Announcements

LEMMA IdleType == Idle \in Request /\ SnapshotOK(Idle)
<1>1. AnyMilestone \in Milestones
    BY InputsAssumption DEF AnyMilestone
<1> QED
    BY <1>1 DEF Idle, Serving, Request, Ops, SnapshotOK

LEMMA ServingType ==
    ASSUME NEW op \in Ops, NEW m \in Milestones,
           NEW row \in PaymentRow \cup {NoRow}, NEW ms \in MilestoneRow \cup {NoRow}
    PROVE  /\ Serving(op, m, row, ms) \in Request
           /\ Serving(op, m, row, ms).op = op
           /\ Serving(op, m, row, ms).of = m
           /\ Serving(op, m, row, ms).row = row
           /\ Serving(op, m, row, ms).ms = ms
BY DEF Serving, Request

LEMMA PaidRequestType ==
    ASSUME NEW m \in Milestones
    PROVE  /\ Serving("paid", m, NoRow, NoRow) \in Request
           /\ SnapshotOK(Serving("paid", m, NoRow, NoRow))
<1>1. "paid" \in Ops
    BY DEF Ops
<1> QED
    BY <1>1, ServingType DEF SnapshotOK

-----------------------------------------------------------------------------
\* The types of a handler that begins, ends or goes on.

LEMMA BeginType ==
    ASSUME TypeOK, NEW r \in Handlers, NEW request \in Request,
           SnapshotOK(request), Begin(r, request)
    PROVE  /\ handler' \in [Handlers -> Request]
           /\ \A h \in Handlers : SnapshotOK(handler'[h])
BY DEF TypeOK, Begin

LEMMA EndType ==
    ASSUME TypeOK, NEW r \in Handlers, End(r)
    PROVE  /\ handler' \in [Handlers -> Request]
           /\ \A h \in Handlers : SnapshotOK(handler'[h])
BY IdleType DEF TypeOK, End

\* Every variable keeps its type, and what a handler holds stays fit for what it
\* is about to write: rows it read are rows, and a row it is about to advance
\* has a desk left to clear.
THEOREM TypeCorrect == Spec => []TypeOK
<1>1. Init => TypeOK
    <2> SUFFICES ASSUME Init PROVE TypeOK
        OBVIOUS
    <2>1. milestone \in [Milestones -> MilestoneRow \cup {NoRow}]
        BY InputsAssumption DEF Init, MilestoneRow
    <2> QED
        BY <2>1, IdleType DEF Init, TypeOK
<1>2. TypeOK /\ [Next]_vars => TypeOK'
    <2> SUFFICES ASSUME TypeOK, [Next]_vars PROVE TypeOK'
        OBVIOUS
    <2>1. ASSUME NEW r \in Handlers, NEW m \in Milestones, OpenPayment(r, m)
          PROVE  TypeOK'
        <3>1. milestone[m] \in MilestoneRow
            BY <2>1 DEF OpenPayment, TypeOK
        <3> DEFINE request == Serving("create", m, NoRow, milestone[m])
        <3>2. request \in Request /\ SnapshotOK(request)
            BY <3>1, ServingType DEF SnapshotOK, Ops
        <3> QED
            BY <2>1, <3>2, BeginType DEF OpenPayment, TypeOK
    <2>2. ASSUME NEW r \in Handlers, NEW m \in Milestones, OpenCorrection(r, m)
          PROVE  TypeOK'
        <3>1. payment[m] \in PaymentRow /\ payment[m].stage < Complete
            BY <2>2 DEF OpenCorrection, TypeOK, Complete
        <3> DEFINE request == Serving("patch", m, payment[m], NoRow)
        <3>2. request \in Request /\ SnapshotOK(request)
            BY <3>1, ServingType DEF SnapshotOK, Ops
        <3> QED
            BY <2>2, <3>2, BeginType DEF OpenCorrection, TypeOK
    <2>3. ASSUME NEW r \in Handlers, NEW m \in Milestones, OpenAdvance(r, m)
          PROVE  TypeOK'
        <3>1. payment[m] \in PaymentRow /\ payment[m].stage < Complete
            BY <2>3 DEF OpenAdvance, TypeOK
        <3> DEFINE request == Serving("advance", m, payment[m], NoRow)
        <3>2. request \in Request /\ SnapshotOK(request)
            BY <3>1, ServingType DEF SnapshotOK, Ops
        <3> QED
            BY <2>3, <3>2, BeginType DEF OpenAdvance, TypeOK
    <2>4. ASSUME NEW r \in Handlers, NEW m \in Milestones, OpenMilestone(r, m)
          PROVE  TypeOK'
        <3>1. milestone[m] \in MilestoneRow
            BY <2>4 DEF OpenMilestone, TypeOK
        <3> DEFINE request == Serving("milestone", m, NoRow, milestone[m])
        <3>2. request \in Request /\ SnapshotOK(request)
            BY <3>1, ServingType DEF SnapshotOK, Ops
        <3> QED
            BY <2>4, <3>2, BeginType DEF OpenMilestone, TypeOK
    <2>5. ASSUME NEW r \in Handlers, CreatePayment(r)
          PROVE  TypeOK'
        <3> DEFINE m == handler[r].of
        <3>1. m \in Milestones /\ handler[r].ms \in MilestoneRow
            BY <2>5 DEF CreatePayment, TypeOK, Request, SnapshotOK
        <3>2. PICK amount \in AmountInputs \cup {handler[r].ms.value},
                   retention \in RetentionInputs :
                  payment' = [payment EXCEPT ![m] = NewPayment(amount, Clamp(retention))]
            BY <2>5 DEF CreatePayment
        <3>3. amount \in Int /\ retention \in Int
            BY <3>1, InputsAssumption DEF MilestoneRow
        <3>4. NewPayment(amount, Clamp(retention)) \in PaymentRow
            BY <3>3, ClampRange, NewPaymentType
        <3> QED
            BY <2>5, <3>1, <3>2, <3>4, EndType DEF CreatePayment, TypeOK
    <2>6. ASSUME NEW r \in Handlers, PatchPayment(r)
          PROVE  TypeOK'
        <3> DEFINE m == handler[r].of
                   row == handler[r].row
        <3>1. m \in Milestones /\ row \in PaymentRow /\ payment[m] \in PaymentRow
            BY <2>6 DEF PatchPayment, TypeOK, Request, SnapshotOK
        <3>2. PICK amount \in AmountInputs \cup {row.amount},
                   retention \in RetentionInputs \cup {row.retention} :
                  /\ retention \in 0 .. 100
                  /\ payment' = [payment EXCEPT ![m] =
                        UpdateAmounts(payment[m],
                            [row EXCEPT !.amount = amount, !.retention = retention,
                                        !.payable = Payable(amount, retention)])]
            BY <2>6 DEF PatchPayment
        <3>3. amount \in Int /\ Payable(amount, retention) \in Int
            BY <3>1, <3>2, InputsAssumption, PayableType DEF PaymentRow
        <3> DEFINE mine == [row EXCEPT !.amount = amount, !.retention = retention,
                                       !.payable = Payable(amount, retention)]
        <3>4. mine \in PaymentRow
            BY <3>1, <3>2, <3>3 DEF PaymentRow
        <3>5. UpdateAmounts(payment[m], mine) \in PaymentRow
            BY <3>1, <3>4, UpdateAmountsType
        <3> QED
            BY <2>6, <3>1, <3>2, <3>5, EndType DEF PatchPayment, TypeOK
    <2>7. ASSUME NEW r \in Handlers, AdvancePayment(r)
          PROVE  TypeOK'
        <3> DEFINE m == handler[r].of
                   row == handler[r].row
        <3>1. /\ m \in Milestones
              /\ row \in PaymentRow /\ row.stage < Complete
              /\ payment[m] \in PaymentRow
            BY <2>7 DEF AdvancePayment, TypeOK, Request, SnapshotOK
        <3>2. PICK by \in Names, currency \in {ContractCurrency, "UGX"} :
                  /\ payment' = [payment EXCEPT
                                    ![m] = UpdateChain(payment[m], Advanced(row, by))]
                  /\ outbox' = outbox \o
                        Announcements(m, Returned(payment[m], Advanced(row, by)), currency)
                  /\ IF Advanced(row, by).stage = Complete
                     THEN handler' = [handler EXCEPT
                                         ![r] = Serving("paid", m, NoRow, NoRow)]
                     ELSE End(r)
            BY <2>7 DEF AdvancePayment, Enqueue
        <3>3. UpdateChain(payment[m], Advanced(row, by)) \in PaymentRow
            BY <3>1, AdvancedType, UpdateChainType
        <3>4. outbox' \in Seq(Event)
            <4>1. currency \in Currencies
                BY InputsAssumption
            <4> QED
                BY <3>1, <3>2, <3>3, <4>1, AnnouncementsType DEF Returned, TypeOK
        <3>5. /\ handler' \in [Handlers -> Request]
              /\ \A h \in Handlers : SnapshotOK(handler'[h])
            BY <3>1, <3>2, PaidRequestType, EndType DEF TypeOK
        <3> QED
            BY <2>7, <3>1, <3>2, <3>3, <3>4, <3>5 DEF AdvancePayment, TypeOK
    <2>8. ASSUME NEW r \in Handlers, ReadPaidMilestone(r)
          PROVE  TypeOK'
        <3> DEFINE m == handler[r].of
                   request == Serving("flip", m, NoRow, milestone[m])
        <3>1. m \in Milestones /\ milestone[m] \in MilestoneRow
            BY <2>8 DEF ReadPaidMilestone, TypeOK, Request
        <3>2. request \in Request /\ SnapshotOK(request)
            BY <3>1, ServingType DEF SnapshotOK, Ops
        <3> QED
            BY <2>8, <3>2 DEF ReadPaidMilestone, TypeOK
    <2>9. ASSUME NEW r \in Handlers, MarkMilestonePaid(r)
          PROVE  TypeOK'
        <3> DEFINE m == handler[r].of
        <3>1. m \in Milestones /\ handler[r].ms \in MilestoneRow
            BY <2>9 DEF MarkMilestonePaid, TypeOK, Request, SnapshotOK
        <3>2. [handler[r].ms EXCEPT !.status = "Paid"] \in MilestoneRow
            BY <3>1, InputsAssumption DEF MilestoneRow
        <3> QED
            BY <2>9, <3>1, <3>2, EndType DEF MarkMilestonePaid, TypeOK
    <2>10. ASSUME NEW r \in Handlers, PatchMilestone(r)
           PROVE  TypeOK'
        <3> DEFINE m == handler[r].of
        <3>1. m \in Milestones /\ handler[r].ms \in MilestoneRow
            BY <2>10 DEF PatchMilestone, TypeOK, Request, SnapshotOK
        <3>2. PICK status \in MilestoneStatus,
                   value \in AmountInputs \cup {handler[r].ms.value} :
                  milestone' = [milestone EXCEPT
                                   ![m] = [status |-> status, value |-> value]]
            BY <2>10 DEF PatchMilestone
        <3>3. [status |-> status, value |-> value] \in MilestoneRow
            BY <3>1, InputsAssumption DEF MilestoneRow
        <3> QED
            BY <2>10, <3>1, <3>2, <3>3, EndType DEF PatchMilestone, TypeOK
    <2>11. ASSUME NEW r \in Handlers, Refuse(r) \/ Fail(r)
           PROVE  TypeOK'
        BY <2>11, EndType DEF Refuse, Fail, TypeOK
    <2>12. ASSUME NEW m \in Milestones, DeleteMilestone(m)
           PROVE  TypeOK'
        BY <2>12 DEF DeleteMilestone, TypeOK
    <2>13. CASE UNCHANGED vars
        BY <2>13 DEF vars, TypeOK
    <2> QED
        BY <2>1, <2>2, <2>3, <2>4, <2>5, <2>6, <2>7, <2>8, <2>9, <2>10, <2>11,
           <2>12, <2>13 DEF Next
<1> QED
    BY <1>1, <1>2, PTL DEF Spec

-----------------------------------------------------------------------------
\* Clearing the desk at the cursor keeps the chain four-eyed and signed exactly
\* below the cursor.
LEMMA AdvancedSound ==
    ASSUME NEW row \in PaymentRow, row.stage < Complete, NEW by \in Names,
           FourEyes(row.history, row.stage),
           SignedBelow(row.history, row.stage),
           ~SelfSuccession(row.history, row.stage, by)
    PROVE  /\ FourEyes(Advanced(row, by).history, row.stage + 1)
           /\ SignedBelow(Advanced(row, by).history, row.stage + 1)
<1>1. /\ row.stage \in Desks /\ row.history \in [Desks -> Signer]
      /\ Advanced(row, by).history = [row.history EXCEPT ![row.stage] = by]
    BY DEF PaymentRow, Stages, Complete, Desks, Advanced
<1> QED
    BY <1>1, SignedOneMore, ClearedFourEyes

\* The outbox only grows, so what has been announced stays announced.
LEMMA AnnouncedStays ==
    ASSUME TypeOK, NEW events \in Seq(Event), outbox' = outbox \o events,
           NEW m, NEW type, Announced(m, type)
    PROVE  Announced(m, type)'
<1>1. PICK i \in DOMAIN outbox : outbox[i].of = m /\ outbox[i].type = type
    BY DEF Announced
<1>2. i \in DOMAIN outbox' /\ outbox'[i] = outbox[i]
    BY <1>1 DEF TypeOK
<1> QED
    BY <1>1, <1>2 DEF Announced

\* With the bus on, the events of a row just advanced say what its stage says.
LEMMA AnnouncementsAnnounce ==
    ASSUME TypeOK, EventsOn, NEW m \in Milestones, NEW row \in PaymentRow,
           row.stage \in {3, 4}, NEW currency \in Currencies,
           outbox' = outbox \o Announcements(m, row, currency)
    PROVE  /\ row.stage = 3 => Announced(m, "authorized")'
           /\ row.stage = 4 => Announced(m, "paid")'
<1> DEFINE event == [type |-> IF row.stage = 3 THEN "authorized" ELSE "paid",
                     of |-> m, payable |-> row.payable, currency |-> currency]
<1>1. Announcements(m, row, currency) = <<event>> /\ event \in Event
    BY DEF Announcements, Event, PaymentRow
<1>2. outbox \in Seq(Event) /\ outbox' = outbox \o <<event>>
    BY <1>1 DEF TypeOK
<1>3. Len(outbox) + 1 \in DOMAIN outbox' /\ outbox'[Len(outbox) + 1] = event
    BY <1>1, <1>2
<1>4. ASSUME row.stage = 3 PROVE Announced(m, "authorized")'
    BY <1>3, <1>4 DEF Announced
<1>5. ASSUME row.stage = 4 PROVE Announced(m, "paid")'
    BY <1>3, <1>5 DEF Announced
<1> QED
    BY <1>4, <1>5

-----------------------------------------------------------------------------
\* A row stays sound while its chain columns are left alone, or while nothing
\* but the outbox grows.
LEMMA SoundCarries ==
    ASSUME UNCHANGED outbox, NEW m, NEW old, NEW new, RowSound(m, old),
           new.stage = old.stage, new.history = old.history
    PROVE  RowSound(m, new)'
BY DEF RowSound, Announced

LEMMA SoundStays ==
    ASSUME TypeOK, NEW events \in Seq(Event), outbox' = outbox \o events,
           NEW m, NEW row, RowSound(m, row)
    PROVE  RowSound(m, row)'
BY AnnouncedStays DEF RowSound

\* The transaction of an advance leaves a sound row: signed by one desk more than
\* the row the handler held, and announced if its stage asks for it.
LEMMA AdvanceSound ==
    ASSUME TypeOK, NEW m \in Milestones, NEW row \in PaymentRow, row.stage < Complete,
           RowSound(m, row), NEW by \in Names, ~SelfSuccession(row.history, row.stage, by),
           NEW stored \in PaymentRow, NEW currency \in Currencies,
           outbox' = outbox \o
               Announcements(m, UpdateChain(stored, Advanced(row, by)), currency)
    PROVE  RowSound(m, UpdateChain(stored, Advanced(row, by)))'
<1> DEFINE mine == Advanced(row, by)
           new == UpdateChain(stored, mine)
<1>1. mine \in PaymentRow /\ mine.stage = row.stage + 1
    BY AdvancedType
<1>2. new \in PaymentRow /\ new.stage = row.stage + 1 /\ new.history = mine.history
    BY <1>1, UpdateChainType
<1>3. FourEyes(mine.history, row.stage + 1) /\ SignedBelow(mine.history, row.stage + 1)
    BY AdvancedSound DEF RowSound
<1>4. Announcements(m, new, currency) \in Seq(Event)
    BY <1>2, AnnouncementsType
<1>5. row.stage \in Nat
    BY DEF PaymentRow, Stages, Complete
<1> HIDE DEF mine, new
<1>6. ASSUME EventsOn
      PROVE  /\ new.stage >= 3 => Announced(m, "authorized")'
             /\ new.stage = 4 => Announced(m, "paid")'
    <2>1. CASE new.stage = 3
        <3>1. Announced(m, "authorized")'
            BY <1>2, <1>6, <2>1, AnnouncementsAnnounce DEF new, mine
        <3> QED
            BY <2>1, <3>1
    <2>2. CASE new.stage = 4
        <3>1. Announced(m, "paid")'
            BY <1>2, <1>6, <2>2, AnnouncementsAnnounce DEF new, mine
        <3>2. Announced(m, "authorized")
            BY <1>2, <1>5, <1>6, <2>2 DEF RowSound
        <3>3. Announced(m, "authorized")'
            BY <1>4, <3>2, AnnouncedStays DEF new, mine
        <3> QED
            BY <3>1, <3>3
    <2>3. new.stage \in 0 .. 4
        BY <1>2 DEF PaymentRow, Stages, Complete
    <2>4. CASE new.stage < 3
        BY <2>3, <2>4
    <2> QED
        BY <2>1, <2>2, <2>3, <2>4
<1> QED
    BY <1>2, <1>3, <1>6 DEF RowSound, new, mine

\* A handler that begins with a sound row, or with none to advance, and the
\* handlers beside it.
LEMMA HandlersSound ==
    ASSUME TypeOK, RowsSound, UNCHANGED outbox, NEW r \in Handlers,
           NEW request, handler' = [handler EXCEPT ![r] = request],
           request.op = "advance" => RowSound(request.of, request.row)
    PROVE  (\A h \in Handlers :
                handler[h].op = "advance" => RowSound(handler[h].of, handler[h].row))'
<1> SUFFICES ASSUME NEW h \in Handlers, handler'[h].op = "advance"
             PROVE  RowSound(handler[h].of, handler[h].row)'
    OBVIOUS
<1>1. CASE h = r
    <2>1. handler'[h] = request
        BY <1>1 DEF TypeOK
    <2>2. RowSound(request.of, request.row)
        BY <2>1
    <2> QED
        BY <2>1, <2>2 DEF RowSound, Announced
<1>2. CASE h # r
    <2>1. handler'[h] = handler[h]
        BY <1>2 DEF TypeOK
    <2>2. RowSound(handler[h].of, handler[h].row)
        BY <2>1 DEF RowsSound
    <2> QED
        BY <2>1, <2>2 DEF RowSound, Announced
<1> QED
    BY <1>1, <1>2

\* The payments of a step that leaves the chain columns of every row alone.
LEMMA ChainsAlone ==
    ASSUME RowsSound, UNCHANGED outbox,
           \A m \in Milestones : payment'[m] # NoRow =>
               /\ payment[m] # NoRow
               /\ payment'[m].stage = payment[m].stage
               /\ payment'[m].history = payment[m].history
    PROVE  (\A m \in Milestones : payment[m] # NoRow => RowSound(m, payment[m]))'
<1> SUFFICES ASSUME NEW m \in Milestones, payment'[m] # NoRow
             PROVE  RowSound(m, payment[m])'
    OBVIOUS
<1>1. RowSound(m, payment[m])
    BY DEF RowsSound
<1> QED
    BY <1>1 DEF RowSound, Announced

\* A row nobody has signed is sound.
LEMMA FreshSound ==
    ASSUME NEW m, NEW amount, NEW retention
    PROVE  RowSound(m, NewPayment(amount, retention))'
BY DEF RowSound, NewPayment, FourEyes, SignedBelow, Desks

\* Idle and the handlers of the other operations hold nothing to advance.
LEMMA OtherRequests ==
    ASSUME NEW op, op # "advance", NEW m, NEW row, NEW ms
    PROVE  Serving(op, m, row, ms).op # "advance" /\ Idle.op # "advance"
BY DEF Serving, Idle

\* Every stored payment, and every copy a handler is about to advance, is
\* four-eyed, signed exactly below its cursor and announced as far as it has
\* come: AdvancePayment replaces both columns of a chain from one such copy, in
\* the transaction that announces it, and no other action touches a chain.
THEOREM RowsStaySound == Spec => []RowsSound
<1>1. Init => RowsSound
    BY DEF Init, RowsSound, Idle, Serving
<1>2. TypeOK /\ RowsSound /\ [Next]_vars => RowsSound'
    <2> SUFFICES ASSUME TypeOK, RowsSound, [Next]_vars PROVE RowsSound'
        OBVIOUS
    <2>1. ASSUME NEW r \in Handlers, NEW m \in Milestones,
                 OpenPayment(r, m) \/ OpenCorrection(r, m) \/ OpenMilestone(r, m)
          PROVE  RowsSound'
        <3>1. PICK request : /\ request.op # "advance"
                             /\ handler' = [handler EXCEPT ![r] = request]
                             /\ UNCHANGED <<payment, outbox>>
            BY <2>1, OtherRequests
               DEF OpenPayment, OpenCorrection, OpenMilestone, Begin
        <3> QED
            BY <3>1, HandlersSound, ChainsAlone DEF RowsSound
    <2>2. ASSUME NEW r \in Handlers, NEW m \in Milestones, OpenAdvance(r, m)
          PROVE  RowsSound'
        <3> DEFINE request == Serving("advance", m, payment[m], NoRow)
        <3>1. request.of = m /\ request.row = payment[m]
            BY DEF Serving
        <3>2. RowSound(request.of, request.row)
            BY <2>2, <3>1 DEF OpenAdvance, RowsSound
        <3>3. handler' = [handler EXCEPT ![r] = request] /\ UNCHANGED <<payment, outbox>>
            BY <2>2 DEF OpenAdvance, Begin
        <3> QED
            BY <3>2, <3>3, HandlersSound, ChainsAlone DEF RowsSound
    <2>3. ASSUME NEW r \in Handlers, CreatePayment(r)
          PROVE  RowsSound'
        <3> DEFINE m == handler[r].of
        <3>1. PICK amount, retention :
                  payment' = [payment EXCEPT ![m] = NewPayment(amount, Clamp(retention))]
            BY <2>3 DEF CreatePayment
        <3>2. handler' = [handler EXCEPT ![r] = Idle] /\ UNCHANGED outbox
            BY <2>3 DEF CreatePayment, End
        <3>3. ASSUME NEW n \in Milestones, payment'[n] # NoRow
              PROVE  RowSound(n, payment[n])'
            <4>1. CASE n = m
                <5>1. payment'[n] = NewPayment(amount, Clamp(retention))
                    BY <3>1, <4>1 DEF TypeOK
                <5> QED
                    BY <5>1, FreshSound DEF RowSound
            <4>2. CASE n # m
                <5>1. payment'[n] = payment[n]
                    BY <3>1, <4>2 DEF TypeOK
                <5>2. RowSound(n, payment[n])
                    BY <3>3, <5>1 DEF RowsSound
                <5> QED
                    BY <3>2, <5>1, <5>2 DEF RowSound, Announced
            <4> QED
                BY <4>1, <4>2
        <3>4. Idle.op # "advance"
            BY DEF Idle, Serving
        <3> QED
            BY <3>2, <3>3, <3>4, HandlersSound DEF RowsSound
    <2>4. ASSUME NEW r \in Handlers, PatchPayment(r)
          PROVE  RowsSound'
        <3> DEFINE m == handler[r].of
        <3>1. m \in Milestones /\ payment[m] \in PaymentRow
            BY <2>4 DEF PatchPayment, TypeOK, Request
        <3>2. PICK mine : payment' = [payment EXCEPT ![m] = UpdateAmounts(payment[m], mine)]
            BY <2>4 DEF PatchPayment
        <3>3. /\ UpdateAmounts(payment[m], mine).stage = payment[m].stage
              /\ UpdateAmounts(payment[m], mine).history = payment[m].history
            BY <3>1 DEF UpdateAmounts, PaymentRow
        <3>4. \A n \in Milestones : payment'[n] # NoRow =>
                  /\ payment[n] # NoRow
                  /\ payment'[n].stage = payment[n].stage
                  /\ payment'[n].history = payment[n].history
            BY <2>4, <3>1, <3>2, <3>3 DEF PatchPayment, TypeOK
        <3>5. /\ handler' = [handler EXCEPT ![r] = Idle] /\ UNCHANGED outbox
              /\ Idle.op # "advance"
            BY <2>4 DEF PatchPayment, End, Idle, Serving
        <3> QED
            BY <3>4, <3>5, HandlersSound, ChainsAlone DEF RowsSound
    <2>5. ASSUME NEW r \in Handlers, AdvancePayment(r)
          PROVE  RowsSound'
        <3> DEFINE m == handler[r].of
                   row == handler[r].row
        <3>1. /\ m \in Milestones
              /\ row \in PaymentRow /\ row.stage < Complete
              /\ payment[m] \in PaymentRow
              /\ RowSound(m, row)
            BY <2>5 DEF AdvancePayment, TypeOK, Request, SnapshotOK, RowsSound
        <3>2. PICK by \in Names, currency \in {ContractCurrency, "UGX"} :
                  /\ ~SelfSuccession(row.history, row.stage, by)
                  /\ payment' = [payment EXCEPT
                                    ![m] = UpdateChain(payment[m], Advanced(row, by))]
                  /\ outbox' = outbox \o
                        Announcements(m, UpdateChain(payment[m], Advanced(row, by)), currency)
                  /\ IF Advanced(row, by).stage = Complete
                     THEN handler' = [handler EXCEPT
                                         ![r] = Serving("paid", m, NoRow, NoRow)]
                     ELSE handler' = [handler EXCEPT ![r] = Idle]
            BY <2>5 DEF AdvancePayment, Enqueue, Returned, End
        <3> DEFINE new == UpdateChain(payment[m], Advanced(row, by))
                   events == Announcements(m, new, currency)
        <3>3. currency \in Currencies
            BY InputsAssumption
        <3>4. events \in Seq(Event) /\ outbox' = outbox \o events
            BY <3>1, <3>2, <3>3, AdvancedType, UpdateChainType, AnnouncementsType
        <3>5. ASSUME NEW n \in Milestones, payment'[n] # NoRow
              PROVE  RowSound(n, payment[n])'
            <4>1. CASE n = m
                <5>1. payment'[n] = new
                    BY <3>1, <3>2, <4>1 DEF TypeOK
                <5>2. PICK mine \in PaymentRow, stored \in PaymentRow :
                          mine = row /\ stored = payment[n]
                    BY <3>1, <4>1
                <5>3. RowSound(n, UpdateChain(stored, Advanced(mine, by)))'
                    BY <3>1, <3>2, <3>3, <4>1, <5>2, AdvanceSound
                <5>4. payment'[n] = UpdateChain(stored, Advanced(mine, by))
                    BY <4>1, <5>1, <5>2
                <5> QED
                    BY <5>3, <5>4 DEF RowSound
            <4>2. CASE n # m
                <5>1. payment'[n] = payment[n]
                    BY <3>2, <4>2 DEF TypeOK
                <5>2. RowSound(n, payment[n])
                    BY <3>5, <5>1 DEF RowsSound
                <5> QED
                    BY <3>4, <5>1, <5>2, AnnouncedStays DEF RowSound
            <4> QED
                BY <4>1, <4>2
        <3>6. ASSUME NEW h \in Handlers, handler'[h].op = "advance"
              PROVE  RowSound(handler[h].of, handler[h].row)'
            <4>1. handler'[h] = handler[h]
                BY <3>2, <3>6 DEF TypeOK, Serving, Idle
            <4>2. RowSound(handler[h].of, handler[h].row)
                BY <3>6, <4>1 DEF RowsSound
            <4> QED
                BY <3>4, <4>1, <4>2, AnnouncedStays DEF RowSound
        <3> QED
            BY <3>5, <3>6 DEF RowsSound
    <2>6. ASSUME NEW r \in Handlers,
                 \/ ReadPaidMilestone(r) \/ MarkMilestonePaid(r)
                 \/ PatchMilestone(r) \/ Refuse(r) \/ Fail(r)
          PROVE  RowsSound'
        <3>1. PICK request : /\ request.op # "advance"
                             /\ handler' = [handler EXCEPT ![r] = request]
                             /\ UNCHANGED <<payment, outbox>>
            BY <2>6, OtherRequests
               DEF ReadPaidMilestone, MarkMilestonePaid, PatchMilestone, Refuse, Fail, End
        <3> QED
            BY <3>1, HandlersSound, ChainsAlone DEF RowsSound
    <2>7. ASSUME NEW m \in Milestones, DeleteMilestone(m)
          PROVE  RowsSound'
        <3>1. /\ \A n \in Milestones : payment'[n] # NoRow => payment'[n] = payment[n]
              /\ UNCHANGED <<outbox, handler>>
            BY <2>7 DEF DeleteMilestone, TypeOK
        <3>2. (\A n \in Milestones : payment[n] # NoRow => RowSound(n, payment[n]))'
            BY <3>1, ChainsAlone
        <3> QED
            BY <3>1, <3>2 DEF RowsSound, RowSound, Announced
    <2>8. CASE UNCHANGED vars
        BY <2>8 DEF vars, RowsSound, RowSound, Announced
    <2> QED
        BY <2>1, <2>2, <2>3, <2>4, <2>5, <2>6, <2>7, <2>8 DEF Next
<1> QED
    BY <1>1, <1>2, TypeCorrect, PTL DEF Spec

\* Segregation of duties holds of every stored payment, for any number of
\* overlapping requests.
THEOREM FourEyesKept == Spec => []PaymentFourEyes
<1>1. RowsSound => PaymentFourEyes
    BY DEF RowsSound, RowSound, PaymentFourEyes
<1> QED
    BY <1>1, RowsStaySound, PTL

\* Stage and history of a stored payment never come from different signatures.
THEOREM CursorKept == Spec => []CursorMatchesHistory
<1>1. RowsSound => CursorMatchesHistory
    BY DEF RowsSound, RowSound, CursorMatchesHistory
<1> QED
    BY <1>1, RowsStaySound, PTL

\* Finance has been instructed of every payment that is stored as authorized.
THEOREM InstructionKept == Spec => []AuthorizedIsInstructed
<1>1. RowsSound => AuthorizedIsInstructed
    BY DEF RowsSound, RowSound, AuthorizedIsInstructed
<1> QED
    BY <1>1, RowsStaySound, PTL

-----------------------------------------------------------------------------
\* What RecomputePayable computes lies between nothing and the gross amount.
LEMMA PayableBounds ==
    ASSUME NEW amount \in Nat, NEW retention \in 0 .. 100
    PROVE  Payable(amount, retention) \in 0 .. amount
<1> DEFINE kept == 100 - retention
<1>1. kept \in 0 .. 100
    OBVIOUS
<1> HIDE DEF kept
<1>2. amount * kept \in Int /\ 0 <= amount * kept /\ amount * kept <= amount * 100
    BY <1>1
<1> DEFINE product == amount * kept
<1> HIDE DEF product
<1>3. product \in Int /\ 0 <= product /\ product <= amount * 100
    BY <1>2 DEF product
<1>4. product \div 100 \in 0 .. amount
    BY <1>3
<1> QED
    BY <1>4 DEF Payable, product, kept

\* The payable of a row is the one its other two figures give.
RowAgrees(row) ==
    /\ row.payable = Payable(row.amount, row.retention)
    /\ row.payable \in 0 .. row.amount

LEMMA AgreementCarries ==
    ASSUME NEW old \in PaymentRow, NEW new \in PaymentRow,
           FiguresOf(new) = FiguresOf(old), RowAgrees(old)
    PROVE  RowAgrees(new)
BY DEF FiguresOf, RowAgrees

\* The stored payable is the one the stored amount and retention give: each write
\* of one of the three figures writes all three, and none is written by a
\* request that signs.
THEOREM PayableKept == Spec => []PayableAgrees
<1>1. Init => PayableAgrees
    BY DEF Init, PayableAgrees
<1>2. TypeOK /\ PayableAgrees /\ [Next]_vars => PayableAgrees'
    <2> SUFFICES ASSUME TypeOK, PayableAgrees, [Next]_vars,
                        NEW n \in Milestones, payment'[n] # NoRow
                 PROVE  RowAgrees(payment'[n])
        BY DEF PayableAgrees, RowAgrees
    <2>1. CASE payment'[n] = payment[n]
        BY <2>1 DEF PayableAgrees, RowAgrees
    <2>2. ASSUME NEW r \in Handlers, CreatePayment(r)
          PROVE  RowAgrees(payment'[n])
        <3>1. PICK amount \in AmountInputs \cup {handler[r].ms.value},
                   retention \in RetentionInputs :
                  /\ amount >= 0
                  /\ payment' = [payment EXCEPT ![handler[r].of] =
                                    NewPayment(amount, Clamp(retention))]
            BY <2>2 DEF CreatePayment
        <3>2. handler[r].ms \in MilestoneRow
            BY <2>2 DEF CreatePayment, TypeOK, SnapshotOK
        <3>3. amount \in Nat /\ Clamp(retention) \in 0 .. 100
            BY <3>1, <3>2, InputsAssumption, ClampRange DEF MilestoneRow
        <3>4. RowAgrees(NewPayment(amount, Clamp(retention)))
            BY <3>3, PayableBounds DEF RowAgrees, NewPayment
        <3> QED
            BY <2>1, <3>1, <3>4 DEF TypeOK
    <2>3. ASSUME NEW r \in Handlers, PatchPayment(r)
          PROVE  RowAgrees(payment'[n])
        <3> DEFINE m == handler[r].of
                   row == handler[r].row
        <3>1. m \in Milestones /\ row \in PaymentRow /\ payment[m] \in PaymentRow
            BY <2>3 DEF PatchPayment, TypeOK, Request, SnapshotOK
        <3>2. PICK amount \in AmountInputs \cup {row.amount},
                   retention \in RetentionInputs \cup {row.retention} :
                  /\ amount >= 0
                  /\ retention \in 0 .. 100
                  /\ payment' = [payment EXCEPT ![m] =
                        UpdateAmounts(payment[m],
                            [row EXCEPT !.amount = amount, !.retention = retention,
                                        !.payable = Payable(amount, retention)])]
            BY <2>3 DEF PatchPayment
        <3>3. amount \in Nat /\ Payable(amount, retention) \in Int
            BY <3>1, <3>2, InputsAssumption, PayableType DEF PaymentRow
        <3> DEFINE mine == [row EXCEPT !.amount = amount, !.retention = retention,
                                       !.payable = Payable(amount, retention)]
        <3>4. mine \in PaymentRow
            <4>1. amount \in Int /\ Payable(amount, retention) \in Int
                BY <3>3
            <4> QED
                BY <3>1, <3>2, <4>1 DEF PaymentRow
        <3>5. RowAgrees(mine)
            <4>1. /\ mine.amount = amount /\ mine.retention = retention
                  /\ mine.payable = Payable(amount, retention)
                BY <3>1 DEF PaymentRow
            <4> QED
                BY <3>2, <3>3, <4>1, PayableBounds DEF RowAgrees
        <3> HIDE DEF mine
        <3>6. RowAgrees(UpdateAmounts(payment[m], mine))
            BY <3>1, <3>4, <3>5, UpdateAmountsType, AgreementCarries
        <3> QED
            BY <2>1, <3>2, <3>6 DEF TypeOK, mine
    <2>4. ASSUME NEW r \in Handlers, AdvancePayment(r)
          PROVE  RowAgrees(payment'[n])
        <3> DEFINE m == handler[r].of
                   row == handler[r].row
        <3>1. /\ m \in Milestones
              /\ row \in PaymentRow /\ row.stage < Complete
              /\ payment[m] \in PaymentRow /\ RowAgrees(payment[m])
            BY <2>4 DEF AdvancePayment, TypeOK, Request, SnapshotOK,
                        PayableAgrees, RowAgrees
        <3>2. PICK by \in Names :
                  payment' = [payment EXCEPT
                                 ![m] = UpdateChain(payment[m], Advanced(row, by))]
            BY <2>4 DEF AdvancePayment
        <3>3. RowAgrees(UpdateChain(payment[m], Advanced(row, by)))
            BY <3>1, AdvancedType, UpdateChainType, AgreementCarries
        <3> QED
            BY <2>1, <3>2, <3>3 DEF TypeOK
    <2>5. ASSUME NEW m \in Milestones, DeleteMilestone(m)
          PROVE  RowAgrees(payment'[n])
        BY <2>1, <2>5 DEF DeleteMilestone, TypeOK
    <2>6. CASE payment' = payment
        BY <2>1, <2>6
    <2> QED
        BY <2>2, <2>3, <2>4, <2>5, <2>6
           DEF Next, vars, OpenPayment, OpenCorrection, OpenAdvance, OpenMilestone,
               ReadPaidMilestone, MarkMilestonePaid, PatchMilestone, Refuse, Fail
<1> QED
    BY <1>1, <1>2, TypeCorrect, PTL DEF Spec

-----------------------------------------------------------------------------
\* An event enters the outbox only with the row it describes: the transaction of
\* AdvancePayment fills it from the columns its own UPDATE returned.
THEOREM AnnouncementsExact == Spec => AnnouncementMatchesRow
<1> DEFINE Exact ==
        Len(outbox') > Len(outbox) =>
            LET e == outbox'[Len(outbox')]
                row == payment'[e.of]
            IN /\ row # NoRow
               /\ row.stage = (IF e.type = "authorized" THEN 3 ELSE 4)
               /\ row.payable = e.payable
<1>1. TypeOK /\ [Next]_vars => [Exact]_vars
    <2> SUFFICES ASSUME TypeOK, [Next]_vars, Len(outbox') > Len(outbox)
                 PROVE  Exact
        BY DEF Exact
    <2>1. outbox' # outbox
        BY DEF TypeOK
    <2>2. PICK r \in Handlers : AdvancePayment(r)
        BY <2>1 DEF Next, vars, OpenPayment, OpenCorrection, OpenAdvance, OpenMilestone,
                    CreatePayment, PatchPayment, ReadPaidMilestone, MarkMilestonePaid,
                    PatchMilestone, DeleteMilestone, Refuse, Fail
    <2> DEFINE m == handler[r].of
               row == handler[r].row
    <2>3. /\ m \in Milestones
          /\ row \in PaymentRow /\ row.stage < Complete
          /\ payment[m] \in PaymentRow
        BY <2>2 DEF AdvancePayment, TypeOK, Request, SnapshotOK
    <2>4. PICK by \in Names, currency \in {ContractCurrency, "UGX"} :
              /\ payment' = [payment EXCEPT
                                ![m] = UpdateChain(payment[m], Advanced(row, by))]
              /\ outbox' = outbox \o
                    Announcements(m, UpdateChain(payment[m], Advanced(row, by)), currency)
        BY <2>2 DEF AdvancePayment, Enqueue, Returned
    <2> DEFINE new == UpdateChain(payment[m], Advanced(row, by))
               event == [type |-> IF new.stage = 3 THEN "authorized" ELSE "paid",
                         of |-> m, payable |-> new.payable, currency |-> currency]
    <2>5. new \in PaymentRow /\ payment'[m] = new
        BY <2>3, <2>4, AdvancedType, UpdateChainType DEF TypeOK
    <2>6. new.stage \in {3, 4} /\ outbox' = outbox \o <<event>>
        <3>1. Announcements(m, new, currency) # << >>
            BY <2>1, <2>4 DEF TypeOK
        <3> QED
            BY <2>4, <3>1 DEF Announcements
    <2>7. event \in Event
        BY <2>3, <2>5, InputsAssumption DEF Event, PaymentRow
    <2>8. outbox'[Len(outbox')] = event
        BY <2>6, <2>7 DEF TypeOK
    <2>9. new # NoRow
        BY <2>5, NoRowAssumption
    <2> HIDE DEF new, m
    <2>10. event.of = m /\ event.payable = new.payable
           /\ new.stage = (IF event.type = "authorized" THEN 3 ELSE 4)
        BY <2>6
    <2> QED
        BY <2>5, <2>8, <2>9, <2>10
<1> QED
    BY <1>1, TypeCorrect, PTL DEF Spec, AnnouncementMatchesRow

-----------------------------------------------------------------------------
(***************************************************************************)
(* The refinement of PaymentPromise.  It needs requests to come one at a   *)
(* time: MCPaymentSequencing shows two of them breaking it.  Even then the *)
(* milestone of a request may be deleted under it.                         *)
(***************************************************************************)
OneAtATime == \A r, q \in Handlers : r = q

\* The copy a request writes back is the stored row, unless the row is gone.
CopyCurrent(request) ==
    /\ request.op \in {"patch", "advance"} => payment[request.of] \in {NoRow, request.row}
    /\ request.op = "patch" => request.row.stage = 0

\* Every amount comes from a request body.
RequestAmount(request) ==
    /\ request.op \in {"create", "flip", "milestone"} => request.ms.value \in AmountInputs
    /\ request.op \in {"patch", "advance"} => request.row.amount \in AmountInputs

Lone ==
    /\ \A m \in Milestones :
          /\ milestone[m] = NoRow => payment[m] = NoRow
          /\ milestone[m] # NoRow => milestone[m].value \in AmountInputs
          /\ payment[m] # NoRow => payment[m].amount \in AmountInputs
    /\ \A r \in Handlers : CopyCurrent(handler[r]) /\ RequestAmount(handler[r])

LEMMA IdleLone == (CopyCurrent(Idle) /\ RequestAmount(Idle))'
BY DEF CopyCurrent, RequestAmount, Idle, Serving

LEMMA LoneInit == Init => Lone
<1> SUFFICES ASSUME Init PROVE Lone
    OBVIOUS
<1>1. \A m \in Milestones : milestone[m] \in [status : MilestoneStatus, value : AmountInputs]
    BY DEF Init
<1>2. \A m \in Milestones : milestone[m] # NoRow /\ milestone[m].value \in AmountInputs
    BY <1>1, InputsAssumption, NoRowAssumption DEF MilestoneRow
<1>3. Idle.op = "idle"
    BY DEF Idle, Serving
<1> QED
    BY <1>2, <1>3 DEF Init, Lone, CopyCurrent, RequestAmount

\* With one request in service, only the tables and that request need looking at.
LEMMA LoneStep ==
    ASSUME OneAtATime, TypeOK, NEW r \in Handlers, NEW request,
           handler' = [handler EXCEPT ![r] = request],
           (CopyCurrent(request) /\ RequestAmount(request))',
           \A m \in Milestones :
              /\ milestone'[m] = NoRow => payment'[m] = NoRow
              /\ milestone'[m] # NoRow => milestone'[m].value \in AmountInputs
              /\ payment'[m] # NoRow => payment'[m].amount \in AmountInputs
    PROVE  Lone'
<1>1. \A h \in Handlers : handler'[h] = request
    BY DEF OneAtATime, TypeOK
<1>2. ASSUME NEW h \in Handlers
      PROVE  (CopyCurrent(handler[h]) /\ RequestAmount(handler[h]))'
    BY <1>1 DEF CopyCurrent, RequestAmount
<1> QED
    BY <1>2 DEF Lone

LEMMA LoneStays ==
    ASSUME OneAtATime, TypeOK, Lone, NEW r \in Handlers, NEW request,
           handler' = [handler EXCEPT ![r] = request],
           UNCHANGED <<milestone, payment>>,
           CopyCurrent(request), RequestAmount(request)
    PROVE  Lone'
<1>1. (CopyCurrent(request) /\ RequestAmount(request))'
    BY DEF CopyCurrent, RequestAmount
<1> QED
    BY <1>1, LoneStep DEF Lone

\* Writing a milestone does not remove it.
LEMMA StillThere ==
    ASSUME TypeOK, NEW r \in Handlers, MarkMilestonePaid(r) \/ PatchMilestone(r)
    PROVE  /\ handler[r].of \in Milestones
           /\ milestone'[handler[r].of] # NoRow
           /\ \A n \in Milestones : n # handler[r].of => milestone'[n] = milestone[n]
<1>1. PICK m \in Milestones : m = handler[r].of
    BY DEF TypeOK, Request
<1>2. handler[r].ms \in MilestoneRow
    BY DEF MarkMilestonePaid, PatchMilestone, TypeOK, SnapshotOK
<1>3. PICK new \in MilestoneRow : milestone' = [milestone EXCEPT ![m] = new]
    <2>1. CASE MarkMilestonePaid(r)
        <3>1. [handler[r].ms EXCEPT !.status = "Paid"] \in MilestoneRow
            BY <1>2, InputsAssumption DEF MilestoneRow
        <3> QED
            BY <1>1, <2>1, <3>1 DEF MarkMilestonePaid
    <2>2. CASE PatchMilestone(r)
        <3>1. PICK status \in MilestoneStatus, value \in AmountInputs \cup {handler[r].ms.value} :
                  milestone' = [milestone EXCEPT ![m] = [status |-> status, value |-> value]]
            BY <1>1, <2>2 DEF PatchMilestone
        <3>2. [status |-> status, value |-> value] \in MilestoneRow
            BY <1>2, InputsAssumption DEF MilestoneRow
        <3> QED
            BY <3>1, <3>2
    <2> QED
        BY <2>1, <2>2
<1>4. milestone'[m] = new /\ \A n \in Milestones : n # m => milestone'[n] = milestone[n]
    BY <1>3 DEF TypeOK
<1> QED
    BY <1>1, <1>4, NoRowAssumption

LEMMA LoneNext ==
    ASSUME OneAtATime, TypeOK, Lone, [Next]_vars
    PROVE  Lone'
<1>1. ASSUME NEW r \in Handlers, NEW m \in Milestones,
             \/ OpenPayment(r, m) \/ OpenCorrection(r, m)
             \/ OpenAdvance(r, m) \/ OpenMilestone(r, m)
      PROVE  Lone'
    <2>1. CASE OpenPayment(r, m)
        <3> DEFINE request == Serving("create", m, NoRow, milestone[m])
        <3>1. CopyCurrent(request) /\ RequestAmount(request)
            BY <2>1 DEF CopyCurrent, RequestAmount, Serving, OpenPayment, Lone
        <3> QED
            BY <2>1, <3>1, LoneStays DEF OpenPayment, Begin
    <2>2. CASE OpenCorrection(r, m)
        <3> DEFINE request == Serving("patch", m, payment[m], NoRow)
        <3>1. CopyCurrent(request) /\ RequestAmount(request)
            BY <2>2 DEF CopyCurrent, RequestAmount, Serving, OpenCorrection, Lone
        <3> QED
            BY <2>2, <3>1, LoneStays DEF OpenCorrection, Begin
    <2>3. CASE OpenAdvance(r, m)
        <3> DEFINE request == Serving("advance", m, payment[m], NoRow)
        <3>1. CopyCurrent(request) /\ RequestAmount(request)
            BY <2>3 DEF CopyCurrent, RequestAmount, Serving, OpenAdvance, Lone
        <3> QED
            BY <2>3, <3>1, LoneStays DEF OpenAdvance, Begin
    <2>4. CASE OpenMilestone(r, m)
        <3> DEFINE request == Serving("milestone", m, NoRow, milestone[m])
        <3>1. CopyCurrent(request) /\ RequestAmount(request)
            BY <2>4 DEF CopyCurrent, RequestAmount, Serving, OpenMilestone, Lone
        <3> QED
            BY <2>4, <3>1, LoneStays DEF OpenMilestone, Begin
    <2> QED
        BY <1>1, <2>1, <2>2, <2>3, <2>4
<1>2. ASSUME NEW r \in Handlers, CreatePayment(r)
      PROVE  Lone'
    <2>1. PICK m \in Milestones : m = handler[r].of
        BY DEF TypeOK, Request
    <2>2. PICK amount \in AmountInputs, retention \in RetentionInputs :
              payment' = [payment EXCEPT ![m] = NewPayment(amount, Clamp(retention))]
        BY <1>2, <2>1 DEF CreatePayment, Lone, RequestAmount
    <2>3. \A n \in Milestones : payment'[n] = payment[n] \/ payment'[n].amount = amount
        BY <2>2 DEF TypeOK, NewPayment
    <2>4. milestone[m] # NoRow /\ milestone' = milestone
        BY <1>2, <2>1 DEF CreatePayment
    <2>5. \A n \in Milestones : n # m => payment'[n] = payment[n]
        BY <2>2 DEF TypeOK
    <2>6. \A n \in Milestones :
              /\ milestone'[n] = NoRow => payment'[n] = NoRow
              /\ milestone'[n] # NoRow => milestone'[n].value \in AmountInputs
              /\ payment'[n] # NoRow => payment'[n].amount \in AmountInputs
        BY <2>3, <2>4, <2>5 DEF Lone
    <2> QED
        BY <1>2, <2>6, IdleLone, LoneStep DEF CreatePayment, End
<1>3. ASSUME NEW r \in Handlers, PatchPayment(r)
      PROVE  Lone'
    <2>1. PICK m \in Milestones : m = handler[r].of
        BY DEF TypeOK, Request
    <2>2. handler[r].op = "patch" /\ payment[m] \in PaymentRow /\ handler[r].row \in PaymentRow
        BY <1>3, <2>1 DEF PatchPayment, TypeOK, SnapshotOK
    <2>3. PICK amount \in AmountInputs, retention \in 0 .. 100 :
              payment' = [payment EXCEPT ![m] =
                  UpdateAmounts(payment[m],
                      [handler[r].row EXCEPT !.amount = amount, !.retention = retention,
                                             !.payable = Payable(amount, retention)])]
        BY <1>3, <2>1, <2>2 DEF PatchPayment, Lone, RequestAmount
    <2>4. payment'[m].amount = amount
        BY <2>2, <2>3 DEF TypeOK, UpdateAmounts, PaymentRow
    <2>5. \A n \in Milestones : n # m => payment'[n] = payment[n]
        BY <2>3 DEF TypeOK
    <2>6. milestone' = milestone /\ payment[m] # NoRow
        BY <1>3, <2>1 DEF PatchPayment
    <2>7. \A n \in Milestones :
              /\ milestone'[n] = NoRow => payment'[n] = NoRow
              /\ milestone'[n] # NoRow => milestone'[n].value \in AmountInputs
              /\ payment'[n] # NoRow => payment'[n].amount \in AmountInputs
        BY <2>4, <2>5, <2>6 DEF Lone
    <2> QED
        BY <1>3, <2>7, IdleLone, LoneStep DEF PatchPayment, End
<1>4. ASSUME NEW r \in Handlers, AdvancePayment(r)
      PROVE  Lone'
    <2>1. PICK m \in Milestones : m = handler[r].of
        BY DEF TypeOK, Request
    <2>2. PICK by, request :
              /\ payment' = [payment EXCEPT ![m] =
                                UpdateChain(payment[m], Advanced(handler[r].row, by))]
              /\ handler' = [handler EXCEPT ![r] = request]
              /\ request \in {Idle, Serving("paid", m, NoRow, NoRow)}
        BY <1>4, <2>1 DEF AdvancePayment, End
    <2>3. milestone' = milestone /\ payment[m] \in PaymentRow /\ payment[m] # NoRow
        BY <1>4, <2>1 DEF AdvancePayment, TypeOK
    <2>4. payment'[m].amount = payment[m].amount
        BY <2>2, <2>3 DEF TypeOK, UpdateChain, PaymentRow
    <2>5. \A n \in Milestones : n # m => payment'[n] = payment[n]
        BY <2>2 DEF TypeOK
    <2>6. \A n \in Milestones :
              /\ milestone'[n] = NoRow => payment'[n] = NoRow
              /\ milestone'[n] # NoRow => milestone'[n].value \in AmountInputs
              /\ payment'[n] # NoRow => payment'[n].amount \in AmountInputs
        BY <2>3, <2>4, <2>5 DEF Lone
    <2>7. request.op \in {"idle", "paid"}
        BY <2>2 DEF Idle, Serving
    <2>8. (CopyCurrent(request) /\ RequestAmount(request))'
        BY <2>7 DEF CopyCurrent, RequestAmount
    <2> QED
        BY <2>2, <2>6, <2>8, LoneStep
<1>5. ASSUME NEW r \in Handlers, ReadPaidMilestone(r)
      PROVE  Lone'
    <2>1. PICK m \in Milestones : m = handler[r].of
        BY DEF TypeOK, Request
    <2> DEFINE request == Serving("flip", m, NoRow, milestone[m])
    <2>2. CopyCurrent(request) /\ RequestAmount(request)
        BY <1>5, <2>1 DEF CopyCurrent, RequestAmount, Serving, ReadPaidMilestone, Lone
    <2> QED
        BY <1>5, <2>1, <2>2, LoneStays DEF ReadPaidMilestone
<1>6. ASSUME NEW r \in Handlers, MarkMilestonePaid(r) \/ PatchMilestone(r)
      PROVE  Lone'
    <2>1. PICK m \in Milestones : m = handler[r].of
        BY DEF TypeOK, Request
    <2>2. /\ handler[r].op \in {"flip", "milestone"} /\ milestone[m] # NoRow
          /\ handler' = [handler EXCEPT ![r] = Idle] /\ payment' = payment
        BY <1>6, <2>1 DEF MarkMilestonePaid, PatchMilestone, End
    <2>3. handler[r].ms \in MilestoneRow /\ handler[r].ms.value \in AmountInputs
        BY <2>2 DEF TypeOK, SnapshotOK, Lone, RequestAmount
    <2>4. PICK new : /\ milestone' = [milestone EXCEPT ![m] = new]
                     /\ new.value \in AmountInputs
        <3>1. CASE MarkMilestonePaid(r)
            <4>1. [handler[r].ms EXCEPT !.status = "Paid"].value \in AmountInputs
                BY <2>3 DEF MilestoneRow
            <4> QED
                BY <2>1, <3>1, <4>1 DEF MarkMilestonePaid
        <3>2. CASE PatchMilestone(r)
            BY <2>1, <2>3, <3>2 DEF PatchMilestone
        <3> QED
            BY <1>6, <3>1, <3>2
    <2>5. milestone'[m].value \in AmountInputs
          /\ \A n \in Milestones : n # m => milestone'[n] = milestone[n]
        BY <2>4 DEF TypeOK
    <2>6. milestone'[m] # NoRow
        BY <1>6, <2>1, StillThere
    <2>7. \A n \in Milestones :
              /\ milestone'[n] = NoRow => payment'[n] = NoRow
              /\ milestone'[n] # NoRow => milestone'[n].value \in AmountInputs
              /\ payment'[n] # NoRow => payment'[n].amount \in AmountInputs
        BY <2>2, <2>5, <2>6 DEF Lone
    <2> QED
        BY <2>2, <2>7, IdleLone, LoneStep
<1>7. ASSUME NEW r \in Handlers, Refuse(r) \/ Fail(r)
      PROVE  Lone'
    <2>1. CopyCurrent(Idle) /\ RequestAmount(Idle)
        BY DEF CopyCurrent, RequestAmount, Idle, Serving
    <2> QED
        BY <1>7, <2>1, LoneStays DEF Refuse, Fail, End
<1>8. ASSUME NEW m \in Milestones, DeleteMilestone(m)
      PROVE  Lone'
    BY <1>8 DEF DeleteMilestone, TypeOK, Lone, CopyCurrent, RequestAmount
<1>9. CASE UNCHANGED vars
    BY <1>9 DEF vars, Lone, CopyCurrent, RequestAmount
<1> QED
    BY <1>1, <1>2, <1>3, <1>4, <1>5, <1>6, <1>7, <1>8, <1>9 DEF Next

-----------------------------------------------------------------------------
\* What the tables promise when a step touches the tables of one payment only.
LEMMA PromisedAlone ==
    ASSUME UNCHANGED <<payment, outbox>>,
           \A m \in Milestones : milestone'[m] = NoRow <=> milestone[m] = NoRow
    PROVE  UNCHANGED Promise!vars
BY DEF Promise!vars, PromisedPhase, PromisedFigures, PromisedSigners, PromisedTold

LEMMA PromisedElsewhere ==
    ASSUME NEW m \in Milestones,
           \A n \in Milestones : n # m =>
               payment'[n] = payment[n] /\ (milestone'[n] = NoRow <=> milestone[n] = NoRow),
           NEW phase, phase = PromisedPhase'[m],
           NEW figures, figures = PromisedFigures'[m],
           NEW signers, signers = PromisedSigners'[m]
    PROVE  /\ PromisedPhase' = [PromisedPhase EXCEPT ![m] = phase]
           /\ PromisedFigures' = [PromisedFigures EXCEPT ![m] = figures]
           /\ PromisedSigners' = [PromisedSigners EXCEPT ![m] = signers]
<1>1. PromisedPhase' = [PromisedPhase EXCEPT ![m] = phase]
    BY DEF PromisedPhase
<1>2. PromisedFigures' = [PromisedFigures EXCEPT ![m] = figures]
    BY DEF PromisedFigures
<1>3. PromisedSigners' = [PromisedSigners EXCEPT ![m] = signers]
    BY DEF PromisedSigners
<1> QED
    BY <1>1, <1>2, <1>3

\* A payment nobody has signed has no signers.
LEMMA UnsignedPayment ==
    ASSUME NEW steps
    PROVE  SignersOf(steps, 0) = << >>
BY DEF SignersOf

LEMMA PromisedInit == Init => Promise!Init
<1> SUFFICES ASSUME Init PROVE Promise!Init
    OBVIOUS
<1>1. \A m \in Milestones : milestone[m] # NoRow /\ payment[m] = NoRow
    <2>1. \A m \in Milestones : milestone[m] \in MilestoneRow
        BY InputsAssumption DEF Init, MilestoneRow
    <2> QED
        BY <2>1, NoRowAssumption DEF Init
<1>2. outbox = << >>
    BY DEF Init
<1>3. PromisedTold = << >>
    BY <1>2 DEF PromisedTold
<1> QED
    BY <1>1, <1>3 DEF Promise!Init, PromisedPhase, PromisedFigures, PromisedSigners

\* CreatePayment raises the payment.
LEMMA CreateRaises ==
    ASSUME TypeOK, Lone, NEW r \in Handlers, CreatePayment(r)
    PROVE  Promise!Next
<1>1. PICK m \in Milestones : m = handler[r].of
    BY DEF TypeOK, Request
<1>2. PICK amount \in AmountInputs, retention \in RetentionInputs :
          /\ amount >= 0
          /\ payment' = [payment EXCEPT ![m] = NewPayment(amount, Clamp(retention))]
    BY <1>1 DEF CreatePayment, Lone, RequestAmount
<1>3. PICK new \in PaymentRow : new = NewPayment(amount, Clamp(retention))
    <2>1. amount \in Int /\ Clamp(retention) \in 0 .. 100
        BY InputsAssumption, ClampRange
    <2> QED
        BY <2>1, NewPaymentType
<1>4. new.stage = 0 /\ FiguresOf(new) \in PromisedAmounts
    <2>1. Clamp(retention) \in 0 .. 100
        BY InputsAssumption, ClampRange
    <2> QED
        BY <1>2, <1>3, <2>1 DEF NewPayment, FiguresOf, PromisedAmounts
<1>5. payment'[m] = new /\ new # NoRow /\ \A n \in Milestones : n # m => payment'[n] = payment[n]
    BY <1>2, <1>3, NoRowAssumption DEF TypeOK
<1>6. UNCHANGED <<milestone, outbox>> /\ milestone[m] # NoRow /\ payment[m] = NoRow
    BY <1>1 DEF CreatePayment
<1>7. /\ PromisedPhase[m] = "unraised" /\ PromisedPhase'[m] = "open"
      /\ PromisedFigures'[m] = FiguresOf(new)
      /\ PromisedSigners[m] = << >> /\ PromisedSigners'[m] = << >>
    BY <1>4, <1>5, <1>6, UnsignedPayment DEF PromisedPhase, PromisedFigures, PromisedSigners
<1>8. /\ PromisedPhase' = [PromisedPhase EXCEPT ![m] = "open"]
      /\ PromisedFigures' = [PromisedFigures EXCEPT ![m] = FiguresOf(new)]
      /\ PromisedSigners' = [PromisedSigners EXCEPT ![m] = << >>]
    BY <1>5, <1>6, <1>7, PromisedElsewhere
<1>9. PromisedSigners' = PromisedSigners /\ PromisedTold' = PromisedTold
    BY <1>6, <1>7, <1>8 DEF PromisedSigners, PromisedTold
<1>10. Promise!Raise(m, FiguresOf(new))
    BY <1>7, <1>8, <1>9 DEF Promise!Raise
<1> QED
    BY <1>4, <1>10 DEF Promise!Next

\* PatchPayment corrects figures nobody has signed.
LEMMA PatchCorrects ==
    ASSUME TypeOK, Lone, NEW r \in Handlers, PatchPayment(r)
    PROVE  Promise!Next
<1>1. PICK m \in Milestones : m = handler[r].of
    BY DEF TypeOK, Request
<1>2. PICK row \in PaymentRow : row = payment[m] /\ row = handler[r].row /\ row.stage = 0
                                /\ row.amount \in AmountInputs
    BY <1>1 DEF PatchPayment, TypeOK, SnapshotOK, Lone, CopyCurrent, RequestAmount
<1>3. PICK amount \in AmountInputs, retention \in 0 .. 100 :
          /\ amount >= 0
          /\ payment' = [payment EXCEPT ![m] =
                 UpdateAmounts(row,
                     [row EXCEPT !.amount = amount, !.retention = retention,
                                 !.payable = Payable(amount, retention)])]
    <2>1. PICK amount \in AmountInputs \cup {handler[r].row.amount},
               retention \in RetentionInputs \cup {handler[r].row.retention} :
              /\ amount >= 0
              /\ retention \in 0 .. 100
              /\ payment' = [payment EXCEPT ![m] =
                     UpdateAmounts(payment[m],
                         [handler[r].row EXCEPT !.amount = amount, !.retention = retention,
                                                !.payable = Payable(amount, retention)])]
        BY <1>1 DEF PatchPayment
    <2>2. amount \in AmountInputs
        BY <1>2, <2>1
    <2> QED
        BY <1>2, <2>1, <2>2
<1> DEFINE mine == [row EXCEPT !.amount = amount, !.retention = retention,
                               !.payable = Payable(amount, retention)]
<1>4. /\ mine \in PaymentRow
      /\ FiguresOf(mine) = <<amount, retention, Payable(amount, retention)>>
    <2>1. amount \in Int /\ Payable(amount, retention) \in Int
        BY InputsAssumption, PayableType
    <2> QED
        BY <2>1 DEF PaymentRow, FiguresOf
<1>5. PICK new \in PaymentRow : /\ new = UpdateAmounts(row, mine)
                                /\ new.stage = 0
                                /\ FiguresOf(new) = FiguresOf(mine)
    BY <1>2, <1>4, UpdateAmountsType
<1>6. payment' = [payment EXCEPT ![m] = new]
    BY <1>3, <1>5
<1> HIDE DEF mine
<1>7. FiguresOf(new) \in PromisedAmounts
    BY <1>3, <1>4, <1>5 DEF PromisedAmounts
<1>8. payment'[m] = new /\ new # NoRow /\ \A n \in Milestones : n # m => payment'[n] = payment[n]
    BY <1>6, NoRowAssumption DEF TypeOK
<1>9. UNCHANGED <<milestone, outbox>> /\ payment[m] # NoRow /\ milestone[m] # NoRow
    BY <1>1 DEF PatchPayment, Lone
<1>10. /\ PromisedPhase[m] = "open" /\ PromisedPhase'[m] = "open"
       /\ PromisedFigures'[m] = FiguresOf(new)
       /\ PromisedSigners[m] = << >> /\ PromisedSigners'[m] = << >>
    BY <1>2, <1>5, <1>8, <1>9, UnsignedPayment
       DEF PromisedPhase, PromisedFigures, PromisedSigners
<1>11. /\ PromisedPhase' = [PromisedPhase EXCEPT ![m] = "open"]
       /\ PromisedFigures' = [PromisedFigures EXCEPT ![m] = FiguresOf(new)]
       /\ PromisedSigners' = [PromisedSigners EXCEPT ![m] = << >>]
    BY <1>8, <1>9, <1>10, PromisedElsewhere
<1>12. UNCHANGED <<PromisedPhase, PromisedSigners, PromisedTold>>
    <2>1. PromisedPhase' = PromisedPhase
        BY <1>10, <1>11 DEF PromisedPhase
    <2>2. PromisedSigners' = PromisedSigners
        BY <1>10, <1>11 DEF PromisedSigners
    <2> QED
        BY <1>9, <2>1, <2>2 DEF PromisedTold
<1>13. Promise!Correct(m, FiguresOf(new))
    BY <1>10, <1>11, <1>12 DEF Promise!Correct
<1> QED
    BY <1>7, <1>13 DEF Promise!Next

\* The signers of a row just advanced are those of the row, and one more.
LEMMA OneMoreSigner ==
    ASSUME NEW row \in PaymentRow, row.stage < Complete, NEW by \in Names
    PROVE  /\ Len(SignersOf(row.history, row.stage)) = row.stage
           /\ row.stage > 0 =>
                 SignersOf(row.history, row.stage)[row.stage] = Fold[row.history[row.stage - 1]]
           /\ SignersOf(Advanced(row, by).history, Advanced(row, by).stage)
                 = Append(SignersOf(row.history, row.stage), Fold[by])
<1> DEFINE signers == [d \in 1 .. row.stage |-> Fold[row.history[d - 1]]]
           history == Advanced(row, by).history
           more == [d \in 1 .. (row.stage + 1) |-> Fold[history[d - 1]]]
<1>1. row.stage \in Desks /\ row.stage \in Nat
    BY DEF PaymentRow, Stages, Complete, Desks
<1>2. Advanced(row, by).stage = row.stage + 1
    BY AdvancedType
<1>3. /\ history[row.stage] = by
      /\ \A d \in 1 .. row.stage : history[d - 1] = row.history[d - 1]
    <2>1. row.history \in [Desks -> Signer] /\ history = [row.history EXCEPT ![row.stage] = by]
        BY DEF PaymentRow, Advanced
    <2>2. \A d \in 1 .. row.stage : d - 1 \in Desks /\ d - 1 # row.stage
        BY <1>1 DEF Desks
    <2> QED
        BY <1>1, <2>1, <2>2
<1>4. Len(signers) = row.stage
    BY <1>1
<1>5. more = Append(signers, Fold[by])
    <2> HIDE DEF history
    <2>1. Append(signers, Fold[by]) =
              [d \in 1 .. (row.stage + 1) |-> IF d = row.stage + 1 THEN Fold[by] ELSE signers[d]]
        BY <1>1, <1>4
    <2>2. ASSUME NEW d \in 1 .. (row.stage + 1)
          PROVE  Fold[history[d - 1]] = IF d = row.stage + 1 THEN Fold[by] ELSE signers[d]
        BY <1>1, <1>3
    <2> QED
        BY <2>1, <2>2
<1>6. row.stage > 0 => signers[row.stage] = Fold[row.history[row.stage - 1]]
    BY <1>1
<1> QED
    BY <1>2, <1>4, <1>5, <1>6 DEF SignersOf

\* Whoever the engine lets clear a desk may sign.
LEMMA MaySign ==
    ASSUME NEW row \in PaymentRow, row.stage < Complete, row.stage > 0, NEW by \in Names,
           SignedBelow(row.history, row.stage),
           ~SelfSuccession(row.history, row.stage, by)
    PROVE  Fold[by] = "system" \/ Fold[by] # Fold[row.history[row.stage - 1]]
<1>1. row.stage - 1 \in Desks /\ row.stage # 0
    BY DEF PaymentRow, Stages, Complete, Desks
<1>2. row.history[row.stage - 1] # Blank /\ by # Blank
    BY <1>1, NamesAssumption DEF SignedBelow, Desks
<1> QED
    BY <1>1, <1>2 DEF SelfSuccession, PreviousApprover, SameActor, IsSystemActor

\* The events of an advance are what finance is told of it.
LEMMA ToldOf ==
    ASSUME TypeOK, EventsOn, NEW m \in Milestones, NEW row \in PaymentRow,
           row.stage \in 1 .. Complete, NEW currency \in Currencies,
           outbox' = outbox \o Announcements(m, row, currency)
    PROVE  PromisedTold' =
               IF row.stage - 1 < 2 THEN PromisedTold
               ELSE Append(PromisedTold,
                           <<m, IF row.stage - 1 = 2 THEN "authorized" ELSE "paid", row.payable>>)
<1> DEFINE event == [type |-> IF row.stage = 3 THEN "authorized" ELSE "paid",
                     of |-> m, payable |-> row.payable, currency |-> currency]
<1>1. outbox \in Seq(Event)
    BY DEF TypeOK
<1>2. CASE row.stage < 3
    <2>1. Announcements(m, row, currency) = << >>
        BY <1>2 DEF Announcements
    <2>2. outbox' = outbox
        BY <1>1, <2>1
    <2> QED
        BY <1>2, <2>2 DEF PromisedTold
<1>3. CASE row.stage >= 3
    <2>1. Announcements(m, row, currency) = <<event>>
        BY <1>3 DEF Announcements, Complete
    <2>2. /\ event \in Event /\ event.of = m /\ event.payable = row.payable
          /\ event.type = IF row.stage - 1 = 2 THEN "authorized" ELSE "paid"
        BY <1>3 DEF Event, PaymentRow, Complete
    <2> HIDE DEF event
    <2>3. /\ outbox' \in Seq(Event) /\ Len(outbox') = Len(outbox) + 1
          /\ \A i \in 1 .. Len(outbox) : outbox'[i] = outbox[i]
          /\ outbox'[Len(outbox) + 1] = event
        BY <1>1, <2>1, <2>2
    <2> DEFINE said == <<m, IF row.stage - 1 = 2 THEN "authorized" ELSE "paid", row.payable>>
    <2>4. said = <<event.of, event.type, event.payable>>
        BY <2>2
    <2> HIDE DEF said
    <2>5. DOMAIN outbox = 1 .. Len(outbox) /\ DOMAIN outbox' = 1 .. Len(outbox')
          /\ Len(outbox) \in Nat
        BY <1>1, <2>3
    <2>6. /\ PromisedTold' = [i \in 1 .. (Len(outbox) + 1) |->
                                 <<outbox'[i].of, outbox'[i].type, outbox'[i].payable>>]
          /\ PromisedTold = [i \in 1 .. Len(outbox) |->
                                 <<outbox[i].of, outbox[i].type, outbox[i].payable>>]
        BY <2>3, <2>5 DEF PromisedTold
    <2>7. Append(PromisedTold, said) =
              [i \in 1 .. (Len(outbox) + 1) |->
                  IF i = Len(outbox) + 1 THEN said ELSE PromisedTold[i]]
        BY <2>5, <2>6
    <2>8. ASSUME NEW i \in 1 .. (Len(outbox) + 1)
          PROVE  <<outbox'[i].of, outbox'[i].type, outbox'[i].payable>> =
                     IF i = Len(outbox) + 1 THEN said ELSE PromisedTold[i]
        <3>1. CASE i = Len(outbox) + 1
            BY <2>3, <2>4, <3>1
        <3>2. CASE i # Len(outbox) + 1
            <4>1. i \in 1 .. Len(outbox)
                BY <2>5, <3>2
            <4> QED
                BY <2>3, <2>6, <3>2, <4>1
        <3> QED
            BY <3>1, <3>2
    <2>9. PromisedTold' = Append(PromisedTold, said)
        BY <2>6, <2>7, <2>8
    <2> QED
        BY <1>3, <2>9 DEF said
<1> QED
    BY <1>2, <1>3

\* AdvancePayment signs, and tells finance when it instructs or confirms.
LEMMA AdvanceSigns ==
    ASSUME TypeOK, RowsSound, Lone, EventsOn, NEW r \in Handlers, AdvancePayment(r)
    PROVE  Promise!Next
<1>1. PICK m \in Milestones : m = handler[r].of
    BY DEF TypeOK, Request
<1>2. PICK row \in PaymentRow : row = payment[m] /\ row = handler[r].row
                                /\ row.stage < Complete
    BY <1>1 DEF AdvancePayment, TypeOK, SnapshotOK, Lone, CopyCurrent
<1>3. PICK by \in Names, currency \in {ContractCurrency, "UGX"} :
          /\ ~SelfSuccession(row.history, row.stage, by)
          /\ payment' = [payment EXCEPT ![m] = UpdateChain(row, Advanced(row, by))]
          /\ outbox' = outbox \o
                Announcements(m, UpdateChain(row, Advanced(row, by)), currency)
    BY <1>1, <1>2 DEF AdvancePayment, Enqueue, Returned
<1>4. PICK new \in PaymentRow :
          /\ new = UpdateChain(row, Advanced(row, by))
          /\ new.stage = row.stage + 1 /\ new.stage = Advanced(row, by).stage
          /\ new.history = Advanced(row, by).history
          /\ FiguresOf(new) = FiguresOf(row)
    BY <1>2, AdvancedType, UpdateChainType
<1>5. /\ payment'[m] = new /\ new # NoRow
      /\ \A n \in Milestones : n # m => payment'[n] = payment[n]
    BY <1>3, <1>4, NoRowAssumption DEF TypeOK
<1>6. milestone' = milestone /\ payment[m] # NoRow /\ milestone[m] # NoRow
    BY <1>1 DEF AdvancePayment, Lone
<1> DEFINE signers == SignersOf(row.history, row.stage)
<1>7. /\ Len(signers) = row.stage
      /\ row.stage > 0 => signers[row.stage] = Fold[row.history[row.stage - 1]]
      /\ SignersOf(new.history, new.stage) = Append(signers, Fold[by])
    BY <1>2, <1>4, OneMoreSigner
<1>8. /\ PromisedPhase[m] = "open" /\ PromisedPhase'[m] = "open"
      /\ PromisedFigures[m] = FiguresOf(row) /\ PromisedFigures'[m] = FiguresOf(row)
      /\ PromisedSigners[m] = signers /\ PromisedSigners'[m] = Append(signers, Fold[by])
    BY <1>2, <1>4, <1>5, <1>6, <1>7 DEF PromisedPhase, PromisedFigures, PromisedSigners
<1> HIDE DEF signers
<1>9. /\ PromisedPhase' = [PromisedPhase EXCEPT ![m] = "open"]
      /\ PromisedFigures' = [PromisedFigures EXCEPT ![m] = FiguresOf(row)]
      /\ PromisedSigners' = [PromisedSigners EXCEPT ![m] = Append(signers, Fold[by])]
    BY <1>5, <1>6, <1>8, PromisedElsewhere
<1>10. UNCHANGED <<PromisedPhase, PromisedFigures>>
    <2>1. PromisedPhase' = PromisedPhase
        BY <1>8, <1>9 DEF PromisedPhase
    <2>2. PromisedFigures' = PromisedFigures
        BY <1>8, <1>9 DEF PromisedFigures
    <2> QED
        BY <2>1, <2>2
<1>11. row.stage \in 0 .. 3 /\ FiguresOf(row)[3] = row.payable /\ new.payable = row.payable
    BY <1>2, <1>4 DEF PaymentRow, Stages, Complete, FiguresOf
<1>12. PromisedTold' =
           IF row.stage < 2 THEN PromisedTold
           ELSE Append(PromisedTold,
                       <<m, IF row.stage = 2 THEN "authorized" ELSE "paid",
                         PromisedFigures[m][3]>>)
    <2>1. new.stage \in 1 .. Complete /\ new.stage - 1 = row.stage /\ currency \in Currencies
        BY <1>4, <1>11, InputsAssumption DEF Complete
    <2>2. outbox' = outbox \o Announcements(m, new, currency)
        BY <1>3, <1>4
    <2>3. PromisedTold' =
              IF new.stage - 1 < 2 THEN PromisedTold
              ELSE Append(PromisedTold,
                          <<m, IF new.stage - 1 = 2 THEN "authorized" ELSE "paid", new.payable>>)
        BY <2>1, <2>2, ToldOf
    <2> QED
        BY <1>8, <1>11, <2>1, <2>3
<1>13. row.stage = 0 \/ Fold[by] = "system" \/ Fold[by] # PromisedSigners[m][row.stage]
    <2>1. SignedBelow(row.history, row.stage)
        BY <1>2, <1>6 DEF RowsSound, RowSound
    <2>2. CASE row.stage > 0
        <3>1. Fold[by] = "system" \/ Fold[by] # Fold[row.history[row.stage - 1]]
            BY <1>2, <1>3, <2>1, <2>2, MaySign
        <3> QED
            BY <1>7, <1>8, <2>2, <3>1
    <2> QED
        BY <1>11, <2>2
<1>14. Len(PromisedSigners[m]) = row.stage
    BY <1>7, <1>8
<1>15. PromisedSigners' = [PromisedSigners EXCEPT ![m] = Append(@, Fold[by])]
    BY <1>8, <1>9
<1>16. Promise!Sign(m, Fold[by])
    <2> DEFINE signed == Len(PromisedSigners[m])
    <2>1. PromisedPhase[m] = "open" /\ signed < 4
        BY <1>8, <1>11, <1>14
    <2>2. signed = 0 \/ Fold[by] = "system" \/ Fold[by] # PromisedSigners[m][signed]
        BY <1>13, <1>14
    <2>3. PromisedTold' =
              IF signed < 2 THEN PromisedTold
              ELSE Append(PromisedTold,
                          <<m, IF signed = 2 THEN "authorized" ELSE "paid",
                            PromisedFigures[m][3]>>)
        BY <1>12, <1>14
    <2> QED
        BY <1>10, <1>15, <2>1, <2>2, <2>3 DEF Promise!Sign
<1> QED
    BY <1>16 DEF Promise!Next

\* DeleteMilestone withdraws the payment.
LEMMA DeleteWithdraws ==
    ASSUME TypeOK, NEW m \in Milestones, DeleteMilestone(m)
    PROVE  Promise!Next
<1>1. /\ milestone[m] # NoRow
      /\ milestone'[m] = NoRow /\ payment'[m] = NoRow /\ outbox' = outbox
      /\ \A n \in Milestones : n # m => payment'[n] = payment[n] /\ milestone'[n] = milestone[n]
    BY DEF DeleteMilestone, TypeOK
<1>2. /\ PromisedPhase[m] # "withdrawn" /\ PromisedPhase'[m] = "withdrawn"
      /\ PromisedFigures'[m] = << >> /\ PromisedSigners'[m] = << >>
    BY <1>1 DEF PromisedPhase, PromisedFigures, PromisedSigners
<1>3. /\ PromisedPhase' = [PromisedPhase EXCEPT ![m] = "withdrawn"]
      /\ PromisedFigures' = [PromisedFigures EXCEPT ![m] = << >>]
      /\ PromisedSigners' = [PromisedSigners EXCEPT ![m] = << >>]
    BY <1>1, <1>2, PromisedElsewhere
<1>4. PromisedTold' = PromisedTold
    BY <1>1 DEF PromisedTold
<1>5. Promise!Withdraw(m)
    BY <1>2, <1>3, <1>4 DEF Promise!Withdraw
<1> QED
    BY <1>5 DEF Promise!Next

LEMMA PromisedNext ==
    ASSUME TypeOK, RowsSound, Lone, EventsOn, [Next]_vars
    PROVE  [Promise!Next]_(Promise!vars)
<1>1. ASSUME NEW r \in Handlers, MarkMilestonePaid(r) \/ PatchMilestone(r)
      PROVE  UNCHANGED Promise!vars
    <2>1. \A m \in Milestones : milestone'[m] = NoRow <=> milestone[m] = NoRow
        BY <1>1, StillThere DEF MarkMilestonePaid, PatchMilestone
    <2>2. UNCHANGED <<payment, outbox>>
        BY <1>1 DEF MarkMilestonePaid, PatchMilestone
    <2> QED
        BY <2>1, <2>2, PromisedAlone
<1>2. CASE UNCHANGED <<milestone, payment, outbox>>
    BY <1>2, PromisedAlone
<1>3. ASSUME NEW r \in Handlers, NEW m \in Milestones,
             \/ OpenPayment(r, m) \/ OpenCorrection(r, m)
             \/ OpenAdvance(r, m) \/ OpenMilestone(r, m)
      PROVE  UNCHANGED <<milestone, payment, outbox>>
    BY <1>3 DEF OpenPayment, OpenCorrection, OpenAdvance, OpenMilestone
<1>4. ASSUME NEW r \in Handlers, ReadPaidMilestone(r) \/ Refuse(r) \/ Fail(r)
      PROVE  UNCHANGED <<milestone, payment, outbox>>
    BY <1>4 DEF ReadPaidMilestone, Refuse, Fail
<1> QED
    BY <1>1, <1>2, <1>3, <1>4, CreateRaises, PatchCorrects, AdvanceSigns, DeleteWithdraws
       DEF Next, vars

\* With one request in service at a time and the bus on, the tables implement the
\* promise made to finance and to an auditor, for any number of milestones, names and
\* figures, and although requests die and milestones are deleted under them: figures
\* change only before the first signature, signatures are four and four-eyed, and
\* finance hears once of each of the last two, in their order, of the signed payable.
THEOREM PromiseImplemented ==
    ASSUME OneAtATime, EventsOn
    PROVE  Spec => PromiseKept
<1>1. Spec => []Lone
    <2>1. TypeOK /\ Lone /\ [Next]_vars => Lone'
        BY LoneNext
    <2> QED
        BY <2>1, LoneInit, TypeCorrect, PTL DEF Spec
<1>2. TypeOK /\ RowsSound /\ Lone /\ [Next]_vars => [Promise!Next]_(Promise!vars)
    BY PromisedNext
<1> QED
    BY <1>1, <1>2, PromisedInit, TypeCorrect, RowsStaySound, PTL
       DEF Spec, PromiseKept, Promise!Spec
=============================================================================
