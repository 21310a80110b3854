--------------------------- MODULE PaymentWorkflow --------------------------
(***************************************************************************)
(* The payment of a milestone: raised, corrected, cleared by four desks,   *)
(* announced to finance through the event outbox, and reflected on the     *)
(* milestone when paid                                                     *)
(* (internal/controllers/governance_workflow_controller.go).               *)
(*                                                                         *)
(* Every request reads its row with one statement, decides in memory and   *)
(* writes with another; no statement locks or checks a version in between. *)
(* A handler therefore holds a snapshot between its two database steps,    *)
(* and the snapshots of several handlers may be stale together.            *)
(***************************************************************************)
EXTENDS GovChain, Sequences

CONSTANTS
    Milestones,       \* milestone ids; a payment is identified by its milestone
    Handlers,         \* requests in service at one time
    AmountInputs,     \* amounts a request body may carry
    RetentionInputs,  \* retention percentages a request body may carry
    MilestoneStatus,  \* the valid milestone statuses, "Paid" among them
    Currencies,       \* currency codes
    ContractCurrency, \* the currency of the contract the milestones belong to
    EventsOn,         \* the event bus is configured
    Faults,           \* requests may die: crash, timeout, failed statement
    MaxEvents,        \* bound on the outbox rows written
    NoRow             \* no such row

ASSUME InputsAssumption ==
    /\ AmountInputs \subseteq Int
    /\ RetentionInputs \subseteq Int
    /\ {"Pending", "Paid"} \subseteq MilestoneStatus
    /\ {"UGX", ContractCurrency} \subseteq Currencies
    /\ EventsOn \in BOOLEAN /\ Faults \in BOOLEAN
    /\ MaxEvents \in Nat
    /\ Milestones # {}

VARIABLES
    milestone,   \* table gov_milestones: status and value of each row
    payment,     \* table gov_payments, at most one row per milestone
    outbox,      \* table contract_event_outbox in insertion order
    handler      \* what each request has read and has still to write

vars == <<milestone, payment, outbox, handler>>

-----------------------------------------------------------------------------
MilestoneRow == [status : MilestoneStatus, value : Int]

PaymentRow == [amount : Int, retention : 0 .. 100, payable : Int,
               stage : Stages, history : [Desks -> Signer]]

ASSUME NoRowAssumption == NoRow \notin PaymentRow \cup MilestoneRow

Event == [type : {"authorized", "paid"}, of : Milestones,
          payable : Int, currency : Currencies]

Ops == {"idle", "create", "patch", "advance", "paid", "flip", "milestone"}

Request == [op : Ops, of : Milestones,
            row : PaymentRow \cup {NoRow}, ms : MilestoneRow \cup {NoRow}]

Serving(op, m, row, ms) == [op |-> op, of |-> m, row |-> row, ms |-> ms]

AnyMilestone == CHOOSE m \in Milestones : TRUE
Idle == Serving("idle", AnyMilestone, NoRow, NoRow)

-----------------------------------------------------------------------------
\* Integer division of non-negative operands, as the int64 arithmetic does it.
Payable(amount, retention) == (amount * (100 - retention)) \div 100

Clamp(retention) ==
    IF retention < 0 THEN 0 ELSE IF retention > 100 THEN 100 ELSE retention

FiguresOf(row) == <<row.amount, row.retention, row.payable>>

NewPayment(amount, retention) ==
    [amount |-> amount, retention |-> retention,
     payable |-> Payable(amount, retention),
     stage |-> 0, history |-> [d \in Desks |-> Blank]]

\* GovPayment.Advance on the row a handler holds.
Advanced(row, by) ==
    [row EXCEPT !.stage = row.stage + 1, !.history[row.stage] = by]

\* Fault: only the step just signed is merged into the stored history.
UpdateChainOneStep(stored, mine) ==
    [stored EXCEPT !.stage = mine.stage,
                   !.history[mine.stage - 1] = mine.history[mine.stage - 1]]

\* Fault: the retention column is missing from the update.
UpdateAmountsKeepRetention(stored, mine) ==
    [stored EXCEPT !.amount = mine.amount, !.payable = mine.payable]

\* UpdatePayment and UpdatePaymentAmounts: each writes its own columns of the
\* stored row from the row in memory, whatever the others hold by now.
UpdateChain(stored, mine) ==
    [stored EXCEPT !.stage = mine.stage, !.history = mine.history]

UpdateAmounts(stored, mine) ==
    [stored EXCEPT !.amount = mine.amount, !.retention = mine.retention,
                   !.payable = mine.payable]

\* Fault: the events are filled from the row the handler read.
ReturnedFromMemory(stored, mine) == mine

\* The row the events of an advance are filled from: what the UPDATE returned.
Returned(stored, mine) == UpdateChain(stored, mine)

\* The events of one advance.  The currency is read through the pool, and is
\* "UGX" when that read fails.
Announcements(m, updated, currency) ==
    IF EventsOn /\ updated.stage \in {3, 4}
    THEN << [type |-> IF updated.stage = 3 THEN "authorized" ELSE "paid",
             of |-> m, payable |-> updated.payable, currency |-> currency] >>
    ELSE << >>

\* Fault: PublishCommercial in place of PublishCommercialTx, whose enqueue may
\* fail and not say so.
EnqueueBestEffort(events) == outbox' = outbox \/ outbox' = outbox \o events

\* Enqueue on the transaction of the row it announces: both or neither.
Enqueue(events) == outbox' = outbox \o events

-----------------------------------------------------------------------------
\* The milestones as CreateMilestone leaves them: it takes any valid status.
Init ==
    /\ milestone \in [Milestones -> [status : MilestoneStatus, value : AmountInputs]]
    /\ payment = [m \in Milestones |-> NoRow]
    /\ outbox = << >>
    /\ handler = [r \in Handlers |-> Idle]

Begin(r, request) ==
    /\ handler[r].op = "idle"
    /\ handler' = [handler EXCEPT ![r] = request]

End(r) == handler' = [handler EXCEPT ![r] = Idle]

\* CreatePayment up to the insert.  A milestone that already has a payment is
\* answered with that payment and nothing is written.
OpenPayment(r, m) ==
    /\ milestone[m] # NoRow
    /\ payment[m] = NoRow
    /\ Begin(r, Serving("create", m, NoRow, milestone[m]))
    /\ UNCHANGED <<milestone, payment, outbox>>

\* The insert of CreatePayment.  milestone_id is unique and references the
\* milestone, so it fails when the milestone is paid for or gone by now.
CreatePayment(r) ==
    /\ handler[r].op = "create"
    /\ LET m == handler[r].of IN
       /\ milestone[m] # NoRow
       /\ payment[m] = NoRow
       /\ \E amount \in AmountInputs \cup {handler[r].ms.value},
             retention \in RetentionInputs :
            /\ amount >= 0
            /\ payment' = [payment EXCEPT
                               ![m] = NewPayment(amount, Clamp(retention))]
    /\ End(r)
    /\ UNCHANGED <<milestone, outbox>>

\* Fault: the stage of the payment is not looked at.
OpenCorrectionAnyStage(r, m) ==
    /\ payment[m] # NoRow
    /\ Begin(r, Serving("patch", m, payment[m], NoRow))
    /\ UNCHANGED <<milestone, payment, outbox>>

\* PatchPayment up to the update: only a payment nobody has cleared.
OpenCorrection(r, m) ==
    /\ payment[m] # NoRow
    /\ payment[m].stage = 0
    /\ Begin(r, Serving("patch", m, payment[m], NoRow))
    /\ UNCHANGED <<milestone, payment, outbox>>

\* The update of PatchPayment.  Either figure may be absent from the body, and
\* then the snapshot's is written back.
PatchPayment(r) ==
    /\ handler[r].op = "patch"
    /\ LET m == handler[r].of
           row == handler[r].row IN
       /\ payment[m] # NoRow
       /\ \E amount \in AmountInputs \cup {row.amount},
             retention \in RetentionInputs \cup {row.retention} :
            /\ amount >= 0
            /\ retention \in 0 .. 100
            /\ payment' = [payment EXCEPT ![m] =
                   UpdateAmounts(payment[m],
                       [row EXCEPT !.amount = amount, !.retention = retention,
                                   !.payable = Payable(amount, retention)])]
    /\ End(r)
    /\ UNCHANGED <<milestone, outbox>>

\* Fault: a completed payment is not refused.
OpenAdvanceUnguarded(r, m) ==
    /\ payment[m] # NoRow
    /\ Begin(r, Serving("advance", m, payment[m], NoRow))
    /\ UNCHANGED <<milestone, payment, outbox>>

\* AdvancePayment up to the transaction: a completed payment is refused.
OpenAdvance(r, m) ==
    /\ payment[m] # NoRow
    /\ payment[m].stage < Complete
    /\ Begin(r, Serving("advance", m, payment[m], NoRow))
    /\ UNCHANGED <<milestone, payment, outbox>>

\* The transaction of AdvancePayment: the chain columns of the row and the
\* events of the stage just cleared.  The last stage leaves the handler with
\* the milestone still to mark.
AdvancePayment(r) ==
    /\ handler[r].op = "advance"
    /\ LET m == handler[r].of
           row == handler[r].row IN
       /\ payment[m] # NoRow
       /\ \E by \in Names,
             currency \in {ContractCurrency} \cup (IF Faults THEN {"UGX"} ELSE {}) :
            LET mine == Advanced(row, by)
                events == Announcements(m, Returned(payment[m], mine), currency)
            IN /\ ~SelfSuccession(row.history, row.stage, by)
               /\ Len(outbox) + Len(events) <= MaxEvents
               /\ payment' = [payment EXCEPT ![m] = UpdateChain(payment[m], mine)]
               /\ Enqueue(events)
               /\ IF mine.stage = Complete
                  THEN handler' = [handler EXCEPT
                                      ![r] = Serving("paid", m, NoRow, NoRow)]
                  ELSE End(r)
    /\ UNCHANGED milestone

\* AdvancePayment after the commit: read the milestone, then write it back
\* whole with status Paid.  The errors of both are dropped.
ReadPaidMilestone(r) ==
    /\ handler[r].op = "paid"
    /\ LET m == handler[r].of IN
       /\ milestone[m] # NoRow
       /\ handler' = [handler EXCEPT
                          ![r] = Serving("flip", m, NoRow, milestone[m])]
    /\ UNCHANGED <<milestone, payment, outbox>>

\* Fault: the row is written back as it was read.
MarkMilestoneAsRead(r) ==
    /\ handler[r].op = "flip"
    /\ LET m == handler[r].of IN
       /\ milestone[m] # NoRow
       /\ milestone' = [milestone EXCEPT ![m] = handler[r].ms]
    /\ End(r)
    /\ UNCHANGED <<payment, outbox>>

MarkMilestonePaid(r) ==
    /\ handler[r].op = "flip"
    /\ LET m == handler[r].of IN
       /\ milestone[m] # NoRow
       /\ milestone' = [milestone EXCEPT
                            ![m] = [handler[r].ms EXCEPT !.status = "Paid"]]
    /\ End(r)
    /\ UNCHANGED <<payment, outbox>>

\* PatchMilestone: any valid status, any value, and the whole row written back.
OpenMilestone(r, m) ==
    /\ milestone[m] # NoRow
    /\ Begin(r, Serving("milestone", m, NoRow, milestone[m]))
    /\ UNCHANGED <<milestone, payment, outbox>>

PatchMilestone(r) ==
    /\ handler[r].op = "milestone"
    /\ LET m == handler[r].of
           ms == handler[r].ms IN
       /\ milestone[m] # NoRow
       /\ \E status \in MilestoneStatus, value \in AmountInputs \cup {ms.value} :
            milestone' = [milestone EXCEPT
                             ![m] = [status |-> status, value |-> value]]
    /\ End(r)
    /\ UNCHANGED <<payment, outbox>>

\* DeleteMilestone, or the deletion of its contract: the payment goes with it.
DeleteMilestone(m) ==
    /\ milestone[m] # NoRow
    /\ milestone' = [milestone EXCEPT ![m] = NoRow]
    /\ payment' = [payment EXCEPT ![m] = NoRow]
    /\ UNCHANGED <<outbox, handler>>

\* A request answered with an error before it wrote: the row it meant to write
\* is gone, the milestone got a payment meanwhile, the body does not validate,
\* or the actor cleared the desk before.
Refuse(r) ==
    /\ LET m == handler[r].of IN
       \/ handler[r].op = "create" /\ payment[m] # NoRow
       \/ handler[r].op \in {"create", "paid", "flip", "milestone"} /\ milestone[m] = NoRow
       \/ handler[r].op \in {"patch", "advance"} /\ payment[m] = NoRow
       \/ handler[r].op \in {"create", "patch"} /\ \E amount \in AmountInputs : amount < 0
       \/ /\ handler[r].op = "advance"
          /\ \E by \in Names :
                SelfSuccession(handler[r].row.history, handler[r].row.stage, by)
    /\ End(r)
    /\ UNCHANGED <<milestone, payment, outbox>>

\* A request that dies between its database steps: the process stops, the
\* client goes away, the deadline passes or a statement fails.  A transaction
\* in progress is rolled back.
Fail(r) ==
    /\ Faults
    /\ handler[r].op # "idle"
    /\ End(r)
    /\ UNCHANGED <<milestone, payment, outbox>>

Next ==
    \/ \E r \in Handlers, m \in Milestones :
          \/ OpenPayment(r, m)
          \/ OpenCorrection(r, m)
          \/ OpenAdvance(r, m)
          \/ OpenMilestone(r, m)
    \/ \E r \in Handlers :
          \/ CreatePayment(r)
          \/ PatchPayment(r)
          \/ AdvancePayment(r)
          \/ ReadPaidMilestone(r)
          \/ MarkMilestonePaid(r)
          \/ PatchMilestone(r)
          \/ Refuse(r)
          \/ Fail(r)
    \/ \E m \in Milestones : DeleteMilestone(m)

Spec == Init /\ [][Next]_vars

\* A handler that has committed the last stage goes on to the milestone; users
\* owe nothing.
FairSpec ==
    /\ Spec
    /\ \A r \in Handlers : WF_vars(ReadPaidMilestone(r) \/ MarkMilestonePaid(r))

-----------------------------------------------------------------------------
\* What a handler has read is fit for what it is about to write.
SnapshotOK(request) ==
    /\ request.op \in {"patch", "advance"} =>
          request.row \in PaymentRow /\ request.row.stage < Complete
    /\ request.op \in {"create", "flip", "milestone"} => request.ms \in MilestoneRow

TypeOK ==
    /\ milestone \in [Milestones -> MilestoneRow \cup {NoRow}]
    /\ payment \in [Milestones -> PaymentRow \cup {NoRow}]
    /\ outbox \in Seq(Event)
    /\ handler \in [Handlers -> Request]
    /\ \A r \in Handlers : SnapshotOK(handler[r])

\* Segregation of duties (ErrSelfSuccession): whatever handlers overlapped, no
\* two successive desks of a stored payment were cleared by one person, in any
\* spelling of the name, the machine excepted.
PaymentFourEyes ==
    \A m \in Milestones :
        payment[m] # NoRow => FourEyes(payment[m].history, payment[m].stage)

\* The cursor of a stored payment and its steps tell one story: the desks below
\* the cursor are signed and the others are not, although stage and history
\* are rewritten by overlapping requests that read different rows.
CursorMatchesHistory ==
    \A m \in Milestones :
        payment[m] # NoRow => SignedBelow(payment[m].history, payment[m].stage)

Announced(m, type) ==
    \E i \in DOMAIN outbox : outbox[i].of = m /\ outbox[i].type = type

\* InTx: a payment authorized here is never invisible to finance.  A stored row
\* past the authorization stage has its instruction in the outbox, and a paid
\* one its confirmation, whatever crashed or rolled back on the way.
AuthorizedIsInstructed ==
    EventsOn =>
        \A m \in Milestones :
            payment[m] # NoRow =>
                /\ payment[m].stage >= 3 => Announced(m, "authorized")
                /\ payment[m].stage = 4 => Announced(m, "paid")

\* RecomputePayable: the stored payable never disagrees with the two figures it
\* is derived from, and lies between nothing and the gross amount, although
\* corrections of one payment overlap.
PayableAgrees ==
    \A m \in Milestones :
        payment[m] # NoRow =>
            /\ payment[m].payable = Payable(payment[m].amount, payment[m].retention)
            /\ payment[m].payable \in 0 .. payment[m].amount

\* Why the three hold although handlers write rows they read long ago: what a
\* handler is about to advance was a stored row once, so its steps are sound, and
\* what finance was told of that row is in the outbox for good.
RowSound(m, row) ==
    /\ FourEyes(row.history, row.stage)
    /\ SignedBelow(row.history, row.stage)
    /\ EventsOn => /\ row.stage >= 3 => Announced(m, "authorized")
                   /\ row.stage = 4 => Announced(m, "paid")

RowsSound ==
    /\ \A m \in Milestones : payment[m] # NoRow => RowSound(m, payment[m])
    /\ \A r \in Handlers :
          handler[r].op = "advance" => RowSound(handler[r].of, handler[r].row)

\* What is announced to finance is what the row says when it is announced: an
\* event enters the outbox only in the step that moves its payment to the
\* stage it names, with the payable that row holds at the commit, not the one
\* the handler read before.
AnnouncementMatchesRow ==
    [][ Len(outbox') > Len(outbox) =>
          LET e == outbox'[Len(outbox')]
              row == payment'[e.of]
          IN /\ row # NoRow
             /\ row.stage = (IF e.type = "authorized" THEN 3 ELSE 4)
             /\ row.payable = e.payable ]_vars

\* "marking paid flips the milestone to Paid": a request that cleared the last
\* desk of a payment gets its milestone to Paid, unless the milestone is deleted
\* first.
PaidReachesMilestone ==
    \A m \in Milestones :
        (\E r \in Handlers : handler[r].op = "paid" /\ handler[r].of = m)
            ~> (milestone[m] = NoRow \/ milestone[m].status = "Paid")

-----------------------------------------------------------------------------
(* What the comments and tests say of a payment and the code does not keep.  *)

\* "Server-side stage sequencing is the integrity the client-only prototype
\* could not enforce": an existing payment moves one stage forward at a time.
StageSequencing ==
    [][ \A m \in Milestones :
          payment[m] # NoRow /\ payment'[m] # NoRow =>
              payment'[m].stage \in {payment[m].stage, payment[m].stage + 1} ]_vars

\* "from stage 1 the figures are what someone signed for": they do not change.
FiguresFixedOnceSigned ==
    [][ \A m \in Milestones :
          payment[m] # NoRow /\ payment'[m] # NoRow /\ payment[m].stage > 0 =>
              FiguresOf(payment'[m]) = FiguresOf(payment[m]) ]_vars

\* "The contract's own currency": finance is told the currency of the contract.
EventsInContractCurrency ==
    \A i \in DOMAIN outbox : outbox[i].currency = ContractCurrency

\* The smoke test walks a payment through its four stages as one "approver": who
\* cleared a desk may clear the next.
SameApproverMayContinue ==
    \A m \in Milestones :
        payment[m] # NoRow /\ payment[m].stage \in 1 .. 3 =>
            MayClear(payment[m].history, payment[m].stage,
                     payment[m].history[payment[m].stage - 1])

-----------------------------------------------------------------------------
\* What the tables say of each payment in the words of PaymentPromise.
PromisedPhase ==
    [m \in Milestones |-> IF milestone[m] = NoRow THEN "withdrawn"
                          ELSE IF payment[m] = NoRow THEN "unraised"
                          ELSE "open"]

PromisedFigures ==
    [m \in Milestones |-> IF payment[m] = NoRow THEN << >> ELSE FiguresOf(payment[m])]

SignersOf(steps, stage) == [d \in 1 .. stage |-> Fold[steps[d - 1]]]

PromisedSigners ==
    [m \in Milestones |->
        IF payment[m] = NoRow THEN << >>
        ELSE SignersOf(payment[m].history, payment[m].stage)]

PromisedTold ==
    [i \in DOMAIN outbox |-> <<outbox[i].of, outbox[i].type, outbox[i].payable>>]

PromisedAmounts ==
    {<<amount, retention, Payable(amount, retention)>> :
        amount \in {a \in AmountInputs : a >= 0}, retention \in 0 .. 100}

Promise == INSTANCE PaymentPromise WITH
    Figures <- PromisedAmounts,
    NoFigures <- << >>,
    People <- {Fold[n] : n \in Names},
    phase <- PromisedPhase,
    figures <- PromisedFigures,
    signers <- PromisedSigners,
    told <- PromisedTold

\* One request at a time, the tables keep the promise made to finance and to an
\* auditor, whatever dies between the database steps of a request.
PromiseKept == Promise!Spec

=============================================================================
