---------------------------- MODULE GovRegisters -----------------------------
(***************************************************************************)
(* The registers beside the contracts: budget lines and the requisitions   *)
(* charged to them, obligations, closeout checklists and approval rules    *)
(* (internal/controllers/governance_modules_controller.go,                 *)
(* internal/persistence/governance_modules.go,                             *)
(* internal/models/governance_modules.go).                                 *)
(*                                                                         *)
(* An editor is a request: it reads its row with one statement and writes  *)
(* all of it with another.  Nothing ties a requisition to a budget line    *)
(* but the text of the code; deleting a contract deletes its obligations   *)
(* and its closeout.                                                       *)
(***************************************************************************)
EXTENDS Naturals, FiniteSets, Sequences

LOCAL INSTANCE SequencesExt

CONSTANTS
    Editors,     \* requests in service at one time
    Codes,       \* budget codes
    Charges,     \* ids of requisitions
    Deals,       \* ids of contracts
    Duties,      \* ids of obligations
    DutyTexts,   \* obligation statuses users type
    Items,       \* items of a closeout checklist
    Rules,       \* ids of approval rules
    Bounds,      \* bounds of value bands
    Figures,     \* contract values a route is asked for
    Widest,      \* the width of an open band, 2^62
    MaxLines,    \* bound on the budget lines ever opened
    NoRecord     \* no row, no upper bound, no rule

\* The rows of the tables.
ChargeRow == [code : Codes, line : Nat, loose : BOOLEAN]
DutyRow == [deal : Deals, status : {"Open", "In Progress", "Overdue", "Met", "Waived"}]
CloseoutRow == [Items \cup {"status"} -> {"Open", "Closed", "yes", "no"}]

ASSUME RegAssumption ==
    /\ Duties \cap Deals = {} /\ "status" \notin Items
    /\ NoRecord \notin ChargeRow \cup DutyRow \cup CloseoutRow

VARIABLES
    budgets,     \* table gov_budgets: which line stands under a code, 0 for none
    lines,       \* budget lines ever opened
    charges,     \* budget_code of gov_requisitions, with the line it was meant for
    deals,       \* table gov_contracts
    duties,      \* table gov_obligations
    closeouts,   \* table gov_closeouts
    rules,       \* table gov_approval_rules
    editor,      \* what each request has read
    given,       \* what users last gave each obligation and closeout
    excused      \* obligations and closeouts on which requests overlapped or misread

regVars == <<budgets, lines, charges, deals, duties, closeouts, rules, editor, given, excused>>

budgetVars == <<budgets, lines, charges>>
recordVars == <<deals, duties, closeouts, given, excused>>

Unused == [op |-> "idle", of |-> NoRecord, row |-> NoRecord]

Hold(e, op, id, row) ==
    /\ editor[e].op = "idle"
    /\ editor' = [editor EXCEPT ![e] = [op |-> op, of |-> id, row |-> row]]

Release(e) == editor' = [editor EXCEPT ![e] = Unused]

\* What a patch names replaces what the row held of it.
Patched(row, in) == [x \in DOMAIN row |-> IF x \in DOMAIN in THEN in[x] ELSE row[x]]

\* The closeout of a contract that has none.
NoCloseout == [x \in Items \cup {"status"} |-> IF x = "status" THEN "Open" ELSE "no"]

RegInit ==
    /\ budgets = [c \in Codes |-> 0]
    /\ lines = 0
    /\ charges = [q \in Charges |-> NoRecord]
    /\ deals = Deals
    /\ duties = [o \in Duties |-> NoRecord]
    /\ closeouts = [d \in Deals |-> NoRecord]
    /\ rules = [i \in Rules |-> NoRecord]
    /\ editor = [e \in Editors |-> Unused]
    /\ given = [x \in Duties \cup Deals |-> IF x \in Deals THEN NoCloseout ELSE NoRecord]
    /\ excused = {}

-----------------------------------------------------------------------------
(* Budget lines and the requisitions charged to them.                       *)

Standing(c) == budgets[c] # 0
ChargedTo(c) == {q \in Charges : charges[q] # NoRecord /\ charges[q].code = c}

\* A code written into a requisition; "loose" when no line stands under it.
Charge(c) == [code |-> c, line |-> budgets[c], loose |-> ~Standing(c)]

\* The code is free text of the request.
ChargeRequisition(q) ==
    /\ charges[q] = NoRecord
    /\ \E c \in Codes : charges' = [charges EXCEPT ![q] = Charge(c)]
    /\ UNCHANGED <<budgets, lines, rules, editor, recordVars>>

OpenCharge(e, q) ==
    /\ charges[q] # NoRecord
    /\ Hold(e, "charge", q, charges[q].code)
    /\ UNCHANGED <<budgetVars, rules, recordVars>>

\* Rows a transaction in progress has written: others wait for them.
Locked(q) == \E e \in Editors : editor[e].op = "moved" /\ q \in editor[e].row.moved
LockedCode(c) == \E e \in Editors : editor[e].op = "moved" /\ c \in {editor[e].of, editor[e].row.to}

\* PatchRequisition: a code that is not typed is written back from the copy.
PatchCharge(e) ==
    LET q == editor[e].of
        read == editor[e].row IN
    /\ editor[e].op = "charge"
    /\ ~Locked(q)
    /\ \/ \E c \in Codes : charges' = [charges EXCEPT ![q] = Charge(c)]
       \/ charges' = [charges EXCEPT ![q].code = read, ![q].loose = @ \/ charges[q].code # read]
    /\ Release(e)
    /\ UNCHANGED <<budgets, lines, rules, recordVars>>

\* Of a code that stands it replaces the figures, which are left out here.
UpsertBudget(c) ==
    /\ ~Standing(c) /\ ~LockedCode(c)
    /\ lines < MaxLines
    /\ lines' = lines + 1
    /\ budgets' = [budgets EXCEPT ![c] = lines']
    /\ UNCHANGED <<charges, rules, editor, recordVars>>

\* PatchBudget: the line must be there, another code must be free.
OpenBudget(e, from) ==
    /\ Standing(from)
    /\ \E to \in Codes \ {from} : ~Standing(to) /\ Hold(e, "budget", from, [to |-> to])
    /\ UNCHANGED <<budgetVars, rules, recordVars>>

\* Fault: the requisitions keep the old code.
RepointedNone(from) == {}

Repointed(from) == ChargedTo(from)

\* RenameBudget: the statements of the transaction, which sees the committed
\* requisitions and holds those it repoints ...
RepointCharges(e) ==
    LET from == editor[e].of
        to == editor[e].row.to IN
    /\ editor[e].op = "budget"
    /\ Standing(from) /\ ~Standing(to)
    /\ ~LockedCode(from) /\ ~LockedCode(to)
    /\ editor' = [editor EXCEPT ![e] =
          [op |-> "moved", of |-> from,
           row |-> [to |-> to, moved |-> Repointed(from), seen |-> ChargedTo(from)]]]
    /\ UNCHANGED <<budgetVars, rules, recordVars>>

\* ... and its commit.  A requisition charged to the old code in between is loose.
RenameBudget(e) ==
    LET from == editor[e].of
        to == editor[e].row.to
        moved == editor[e].row.moved IN
    /\ editor[e].op = "moved"
    /\ budgets' = [budgets EXCEPT ![from] = 0, ![to] = budgets[from]]
    /\ charges' = [q \in Charges |->
          IF q \in moved THEN [charges[q] EXCEPT !.code = to]
          ELSE IF q \in ChargedTo(from) \ editor[e].row.seen THEN [charges[q] EXCEPT !.loose = TRUE]
          ELSE charges[q]]
    /\ Release(e)
    /\ UNCHANGED <<lines, rules, recordVars>>

DeleteBudget(c) ==
    /\ Standing(c) /\ ~LockedCode(c)
    /\ budgets' = [budgets EXCEPT ![c] = 0]
    /\ charges' = [q \in Charges |->
          IF q \in ChargedTo(c) THEN [charges[q] EXCEPT !.loose = TRUE] ELSE charges[q]]
    /\ UNCHANGED <<lines, rules, editor, recordVars>>

\* 404 or 409: the line is gone, or the new code was taken since.
RefuseRename(e) ==
    /\ editor[e].op = "budget"
    /\ ~Standing(editor[e].of) \/ Standing(editor[e].row.to)
    /\ Release(e)
    /\ UNCHANGED <<budgetVars, rules, recordVars>>

-----------------------------------------------------------------------------
(* Obligations.                                                             *)

NormalizeObligationStatus(text) ==
    CASE text \in {"Met", "met", "Compliant", "completed", "done", "closed"} -> "Met"
      [] text \in {"Waived", "waived", "n/a"} -> "Waived"
      [] text \in {"Overdue", "breached", "late"} -> "Overdue"
      [] text \in {"In Progress", "in-progress", "Due Soon", "active"} -> "In Progress"
      [] OTHER -> "Open"

IsObligationOpen(status) == NormalizeObligationStatus(status) \notin {"Met", "Waived"}

\* Counts: the statuses as they are stored.
CountsObligations ==
    Cardinality({o \in Duties : duties[o] # NoRecord /\ duties[o].status \notin {"Met", "Waived"}})

\* What users gave an obligation is what it now holds.
StoreDuty(o, row) == duties' = [duties EXCEPT ![o] = row]
GiveDuty(o, row) == given' = [given EXCEPT ![o] = row]

CreateObligation(o) ==
    /\ given[o] = NoRecord
    /\ \E d \in deals, text \in DutyTexts :
          LET row == [deal |-> d, status |-> NormalizeObligationStatus(text)] IN
          StoreDuty(o, row) /\ GiveDuty(o, row)
    /\ UNCHANGED <<budgetVars, deals, closeouts, rules, editor, excused>>

\* A write while another request holds a copy.
Overlapping(op, id, e) ==
    excused' = IF \E x \in Editors \ {e} : editor[x].op = op /\ editor[x].of = id
               THEN excused \cup {id} ELSE excused

OpenDuty(e, o) ==
    /\ duties[o] # NoRecord
    /\ Hold(e, "duty", o, duties[o])
    /\ UNCHANGED <<budgetVars, rules, recordVars>>

\* What a patch may name: nothing, a contract, a status, or both.
DutyPatches ==
    LET statuses == {NormalizeObligationStatus(text) : text \in DutyTexts} IN
    {<<>>} \cup [deal : deals] \cup [status : statuses] \cup [deal : deals, status : statuses]

\* PatchObligation: the rest is from the copy, and the foreign key refuses a
\* contract that is gone.
PatchObligation(e) ==
    LET o == editor[e].of IN
    /\ editor[e].op = "duty"
    /\ duties[o] # NoRecord
    /\ \E in \in DutyPatches :
          /\ Patched(editor[e].row, in).deal \in deals
          /\ StoreDuty(o, Patched(editor[e].row, in))
          /\ GiveDuty(o, Patched(given[o], in))
    /\ Overlapping("duty", o, e)
    /\ Release(e)
    /\ UNCHANGED <<budgetVars, deals, closeouts, rules>>

DeleteObligation(o) ==
    /\ duties[o] # NoRecord
    /\ StoreDuty(o, NoRecord)
    /\ UNCHANGED <<budgetVars, deals, closeouts, rules, editor, given, excused>>

-----------------------------------------------------------------------------
(* Closeout checklists, and the deletion of a contract.                     *)

\* GetCloseout: every error reads as a closeout that does not exist yet.
OpenCloseout(e, d) ==
    /\ d \in deals
    /\ \/ /\ Hold(e, "closeout", d, IF closeouts[d] = NoRecord THEN NoCloseout ELSE closeouts[d])
          /\ UNCHANGED excused
       \/ /\ Hold(e, "closeout", d, NoCloseout)
          /\ excused' = excused \cup {d}
    /\ UNCHANGED <<budgetVars, deals, duties, closeouts, rules, given>>

\* Fault: a request without a status reopens the closeout.
ApplyCloseoutReopening(c, in) == Patched([c EXCEPT !.status = "Open"], in)

ApplyCloseout(c, in) == Patched(c, in)

CloseoutPatches ==
    {<<>>} \cup [{"status"} -> {"Closed"}] \cup UNION {[items -> {"yes", "no"}] : items \in SUBSET Items}

UpsertCloseout(e) ==
    LET d == editor[e].of IN
    /\ editor[e].op = "closeout"
    /\ d \in deals
    /\ \E in \in CloseoutPatches :
          /\ closeouts' = [closeouts EXCEPT ![d] = ApplyCloseout(editor[e].row, in)]
          /\ given' = [given EXCEPT ![d] = Patched(@, in)]
    /\ Overlapping("closeout", d, e)
    /\ Release(e)
    /\ UNCHANGED <<budgetVars, deals, duties, rules>>

\* DeleteContract, with what refers to it.
DeleteDeal(d) ==
    /\ d \in deals
    /\ deals' = deals \ {d}
    /\ duties' = [o \in Duties |->
          IF duties[o] # NoRecord /\ duties[o].deal = d THEN NoRecord ELSE duties[o]]
    /\ closeouts' = [closeouts EXCEPT ![d] = NoRecord]
    /\ UNCHANGED <<budgetVars, rules, editor, given, excused>>

\* An error answer: the row is gone, or the contract it was to belong to.
RefuseRecord(e) ==
    /\ \/ editor[e].op = "duty" /\ \/ duties[editor[e].of] = NoRecord
                                   \/ editor[e].row.deal \notin deals
       \/ editor[e].op = "closeout" /\ editor[e].of \notin deals
    /\ Release(e)
    /\ UNCHANGED <<budgetVars, rules, recordVars>>

-----------------------------------------------------------------------------
(* Approval rules.                                                          *)

\* A blank status is "Active"; no bound above is NoRecord.
UpsertApprovalRule(i) ==
    /\ \E min \in Bounds, max \in Bounds \cup {NoRecord}, status \in {"", "Active", "Inactive"} :
          rules' = [rules EXCEPT ![i] =
              [min |-> min, max |-> max, status |-> IF status = "" THEN "Active" ELSE status]]
    /\ UNCHANGED <<budgetVars, editor, recordVars>>

DeleteApprovalRule(i) ==
    /\ rules[i] # NoRecord
    /\ rules' = [rules EXCEPT ![i] = NoRecord]
    /\ UNCHANGED <<budgetVars, editor, recordVars>>

\* ListApprovalRules: ORDER BY min_value, which leaves ties open.
ListingsOfRules ==
    {list \in SetToSeqs({i \in Rules : rules[i] # NoRecord}) :
        \A j \in 1 .. Len(list) - 1 : rules[list[j]].min <= rules[list[j + 1]].min}

\* Fault: an open band has no width.
BandWidthOpenNone(i) == IF rules[i].max = NoRecord THEN 0 ELSE rules[i].max - rules[i].min

BandWidth(i) == IF rules[i].max = NoRecord THEN Widest ELSE rules[i].max - rules[i].min

Narrower(i, j) == BandWidth(i) < BandWidth(j)

\* The value is in the band of the rule and the rule is active.
Applies(i, value) ==
    /\ rules[i].status = "Active"
    /\ rules[i].min <= value
    /\ rules[i].max # NoRecord => value < rules[i].max

\* The route of the rule the loop ends with, NoRecord for none.
ResolveApprovalRoute(list, value) ==
    LET Step(best, i) ==
            IF /\ Applies(i, value)
               /\ best # NoRecord => Narrower(i, best)
            THEN i ELSE best IN
    FoldLeft(Step, NoRecord, list)

-----------------------------------------------------------------------------
\* A request that dies between two statements; a transaction is rolled back.
EditorFails(e) ==
    /\ editor[e].op # "idle"
    /\ Release(e)
    /\ UNCHANGED <<budgetVars, rules, recordVars>>

BudgetNext ==
    \/ \E q \in Charges : ChargeRequisition(q)
    \/ \E c \in Codes : UpsertBudget(c) \/ DeleteBudget(c)
    \/ \E e \in Editors :
          \/ \E q \in Charges : OpenCharge(e, q)
          \/ \E c \in Codes : OpenBudget(e, c)
          \/ PatchCharge(e) \/ RepointCharges(e) \/ RenameBudget(e) \/ RefuseRename(e)
          \/ EditorFails(e)

ObligationNext ==
    \/ \E o \in Duties : CreateObligation(o) \/ DeleteObligation(o)
    \/ \E d \in Deals : DeleteDeal(d)
    \/ \E e \in Editors :
          \/ \E o \in Duties : OpenDuty(e, o)
          \/ PatchObligation(e) \/ RefuseRecord(e) \/ EditorFails(e)

CloseoutNext ==
    \/ \E d \in Deals : DeleteDeal(d)
    \/ \E e \in Editors :
          \/ \E d \in Deals : OpenCloseout(e, d)
          \/ UpsertCloseout(e) \/ RefuseRecord(e) \/ EditorFails(e)

RuleNext == \E i \in Rules : UpsertApprovalRule(i) \/ DeleteApprovalRule(i)

RegNext == BudgetNext \/ ObligationNext \/ CloseoutNext \/ RuleNext

RegSpec == RegInit /\ [][RegNext]_regVars

-----------------------------------------------------------------------------
\* "repointed here in the same transaction": whatever lines were renamed, deleted and
\* opened again meanwhile, and although the code is free text, a requisition is charged
\* to the line it was meant for, under whatever code that stands; unless its code was
\* written when no line stood under it, written back from a copy older than a rename,
\* or its line was deleted.
ChargedRight ==
    \A q \in Charges :
        charges[q] # NoRecord /\ ~charges[q].loose => budgets[charges[q].code] = charges[q].line

\* What a request does not name stays: an obligation and a closeout are what users
\* last gave each part of them, unless two requests overlapped on the record or the
\* checklist was misread as missing.  And "IsObligationOpen is the single source of
\* truth for the open obligations count": the badge, which the database counts from
\* the stored text, agrees with it about what users gave.
DecisionsKept ==
    /\ \A o \in Duties \ excused : duties[o] # NoRecord => duties[o] = given[o]
    /\ \A d \in deals \ excused :
          given[d] = IF closeouts[d] = NoRecord THEN NoCloseout ELSE closeouts[d]
    /\ Duties \cap excused = {} =>
          CountsObligations =
              Cardinality({o \in Duties : duties[o] # NoRecord /\ IsObligationOpen(given[o].status)})

\* "the active rule whose value band contains value, preferring the narrowest band":
\* for every value and however the database breaks ties of the lower bounds, a rule
\* is found if one applies, and no rule that applies has a narrower band: a bounded
\* one beats every open one.
RouteNarrowest ==
    \A list \in ListingsOfRules, value \in Figures :
        LET found == ResolveApprovalRoute(list, value)
            candidates == {i \in Rules : rules[i] # NoRecord /\ Applies(i, value)} IN
        IF candidates = {} THEN found = NoRecord
        ELSE /\ found \in candidates
             /\ \A i \in candidates : rules[i].max # NoRecord =>
                   /\ rules[found].max # NoRecord
                   /\ rules[found].max - rules[found].min <= rules[i].max - rules[i].min
=============================================================================
