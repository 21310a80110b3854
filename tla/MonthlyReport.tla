---------------------------- MODULE MonthlyReport ----------------------------
(***************************************************************************)
(* The monthly report: contractors, the contracts of the works register,   *)
(* their progress reports, the valuations (contractor invoices), and the   *)
(* import of a workbook into all four                                      *)
(* (internal/imports/monthly_report.go,                                    *)
(* internal/controllers/monthly_report_controller.go,                      *)
(* internal/persistence/monthly_report.go,                                 *)
(* internal/models/monthly_report.go).                                     *)
(*                                                                         *)
(* An import is a loop over the rows of three sheets, each row up to four  *)
(* statements in transactions of their own; it stops at the first error    *)
(* and what it wrote before stays.  Users edit the same rows meanwhile,    *)
(* reading a row with one statement and writing all of it with another.    *)
(* Rows are identified by their place in the sequence of all rows ever     *)
(* inserted; 0 is no row.  Names are compared folded to one case.          *)
(***************************************************************************)
EXTENDS Naturals, Sequences, FiniteSets

CONSTANTS
    Importers,       \* imports in service at one time
    Clerks,          \* requests in service at one time
    Tracker,         \* the works sheet: sequence of [number, name, text]
    Verified,        \* the "Contractors verified" sheet: sequence of contractor names
    Consultancy,     \* the consultancy sheet: sequence of [number, name, progress]
    NewName,         \* the name a contractor or an invoice is renamed to
    TypedTexts,      \* execution statuses typed into a progress report
    TypedExecs,      \* execution statuses given to a contract
    TypedStatuses,   \* statuses given to a valuation
    MaxRows,         \* bound on the rows a table ever gets
    MaxEdits         \* bound on the writes of users

ASSUME MonthAssumption ==
    /\ Tracker \in Seq([number : STRING, name : STRING, text : STRING])
    /\ Verified \in Seq(STRING)
    /\ Consultancy \in Seq([number : STRING, name : STRING, progress : Nat])
    /\ MaxRows \in Nat /\ MaxEdits \in Nat
    /\ Importers \cap Clerks = {}

VARIABLES
    contractors,     \* table gov_contractors
    works,           \* table gov_contracts, with the row of gov_progress_reports
    valuations,      \* table gov_valuations, with the status a person decided
    importer,        \* where each import is and what it remembers
    clerk,           \* the row each request has read
    edits,           \* writes of users so far
    disturbed,       \* imports during which others wrote or a statement failed
    crossed,         \* valuations written while another held a copy
    raced            \* names whose valuations were inserted, moved or renamed behind an import

monthVars == <<contractors, works, valuations, importer, clerk, edits,
               disturbed, crossed, raced>>

-----------------------------------------------------------------------------
(* The execution status of a contract, and the summary of a month.          *)

NormalizeExecutionStatus(text) ==
    CASE text \in {"Completed", "complete", "done", "finished"} -> "Completed"
      [] text \in {"Ongoing", "active", "in progress", "in-progress"} -> "Ongoing"
      [] text \in {"Halted", "stopped"} -> "Halted"
      [] text \in {"Paused", "on hold", "on-hold"} -> "Paused"
      [] OTHER -> "Not Started"

ExecutionStatuses == {"Not Started", "Ongoing", "Paused", "Halted", "Completed"}

\* PatchContract validates a status that is given.
ASSUME TypedExecsAssumption == TypedExecs \subseteq ExecutionStatuses

ExecForProgress(p) ==
    IF p >= 100 THEN "Completed" ELSE IF p > 0 THEN "Ongoing" ELSE "Not Started"

NoReport == "no report"

\* The status a contract is counted under: that of the report of the month unless
\* there is none or it leaves the status blank.
SummaryStatus(w) ==
    IF w.report \in {NoReport, ""} THEN w.exec ELSE NormalizeExecutionStatus(w.report)

LiveWorks == {i \in DOMAIN works : works[i].live}

\* BuildMonthlySummary: one count per status, in all and per contractor.
BuildMonthlySummary ==
    LET Counted(ws) == [s \in ExecutionStatuses |->
                           Cardinality({i \in ws : SummaryStatus(works[i]) = s})] IN
    [total |-> Cardinality(LiveWorks),
     all |-> Counted(LiveWorks),
     by |-> [n \in {works[i].name : i \in LiveWorks} |->
                Counted({i \in LiveWorks : works[i].name = n})]]

-----------------------------------------------------------------------------
(* The program of an import: what it does row after row.                    *)

Plan ==
    [i \in DOMAIN Tracker |-> [do |-> "work", number |-> Tracker[i].number,
        name |-> Tracker[i].name, exec |-> NormalizeExecutionStatus(Tracker[i].text)]]
    \o <<[do |-> "list"]>>
    \o [i \in DOMAIN Verified |-> [do |-> "valuation", name |-> Verified[i]]]
    \o [i \in DOMAIN Consultancy |-> [do |-> "work", number |-> Consultancy[i].number,
        name |-> Consultancy[i].name, exec |-> ExecForProgress(Consultancy[i].progress)]]

RowsOf(do) == {Plan[i] : i \in {j \in DOMAIN Plan : Plan[j].do = do}}
SheetNames == {row.name : row \in RowsOf("work") \cup RowsOf("valuation")}
InvoiceNames == {row.name : row \in RowsOf("valuation")}
Numbers == {row.number : row \in RowsOf("work")}
NothingListed == [n \in InvoiceNames |-> [id |-> 0, status |-> "Draft"]]

AtRest == [at |-> 0, step |-> "idle", known |-> [n \in SheetNames |-> 0], found |-> 0,
           listing |-> NothingListed]
FreeClerk == [op |-> "idle"]

Active == {p \in Importers : importer[p].step # "idle"}
Here(p) == Plan[importer[p].at]

StepOf(k) ==
    IF k > Len(Plan) THEN "done" ELSE IF Plan[k].do = "list" THEN "list" ELSE "ensure"

Moved(p, next) == importer' = [importer EXCEPT ![p] = next]
NextStep(p, step) == Moved(p, [importer[p] EXCEPT !.step = step])
NextRow(p) ==
    Moved(p, [importer[p] EXCEPT !.at = @ + 1, !.step = StepOf(importer[p].at + 1), !.found = 0])

Ended(p) == Moved(p, AtRest) /\ disturbed' = disturbed \ {p}

\* A write of actor disturbs the other imports.
Disturbs(actor) == disturbed' = disturbed \cup (Active \ {actor})

\* Who besides actor is going to write valuation v from a copy.
Copied(actor, v) ==
    \/ \E k \in Clerks \ {actor} : clerk[k].op = "valuation" /\ clerk[k].id = v
    \/ \E q \in Active \ {actor}, j \in DOMAIN Plan :
          /\ j >= importer[q].at
          /\ Plan[j].do = "valuation"
          /\ importer[q].listing[Plan[j].name].id = v
Overlaps(actor, v) == crossed' = IF Copied(actor, v) THEN crossed \cup {v} ELSE crossed

MonthInit ==
    /\ contractors = <<>> /\ works = <<>> /\ valuations = <<>>
    /\ importer = [p \in Importers |-> AtRest]
    /\ clerk = [k \in Clerks |-> FreeClerk]
    /\ edits = 0
    /\ disturbed = {} /\ crossed = {} /\ raced = {}

-----------------------------------------------------------------------------
(* The statements of an import.                                             *)

StartImport(p) ==
    /\ importer[p].step = "idle"
    /\ Moved(p, [AtRest EXCEPT !.at = 1, !.step = StepOf(1)])
    /\ UNCHANGED <<contractors, works, valuations, clerk, edits, disturbed, crossed, raced>>

Named(name) == {i \in DOMAIN contractors : contractors[i].live /\ contractors[i].name = name}

\* The table afterwards and the id of the row.
UpsertContractorByName(name) ==
    IF Named(name) # {} THEN <<contractors, CHOOSE i \in Named(name) : TRUE>>
    ELSE <<Append(contractors, [name |-> name, live |-> TRUE]), Len(contractors) + 1>>

\* ensureContractor: a name is looked up once, a blank one never, and an error
\* leaves the row without a link.
EnsureContractor(p) ==
    LET name == Here(p).name
        next == IF Here(p).do = "work" THEN "get" ELSE "save" IN
    /\ importer[p].step = "ensure"
    /\ \/ /\ name = "" \/ importer[p].known[name] # 0
          /\ NextStep(p, next)
          /\ UNCHANGED <<contractors, disturbed>>
       \/ /\ name # "" /\ importer[p].known[name] = 0
          /\ LET upserted == UpsertContractorByName(name) IN
             /\ Len(upserted[1]) <= MaxRows
             /\ contractors' = upserted[1]
             /\ Moved(p, [importer[p] EXCEPT !.step = next, !.known[name] = upserted[2]])
          /\ Disturbs(p)
    /\ UNCHANGED <<works, valuations, clerk, edits, crossed, raced>>

EnsureFails(p) ==
    LET name == Here(p).name IN
    /\ importer[p].step = "ensure"
    /\ name # "" /\ importer[p].known[name] = 0
    /\ NextStep(p, IF Here(p).do = "work" THEN "get" ELSE "save")
    /\ disturbed' = disturbed \cup {p}
    /\ UNCHANGED <<contractors, works, valuations, clerk, edits, crossed, raced>>

Numbered(number) == {i \in LiveWorks : works[i].number = number}

GetWork(p) ==
    /\ importer[p].step = "get"
    /\ LET found == Numbered(Here(p).number) IN
       Moved(p, [importer[p] EXCEPT !.step = "save",
                    !.found = IF found = {} THEN 0 ELSE CHOOSE i \in found : TRUE])
    /\ UNCHANGED <<contractors, works, valuations, clerk, edits, disturbed, crossed, raced>>

\* The references the foreign keys accept.
Links == {0} \cup {i \in DOMAIN contractors : contractors[i].live}
Linkable(link) == link \in Links
LinkOf(p) == IF Here(p).name = "" THEN 0 ELSE importer[p].known[Here(p).name]

\* Fault: the number of a contract need not be free.
WorkSavedTwice(p) ==
    /\ Linkable(LinkOf(p))
    /\ importer[p].found # 0 => works[importer[p].found].live

\* upsertContract: UpdateContract by id of the row that was found, or CreateContract,
\* of a number no other row has.
WorkSaved(p) ==
    LET id == importer[p].found IN
    /\ Linkable(LinkOf(p))
    /\ id # 0 => works[id].live
    /\ Numbered(Here(p).number) \subseteq {id}

\* Fault: the update leaves the contractor out.
UpdatedWorkUnlinked(stored, row, link) ==
    [stored EXCEPT !.number = row.number, !.name = row.name, !.exec = row.exec]

UpdatedWork(stored, row, link) ==
    [stored EXCEPT !.number = row.number, !.name = row.name, !.link = link, !.exec = row.exec]

UpsertWork(p) ==
    LET id == importer[p].found
        row == Here(p) IN
    /\ importer[p].step = "save" /\ row.do = "work"
    /\ WorkSaved(p)
    /\ IF id # 0
       THEN works' = [works EXCEPT ![id] = UpdatedWork(@, row, LinkOf(p))]
       ELSE /\ Len(works) < MaxRows
            /\ works' = Append(works, [number |-> row.number, name |-> row.name,
                    link |-> LinkOf(p), exec |-> row.exec, report |-> NoReport, live |-> TRUE])
    /\ Moved(p, [importer[p] EXCEPT !.step = "report", !.found = IF id # 0 THEN id ELSE Len(works')])
    /\ Disturbs(p)
    /\ UNCHANGED <<contractors, valuations, clerk, edits, crossed, raced>>

\* UpsertProgressReport: replaces the report of the contract for the month.
UpsertProgressReport(p) ==
    /\ importer[p].step = "report"
    /\ works[importer[p].found].live
    /\ works' = [works EXCEPT ![importer[p].found].report = Here(p).exec]
    /\ NextRow(p)
    /\ Disturbs(p)
    /\ UNCHANGED <<contractors, valuations, clerk, edits, crossed, raced>>

\* Fault: the listing is of another month.
ListedUnderOtherMonth(name) ==
    {v \in DOMAIN valuations : /\ valuations[v].live /\ valuations[v].name = name
                               /\ valuations[v].month = "other"}

ListedUnder(name) ==
    {v \in DOMAIN valuations : /\ valuations[v].live /\ valuations[v].name = name
                               /\ valuations[v].month = "this"}

\* ListValuations, once and before the rows.  Of two under one name the later in the
\* list is remembered, in an order the query leaves open; an error is no listing.
ListValuations(p) ==
    /\ importer[p].step = "list"
    /\ \E listing \in [InvoiceNames -> 0 .. Len(valuations)] :
          /\ \A n \in InvoiceNames :
                IF ListedUnder(n) = {} THEN listing[n] = 0 ELSE listing[n] \in ListedUnder(n)
          /\ Moved(p, [importer[p] EXCEPT !.at = @ + 1, !.step = StepOf(importer[p].at + 1),
                 !.listing = [n \in InvoiceNames |->
                     IF listing[n] = 0 THEN NothingListed[n]
                     ELSE [id |-> listing[n], status |-> valuations[listing[n]].status]]])
    /\ UNCHANGED <<contractors, works, valuations, clerk, edits, disturbed, crossed, raced>>

ListFails(p) ==
    /\ importer[p].step = "list"
    /\ NextRow(p)
    /\ disturbed' = disturbed \cup {p}
    /\ raced' = raced \cup InvoiceNames
    /\ UNCHANGED <<contractors, works, valuations, clerk, edits, crossed>>

ValuationSaved(p) ==
    LET prev == importer[p].listing[Here(p).name] IN
    /\ Linkable(LinkOf(p))
    /\ IF prev.id = 0 THEN TRUE ELSE valuations[prev.id].live

\* Fault: the update writes the status of a row without one.
InvoiceStatusBlank(prev) == "Draft"

\* The commercial fields of the row are those of the listing.
InvoiceStatus(prev) == prev.status

\* The row of the listing is replaced; a name the listing had not gets a new row.
SaveValuation(p) ==
    LET name == Here(p).name
        prev == importer[p].listing[name] IN
    /\ importer[p].step = "save" /\ Here(p).do = "valuation"
    /\ ValuationSaved(p)
    /\ \/ /\ prev.id # 0
          /\ valuations' = [valuations EXCEPT ![prev.id] =
                 [@ EXCEPT !.name = name, !.link = LinkOf(p), !.month = "this",
                           !.figure = "sheet", !.status = InvoiceStatus(prev)]]
          /\ Overlaps(p, prev.id)
          /\ UNCHANGED raced
       \/ /\ prev.id = 0
          /\ Len(valuations) < MaxRows
          /\ valuations' = Append(valuations, [name |-> name, link |-> LinkOf(p), month |-> "this",
                 figure |-> "sheet", status |-> "Draft", live |-> TRUE,
                 by |-> "import", decided |-> "Draft"])
          /\ raced' = IF \E q \in Active \ {p}, j \in DOMAIN Plan :
                            /\ j >= importer[q].at
                            /\ Plan[j] = Here(p)
                            /\ importer[q].at > Len(Tracker) + 1
                            /\ importer[q].listing[name].id = 0
                      THEN raced \cup {name} ELSE raced
          /\ UNCHANGED crossed
    /\ NextRow(p)
    /\ Disturbs(p)
    /\ UNCHANGED <<contractors, works, clerk, edits>>

\* The first error ends the import: a row gone, a number or a link refused; what
\* was written stays.
AbortImport(p) ==
    /\ \/ importer[p].step = "save" /\ Here(p).do = "work" /\ ~WorkSaved(p)
       \/ importer[p].step = "save" /\ Here(p).do = "valuation" /\ ~ValuationSaved(p)
       \/ importer[p].step = "report" /\ ~works[importer[p].found].live
    /\ Ended(p)
    /\ UNCHANGED <<contractors, works, valuations, clerk, edits, crossed, raced>>

\* A statement that fails, or the end of the process.
ImportFails(p) ==
    /\ importer[p].step \notin {"idle", "done"}
    /\ Ended(p)
    /\ UNCHANGED <<contractors, works, valuations, clerk, edits, crossed, raced>>

AnswerImport(p) ==
    /\ importer[p].step = "done"
    /\ Ended(p)
    /\ UNCHANGED <<contractors, works, valuations, clerk, edits, crossed, raced>>

-----------------------------------------------------------------------------
(* The requests of users.                                                   *)

\* A write of a user.
Edit == edits < MaxEdits /\ edits' = edits + 1 /\ disturbed' = disturbed \cup Active

ReadsRow(k, row) == clerk[k].op = "idle" /\ clerk' = [clerk EXCEPT ![k] = row]
Answered(k) == clerk' = [clerk EXCEPT ![k] = FreeClerk]

\* CreateContractor: the name is unique.
CreateContractor ==
    /\ Edit
    /\ \E name \in (SheetNames \ {""}) \cup {NewName} :
          /\ Named(name) = {}
          /\ Len(contractors) < MaxRows
          /\ contractors' = Append(contractors, [name |-> name, live |-> TRUE])
    /\ UNCHANGED <<works, valuations, importer, clerk, crossed, raced>>

OpenContractor(k) ==
    /\ edits < MaxEdits
    /\ \E i \in DOMAIN contractors :
          /\ contractors[i].live
          /\ ReadsRow(k, [op |-> "contractor", id |-> i, name |-> contractors[i].name])
    /\ UNCHANGED <<contractors, works, valuations, importer, edits, disturbed, crossed, raced>>

\* PatchContractor: a patch without a name writes back the one that was read.
PatchContractor(k) ==
    /\ clerk[k].op = "contractor"
    /\ Edit
    /\ contractors[clerk[k].id].live
    /\ \E name \in {clerk[k].name, NewName} :
          /\ Named(name) \subseteq {clerk[k].id}
          /\ contractors' = [contractors EXCEPT ![clerk[k].id].name = name]
    /\ Answered(k)
    /\ UNCHANGED <<works, valuations, importer, crossed, raced>>

Referenced(i) ==
    \/ \E w \in LiveWorks : works[w].link = i
    \/ \E v \in DOMAIN valuations : valuations[v].live /\ valuations[v].link = i

\* DeleteContractor: refused while a row refers to it.
DeleteContractor ==
    /\ Edit
    /\ \E i \in DOMAIN contractors :
          /\ contractors[i].live
          /\ ~Referenced(i)
          /\ contractors' = [contractors EXCEPT ![i].live = FALSE]
    /\ UNCHANGED <<works, valuations, importer, clerk, crossed, raced>>

OpenWork(k) ==
    /\ edits < MaxEdits
    /\ \E w \in LiveWorks : ReadsRow(k, [op |-> "work", id |-> w, row |-> works[w]])
    /\ UNCHANGED <<contractors, works, valuations, importer, edits, disturbed, crossed, raced>>

\* PatchContract: number, contractor and status are those of the copy unless they are
\* given; the number must be free.  A report is another table.
PatchWork(k) ==
    LET id == clerk[k].id
        row == clerk[k].row IN
    /\ clerk[k].op = "work"
    /\ Edit
    /\ works[id].live
    /\ \E number \in Numbers, name \in SheetNames, link \in Links,
          exec \in TypedExecs \cup {row.exec} :
          /\ Numbered(number) \subseteq {id}
          /\ works' = [works EXCEPT ![id] =
                 [row EXCEPT !.number = number, !.name = name, !.link = link,
                             !.exec = exec, !.report = works[id].report]]
    /\ Answered(k)
    /\ UNCHANGED <<contractors, valuations, importer, crossed, raced>>

\* DeleteContract: its reports go with it.
DeleteWork ==
    /\ Edit
    /\ \E w \in LiveWorks : works' = [works EXCEPT ![w] = [@ EXCEPT !.live = FALSE, !.report = NoReport]]
    /\ UNCHANGED <<contractors, valuations, importer, clerk, crossed, raced>>

\* UpsertContractReport: any text is a status; no contract, no report.
UpsertContractReport ==
    /\ Edit
    /\ \E w \in LiveWorks, text \in TypedTexts : works' = [works EXCEPT ![w].report = text]
    /\ UNCHANGED <<contractors, valuations, importer, clerk, crossed, raced>>

DeleteReport ==
    /\ Edit
    /\ \E w \in LiveWorks :
          /\ works[w].report # NoReport
          /\ works' = [works EXCEPT ![w].report = NoReport]
    /\ UNCHANGED <<contractors, valuations, importer, clerk, crossed, raced>>

\* valuationStatusOrDefault: "" stands for the fallback, Draft for a new row.
ValuationStatusOrDefault(in, fallback) == IF in = "" THEN fallback ELSE in

CreateValuation ==
    /\ Edit
    /\ Len(valuations) < MaxRows
    /\ \E name \in InvoiceNames, link \in Links, in \in TypedStatuses \cup {""} :
          LET status == ValuationStatusOrDefault(in, "Draft") IN
          valuations' = Append(valuations, [name |-> name, link |-> link, month |-> "this",
              figure |-> "person", status |-> status, live |-> TRUE,
              by |-> "person", decided |-> status])
    /\ UNCHANGED <<contractors, works, importer, clerk, crossed, raced>>

OpenValuation(k) ==
    /\ edits < MaxEdits
    /\ \E v \in DOMAIN valuations :
          /\ valuations[v].live
          /\ ReadsRow(k, [op |-> "valuation", id |-> v, name |-> valuations[v].name,
                          status |-> valuations[v].status])
    /\ UNCHANGED <<contractors, works, valuations, importer, edits, disturbed, crossed, raced>>

\* UpdateValuation: the whole row from the request, an omitted status and an omitted
\* name from the copy.
UpdateValuation(k) ==
    LET v == clerk[k].id
        stored == valuations[v] IN
    /\ clerk[k].op = "valuation"
    /\ Edit
    /\ stored.live
    /\ \E name \in (InvoiceNames \ {""}) \cup {NewName, clerk[k].name}, link \in Links,
          month \in {"this", "other"}, in \in TypedStatuses \cup {""} :
          /\ valuations' = [valuations EXCEPT ![v] =
                 [@ EXCEPT !.name = name, !.link = link, !.month = month, !.figure = "person",
                           !.status = ValuationStatusOrDefault(in, clerk[k].status),
                           !.decided = ValuationStatusOrDefault(in, stored.decided)]]
          /\ raced' = IF name = stored.name /\ month = stored.month THEN raced
                      ELSE raced \cup {stored.name, name}
    /\ Overlaps(k, v)
    /\ Answered(k)
    /\ UNCHANGED <<contractors, works, importer>>

DeleteValuation ==
    /\ Edit
    /\ \E v \in DOMAIN valuations :
          /\ valuations[v].live
          /\ valuations' = [valuations EXCEPT ![v].live = FALSE]
    /\ UNCHANGED <<contractors, works, importer, clerk, crossed, raced>>

\* An error answer: the row is gone, the name is taken, the contractor is deleted.
RefuseEdit(k) ==
    /\ \/ clerk[k].op = "contractor" /\ \/ ~contractors[clerk[k].id].live
                                        \/ ~(Named(NewName) \subseteq {clerk[k].id})
                                        \/ ~(Named(clerk[k].name) \subseteq {clerk[k].id})
       \/ clerk[k].op = "work" /\ \/ ~works[clerk[k].id].live
                                  \/ ~Linkable(clerk[k].row.link)
                                  \/ \E n \in Numbers : ~(Numbered(n) \subseteq {clerk[k].id})
       \/ clerk[k].op = "valuation" /\ ~valuations[clerk[k].id].live
    /\ Answered(k)
    /\ UNCHANGED <<contractors, works, valuations, importer, edits, disturbed, crossed, raced>>

MonthSteps ==
    \/ \E p \in Importers :
          \/ StartImport(p) \/ EnsureContractor(p) \/ GetWork(p) \/ UpsertWork(p)
          \/ UpsertProgressReport(p) \/ ListValuations(p) \/ SaveValuation(p)
          \/ AbortImport(p) \/ AnswerImport(p)
    \/ \E k \in Clerks :
          \/ OpenContractor(k) \/ PatchContractor(k) \/ OpenWork(k) \/ PatchWork(k)
          \/ OpenValuation(k) \/ UpdateValuation(k) \/ RefuseEdit(k)
    \/ CreateContractor \/ DeleteContractor \/ DeleteWork \/ UpsertContractReport
    \/ DeleteReport \/ CreateValuation \/ DeleteValuation

MonthFailures == \E p \in Importers : EnsureFails(p) \/ ListFails(p) \/ ImportFails(p)

MonthNext == MonthSteps \/ MonthFailures

MonthSpec == MonthInit /\ [][MonthNext]_monthVars

-----------------------------------------------------------------------------
InvoiceStatuses == TypedStatuses \cup {"Draft"}

ContractorRow == [name : SheetNames \cup {NewName}, live : BOOLEAN]
WorkRow ==
    [number : Numbers, name : SheetNames, link : Nat, exec : ExecutionStatuses,
     report : {NoReport} \cup TypedTexts \cup ExecutionStatuses, live : BOOLEAN]
ValuationRow ==
    [name : InvoiceNames \cup {NewName}, link : Nat, month : {"this", "other"}, figure : {"sheet", "person"},
     status : InvoiceStatuses, live : BOOLEAN, by : {"import", "person"},
     decided : InvoiceStatuses]
ImportState ==
    [at : Nat, step : {"idle", "list", "ensure", "get", "save", "report", "done"},
     known : [SheetNames -> Nat], found : Nat,
     listing : [InvoiceNames -> [id : Nat, status : InvoiceStatuses]]]

ContractorCopy == [op : {"contractor"}, id : Nat, name : SheetNames \cup {NewName}]
WorkCopy == [op : {"work"}, id : Nat, row : WorkRow]
ValuationCopy ==
    [op : {"valuation"}, id : Nat, name : InvoiceNames \cup {NewName}, status : InvoiceStatuses]

\* An import in service is at a row its statement is for; what it remembers was there.
ImportOK(p) ==
    LET own == importer[p] IN
    /\ own \in ImportState
    /\ own.at \in 0 .. Len(Plan) + 1
    /\ own.step \notin {"idle", "done"} => own.at \in DOMAIN Plan
    /\ own.step = "list" => Plan[own.at].do = "list"
    /\ own.step \in {"ensure", "save"} => Plan[own.at].do \in {"work", "valuation"}
    /\ own.step \in {"get", "report"} => Plan[own.at].do = "work"
    /\ own.step = "report" => own.found # 0
    /\ own.found \in {0} \cup DOMAIN works
    /\ \A n \in InvoiceNames : own.listing[n].id \in {0} \cup DOMAIN valuations

ClerkOK(k) ==
    \/ clerk[k] = FreeClerk
    \/ clerk[k] \in ContractorCopy /\ clerk[k].id \in DOMAIN contractors
    \/ clerk[k] \in WorkCopy /\ clerk[k].id \in DOMAIN works /\ clerk[k].row.live
    \/ clerk[k] \in ValuationCopy /\ clerk[k].id \in DOMAIN valuations

MonthTypeOK ==
    /\ contractors \in Seq(ContractorRow)
    /\ works \in Seq(WorkRow)
    /\ valuations \in Seq(ValuationRow)
    /\ \A i, j \in LiveWorks : works[i].number = works[j].number => i = j
    /\ \A w \in LiveWorks : Linkable(works[w].link)
    /\ \A v \in DOMAIN valuations : valuations[v].live => Linkable(valuations[v].link)
    /\ DOMAIN importer = Importers /\ \A p \in Importers : ImportOK(p)
    /\ DOMAIN clerk = Clerks /\ \A k \in Clerks : ClerkOK(k)
    /\ edits \in Nat
    /\ disturbed \subseteq Importers
    /\ crossed \subseteq DOMAIN valuations
    /\ raced \subseteq InvoiceNames \cup {NewName}

\* The status of an invoice is the one a person decided last (Draft if nobody did),
\* however often the workbook is imported over it: unless somebody wrote the
\* invoice between the listing of an import, or the read of a request, and its write.
StatusSurvives ==
    \A v \in DOMAIN valuations \ crossed :
        valuations[v].live => valuations[v].status = valuations[v].decided

InvoicesOf(name) ==
    {v \in DOMAIN valuations : /\ valuations[v].live /\ valuations[v].name = name
                               /\ valuations[v].month = "this"}

\* "Valuations upsert by their natural keys": although no constraint says so, imports
\* leave one invoice of the month per row of the sheet, whatever failed and however
\* often they ran; unless two of them crossed at that row, the listing failed or
\* a user moved an invoice to another month or gave it another name.
OneInvoicePerRow ==
    \A n \in InvoiceNames \ raced :
        Cardinality({v \in InvoicesOf(n) : valuations[v].by = "import"})
            <= Cardinality({i \in DOMAIN Verified : Verified[i] = n})

\* "The importer is idempotent": after an import of its own, whatever users and
\* earlier imports, complete or broken off, had left, every row of the workbook is
\* there: the contract under its number, linked to a contractor of that name, and
\* counted by the summary of the month, in all and for its contractor, under the
\* status of the sheet; the invoice with the figures of the sheet.
Linked(link, name) == IF name = "" THEN link = 0 ELSE link \in Named(name)

ImportDelivers ==
    \A p \in Importers \ disturbed :
        importer[p].step = "done" =>
            /\ \A row \in RowsOf("work") :
                  \E w \in Numbered(row.number) :
                      /\ works[w].name = row.name
                      /\ Linked(works[w].link, row.name)
                      /\ SummaryStatus(works[w]) = row.exec
            /\ \A s \in ExecutionStatuses :
                  BuildMonthlySummary.all[s] >= Cardinality({row \in RowsOf("work") : row.exec = s})
            /\ \A row \in RowsOf("work") : BuildMonthlySummary.by[row.name][row.exec] > 0
            /\ \A row \in RowsOf("valuation") :
                  \E v \in InvoicesOf(row.name) :
                      valuations[v].figure = "sheet" /\ Linked(valuations[v].link, row.name)

=============================================================================
