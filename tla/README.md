# Verification of iag-contract-management

TLA+ models of the contract-management service, the TLC configurations that check them on small instances and TLAPS proofs of
what matters most for every value of the constants. Paths below are relative to the repository (`src/` here); a definition of
a module, the file and the lines it stands for are paired in the `map` of `PROJECT.json`.

    tlc -config MCPaymentRace.cfg MCPayment.tla      # any run of the table below
    tlapm PaymentProofs.tla                          # any proof module

## 1. The system

A Go service with a PostgreSQL database, run in several replicas. It keeps two generations of data side by side: the
governance module (contracts, milestones, payments, variations, requisitions and their approval chains, all read from and
written to the database by every request) and an older workspace (zones, contracts, engineers, tasks and so on, served from a
cache in the memory of each replica). Events for other services leave through an outbox table that a publisher in every replica
drains to Kafka; clients see changes of the workspace over websockets.

### What makes it hard

* **Read, decide, write.** A governance handler reads its row with one statement, decides in memory and writes all the
  columns of a group with another, by id alone: no `SELECT ... FOR UPDATE`, no version, no condition in the `WHERE`. Any
  number of requests may have read the row before one writes it. Each write carries a whole chain (cursor and signatures), a
  whole group of details or a whole contract, so what is kept and what is lost depends on which group each handler writes.
* **Several transactions in one request.** Paying a payment is three steps (row and event together, read of the milestone,
  write of the milestone); approving a variation is three (row, value of the contract, event); converting a requisition two
  (contract, link). The errors of the later ones are often dropped, and the retry of a request that died is refused because
  its first step was done.
* **At-least-once delivery** with claims that lapse, outages, lost marks and publishers that die.
* **Caches and versions**: every replica answers from a cache no other refreshes; snapshots reach a client in an order that
  is not the order of their versions. A statement that ran but whose answer was lost leaves the cache behind the table.
* **Long jobs of small steps**: an import is a loop of statements, a reminder job a loop of check, publish, record. Each may
  stop anywhere, be started again, or meet another of its kind.
* **References that are text**: requisitions name a budget line by its code, rows of a workbook a contractor by his name,
  milestones get the id of a deleted one.

### Parts, state, operations

| Part | State | Operations | Interacts with | What makes it correct |
|---|---|---|---|---|
| Payment workflow (`controllers/governance_workflow_controller.go`) | `gov_payments`: figures, cursor, a step per desk | create, correct, advance through four desks, milestone to Paid | the shared engine, the outbox in one transaction, the milestone afterwards | segregation of duties; cursor and signatures agree; finance is instructed of exactly what is stored as authorized; the payable follows from the figures; a paid payment reaches its milestone |
| Approval chain of the governance module (`models/governance_chains.go`) | none of its own | advance, reject as functions of cursor, steps and actor | `third_party/platform-go/approvalchain` | four eyes on successive desks, machines exempt |
| Variation workflow | `gov_variations`: amount, status, cursor, approvals | raise, correct, advance, reject | the value of its contract, whole-row edits of the contract, the outbox | status and signatures tell one story; the contract is worth what users and approvals made it |
| Requisition workflow (`controllers/governance_modules_controller.go`) | `gov_requisitions`: number, estimate, chain, link | raise, correct, advance, reject, convert | creates contracts, UNIQUE numbers, the outbox | one requisition is one contract at a time; the link, the status and the contract agree |
| Contract lifecycle and documents (`controllers/governance_controller.go`) | `gov_contracts`: status, activity, documents, thread, value | create, patch, change status, add and delete documents, delete | the chat service in a goroutine of its own, imports, variations | allowed transitions only; the trail explains the status; no lost update without overlap |
| Monthly report and its import (`imports/monthly_report.go`, `controllers/monthly_report_controller.go`) | `gov_contractors`, `gov_contracts`, `gov_progress_reports`, `gov_valuations` | import a workbook; create, patch, delete each by hand; summarise a month | overwrites contracts | an import delivers its rows, doubles none and takes back no status a person decided; the counts add up |
| Registers (`controllers/governance_modules_controller.go`) | `gov_budgets`, `gov_obligations`, `gov_closeouts`, `gov_approval_rules` | create, patch, rename, delete; resolve an approval route | requisitions name budget lines by code; contracts take their obligations and closeout with them | a rename carries the requisitions along; what a request does not name stays; the narrowest band wins |
| Event outbox and publisher (`outbox/outbox.go`, `events/bus.go`) | `contract_event_outbox`: due time, attempts, dispatched | enqueue, claim, deliver, mark, back off | Kafka; every workflow | nothing is marked without being delivered, nothing is delivered that was rolled back, everything committed is delivered in the end |
| Approval engine (`third_party/platform-go/approvalchain`) | the state of a chain | advance, reject, amend, cancel, reopen, rebase | the governance chains | history is append-only, quorum and separation rules |
| Workspace store (`models/store.go`, `models/resources.go`, `persistence/entity_repo.go`) | a store per replica under one mutex, 16 tables | create, patch, delete of nine kinds of rows, bulk PUTs, audit appends, restart | the hub and events after a change | "the cache never diverges from durable storage"; acknowledged rows stay; the counts of zones are right; events lead to the stored status |
| Realtime hub (`realtime/hub.go`, `realtime/redis.go`) | connections, a version counter | connect, broadcast, drop a client | Redis between replicas | the newest snapshot a client has is the workspace, and comes |
| Milestone reminders (`jobs/milestones.go`) | a key of `app_meta` per milestone and due date | list due, check, publish, record | Kafka directly, not the outbox | each milestone is announced for a date once, and at all |
| KPIs, risks, templates, clauses, supply contracts | one row each | create, replace, delete in one statement | none | |
| Rate limiter, connection pool, migrations | windows, connections, the migration lock | allow, acquire, migrate | every request | limits hold at the window boundary; no wait of everyone on everyone |
| Authentication, permissions, HTTP plumbing, portal, chat and storage clients | none of the domain | checks and projections of one request | other services | stateless |

Status and reason for every part, those left out included, are in `PROJECT.json` under `components`; the places where this
code is hard to test are under `hazards`, each with the properties that would catch it or the reason why none does yet.

## 2. Modules

| Module | Models | State | Proofs |
|---|---|---|---|
| `GovChain` | what the engine decides for the three chains of the governance module: `PreviousApprover`, `SelfSuccession`, `MayClear`; the predicates `FourEyes` and `SignedBelow` | none | `GovChainProofs` |
| `PaymentWorkflow` (extends `GovChain`) | payments and their milestones | `milestone`, `payment`, `outbox`, `handler` | `PaymentProofs` |
| `PaymentPromise` | abstract: what finance and an auditor are promised, without handlers or tables | `phase`, `figures`, `signers`, `told` (one sequence for all payments) | implemented: `PaymentProofs` |
| `VariationWorkflow` (extends `GovChain`) | variations, the value of contracts, edits of contracts | `contract`, `variation`, `announced`, `handler`, `agreed` | `VariationProofs` |
| `RequisitionWorkflow` (extends `GovChain`) | requisitions and conversions | `requisition`, `contract`, `told`, `handler`, and the history variables `made`, `renamed`, `revalued`, `disturbed` | `RequisitionProofs` |
| `ContractLifecycle` | status, trail, documents and thread of contracts, what an import does to them | `contract`, `told`, `linking`, `handler`, and the history variables `wanted`, `threads`, `imported`, `overlapped` | `ContractProofs` |
| `MonthlyReport` | contractors, work orders with their reports, valuations, the import statement by statement, the summary of a month | `contractors`, `works`, `valuations`, `importer`, `clerk`, and `edits`, `disturbed`, `crossed`, `raced` | `ContractProofs` |
| `GovRegisters` | budget lines and what is charged to them, obligations, closeouts, approval rules | `budgets`, `charges`, `duties`, `closeouts`, `rules`, `deals`, `editor`, and `lines`, `given`, `excused` | `RequisitionProofs` |
| `Outbox` | the outbox table, its publishers and the topic | `state`, `dispatched`, `due`, `holding`, `writing`, `kafka` | `DeliveryProofs` |
| `Reminders` | milestones of the workspace and the job that announces them | `milestones`, `recorded`, `job`, `today`, and `created`, `holders`, `tries`, `overlooked`, `repeatable` | `DeliveryProofs` |
| `WorkspaceTables` | the schema (`IsDb`) and every statement of the repository, as a set of outcomes (tables after, error) | none | `WorkspaceProofs` |
| `WorkspaceModel` | every method of `Store`, as a set of outcomes (tables, store and error), from `WorkspaceTables`; the seed and what a start makes of the tables | none | `WorkspaceProofs` |
| `WorkspaceService` | replicas over one database, requests, bulk PUTs, audit appends, restarts and starts that seed, events | `db`, `cache`, `job`, `due`, `ops`, and `upset`, `acked`, `unsaved`, `spilled`, `miscounted`, `raced`, `said` | `WorkspaceProofs`, and `WorkspaceLiveProofs` for `acked` |
| `WorkspaceLive` (extends `WorkspaceService`) | the hub, its connections and goroutines, the nudge over Redis | `bridged`, `version`, `client`, `cast`, `nudged` | `WorkspaceLiveProofs` |
| `MCPayment`, `MCVariation`, `MCVariationBoth`, `MCRequisition`, `MCContract`, `MCOutbox`, `MCDelivery`, `MCWorkspace`, `MCWorkspaceLive` | small instances: people, folds of names, amounts, symmetry. Where parts share no state (requisitions and registers, the outbox and reminders, the lifecycle and the monthly report) one run checks them side by side: a variable `focus`, set at the start, says whose behaviour it is, or which instance | | |

**How code becomes actions.** A *handler* is a request in service. The statement that reads a row is one action (`Open...`,
`GetContract`): it takes the refusals the code makes on what it read and leaves a snapshot in `handler[r]`. The statement, or
the transaction, that writes is the next action, computed from the snapshot and applied to the row *as stored*: the columns
the `UPDATE` names come from the snapshot, the others stay. `UpdateChain`, `UpdateAmounts`, `UpdateVariation`,
`UpdateDetails`, `UpdateRequisition`, `UpdateContract` are those column lists, and most of what the properties say hangs on
them. Between two actions of a handler anything may happen, with `Faults` also the death of the request (`Fail`). A step
of a transaction that fails is a request that dies before the write. An error answer without a write is `Refuse`.

**Names.** A person's name may arrive in several spellings; `Fold` maps a spelling to what `sameActor` compares (trimmed and
case folded), and the spelling that folds to `"system"` is a machine. Signers are stored as they arrived.

**History variables** record what no table does: what users wanted or agreed, which contracts were ever made of a
requisition, on which rows requests overlapped. No guard reads them.

`VariationWorkflow.Serialized` is the one assumption that is not the code's: it keeps requests on one variation, and edits of
its contract, apart, to show what holds then; the race is shown without it.

**The workspace** is layered as in the code: a method of the store holds `s.mu` from the first read to the last statement, so
it is one step, an operator from tables and store to the set of what may come of it (with `Faults` a statement may fail
before it runs, or run and lose its answer). Where the code lets go of the lock a request takes several steps and `job` holds
what it carries across: a contract patch (permission and previous status, then the change, then the counts of the zones one
statement each, then the events), a deletion (`FindContract`, then the deletion, then as before), a bulk PUT (replace, save,
record), an audit append (row, then ring), a start that seeds (the check of the tables, then snapshot and load). A bulk PUT copies
slice headers and the map of photos only, so the copy it saves may be torn by writes in place (`Torn`, `TornStores`).

**A start** (`NewStore`) begins with the seed, which is no data but two custom roles. With `SeedOnStartup` and no contract in
the tables it replaces all of them by the seed (`Restart`, then `SeedWorkspace`: the other replicas may write in between); then
it loads. A replica is not `Up` until then. Every error on the way is only logged, and the replica serves the seed.

**Events of the workspace** are followed by what a consumer believes (`said`). An event that cannot be enqueued is only logged
(`events/bus.go:146`). The Kafka writer balances by bytes (`bus.go:73`), so events of one contract need not arrive in order; a
consumer is taken to believe the one with the latest time, which is the last published.

**Edits by hand of a month** write the row back from a copy: `UpdateValuation` the contractor's name and the status unless they
are given, `PatchWork` the number, the name, the contractor and the execution status of a work order.

**Two-statement transactions** that others can see into are two steps: `RepointCharges` and `RenameBudget` are the
statements and the commit of the rename of a budget line. Rows it has written are locked (`Locked`), rows written by others
after its statement ran are not repointed.

Operators marked `Fault:` are mutated versions of the definitions after them, used to check that each property can fail; no
specification uses them.

## 3. Runs

| Run | Instance | What it shows |
|---|---|---|
| `payment_race` | `MCPaymentRace`: 1 milestone, 2 handlers, two people in three spellings and a machine, good and bad figures, crashes, 3 events; about 440,000 states | four eyes, cursor = signatures, authorized => instructed, payable = f(figures); an event says what the row says at the commit |
| `payment_serial` | 1 handler, crashes, retentions inside and outside 0..100, 2 events | the workflow implements `PaymentPromise` |
| `payment_live` | 2 handlers, no crashes, fairness | a request that cleared the last desk gets the milestone to Paid |
| `payment_sequencing` (violation) | 2 handlers | `StageSequencing` fails: a slow advance moves a payment backwards |
| `variation` | `MCVariationBoth`: 1 variation, 2 handlers, two people, crashes; or 2 variations of one contract with amounts of both signs, edits of the contract, requests on one row kept apart (`Serialized`); about 390,000 states | four eyes; status, stage and approvals tell one story; the contract is worth what users gave it and each approval added once |
| `variation_twice` (violation) | 1 variation, 2 handlers, no faults, not `Serialized` | `ValueAccounts` fails: two last approvals add the amount twice |
| `requisition` | 1 requisition, 2 contracts, 2 numbers, 2 estimates, 2 handlers, crashes, and users who change either numbers or values of contracts; or 2 editors and 3 codes, 2 budget lines and 2 requisitions; or 1 obligation and 2 contracts; or 2 closeouts; or every set of 3 rules over 3 bounds; about 1,120,000 states | four eyes, one story, one contract at a time, whole conversions where undisturbed; requisitions stay charged to their line through renames; what nobody named in a patch stays; the narrowest band wins for every value and every order of ties |
| `contract_lifecycle` | 1 contract, 1 document, 2 handlers, thread, imports, crashes, trails of 2; or a workbook of 3 rows with 2 imports and an edit, or one import and 2 edits, or an import whose statements fail and an edit; about 1,510,000 states | the trail explains the status; without overlap and import the lifecycle is kept and nothing is lost; an import keeps decided statuses, doubles no invoice nobody moved or renamed, and delivers every row |
| `delivery` | 2 outbox rows, 2 publishers, batch of 2, outages, crashes, lapsing claims, fairness; or 2 reminder jobs and a milestone; or 1 job at a time and 2 milestones, 2 days; about 130,000 states | marks rest on deliveries, deliveries on commits; everything is delivered once outages end; no reminder twice, none passed over |
| `outbox_double_claim` (violation) | no outages, no crashes | `NeverDoubleClaimed` fails: the claim lapses in the middle of a batch |
| `workspace` | 2 replicas, 2 handlers, 3 requests, restarts (which seed tables without a contract) or bulk PUTs, faults; one group of tables at a time: contracts over fixed zones; zones with a contract moved among them; people; registers; tasks; the log. Bulk PUTs of the workspace mix with zones, people and log, of the frontend with people, registers and tasks, their audit entry with the log, restarts with all but the first; an admin and a contractor; about 510,000 states | when a cache agrees with the tables, and the audit ring, scan and projects too; ids are unique, acknowledged rows stay, zones are counted right, events lead to the stored status, contractors change reports only |
| `workspace_live` | 1 replica, 2 requests, 1 connection that joins and leaves, 2 goroutines and the subscriber, with and without Redis, fairness; 214,913 states | the newest push is the workspace; a screen that is out of date is refreshed |

**Why the bounds are enough.** Requests interact only through one row (and the rows of one contract); two handlers give every
order of two snapshots, and a third would hold a snapshot one of the two could hold as well. The proofs take any number. Two
contracts and two numbers let a retried conversion meet its first contract, and a freed number be taken again. Amounts, values
and estimates are compared and added only, so two (a zero or a negative one where the code tells them apart) are enough. No
property relates the number of a contract to its value, so a behaviour of `requisition` changes one of them only. Trails of two
entries contain one creation and one move of each kind, and contracts are created in three statuses from which, with imports,
the others are reached. Two budget lines and three codes let a line be renamed into a code that another had, and back; three
rules let two bands be nested in a third, with ties. A workbook of one row per sheet lets a second import meet every row of the
first, and imports do not relate one row to another but by the names they remember. Three requests on two replicas let one write
behind the other's back and one answer from the stale cache; a restart is one of them. Two milestones and two days let an id
come back, with the same date and another. `MaxEvents`, `MaxTrail`, `MaxRows`, `MaxEdits`, `MaxLines`, `MaxMilestones`,
`LastDay`, `MaxOps` and `MaxValue` cut the state space in the guards and stand in no property. Deadlock is not checked because
every system here may stop: rows and bounds run out, and a service nobody calls does nothing.

**Exceptions.** Several properties except rows that met what the code does not survive; the exception is a history variable
of the module, and what falls under it is named under "what the code does otherwise". They are as narrow as the runs allow:
each was widened only after a behaviour of the code that needs it was found.

**Fairness.** `PaymentWorkflow!FairSpec` asks for weak fairness of the steps after the commit of an advance: a request that
is not killed goes on to its next statement. It is used without faults only, because nothing in the code repeats those steps
after a crash. `Outbox!FairSpec` asks for weak fairness of the publishers' loop, of transactions ending and of time passing,
and for strong fairness of a delivery and of its mark: outages end, and a publisher does not die at the same point every
time. The comment "a Kafka outage delays delivery instead of dropping it" has no meaning without the former. Reminders get no
fairness: nothing starts the job but whoever runs it. `WorkspaceLive!Fairness` asks for weak fairness of what goes on by itself
once begun (the later steps of a handler, the announcement, the goroutine of a broadcast, the subscriber, the first snapshot of
a connection); requests, connections, disconnections and restarts need not happen.

### What the code does otherwise than it says

Three runs refute a sentence of the repository; each is a finding in `PROJECT.json` with the sentence quoted. These sentences
fail too, and can be seen by putting the property in the place of the one named in the configuration:

* in `MCPaymentSequencing.cfg`: `FiguresFixedOnceSigned` (a correction overlapping the first signature changes signed
  figures), `EventsInContractCurrency` (when the contract cannot be read the event names UGX), `SameApproverMayContinue`
  (one approver cannot walk a payment through as the smoke test does);
* in `MCVariationTwice.cfg`: `FinishedStaysFinished` (a rejection asks for no status, so an approved variation whose amount is
  in the contract may be rejected), `AmountFrozenOnceSigned`;
* `ValueAccounts` and `PaidReachesMilestone` with `Faults = TRUE`: the errors of the second step are dropped and the request
  cannot be repeated;
* `StatusEnforced` in `MCContract.cfg` ("Server-side enforcement", `models/governance.go:30`): an import takes a finished contract
  back, and without imports a whole-row write of two overlapping requests brings back an older status;
* `EveryMilestoneReminded` in `MCDelivery.cfg`: ids of milestones are the length of the list plus one, so a milestone created
  under the id of a deleted one and due on the same day finds a reminder recorded and is never announced;
* `NudgedScreensShowTheDatabase` in `MCWorkspaceLive.cfg` with `Replicas = {r1, r2}`: the nudge makes every replica project
  again, but from its own cache, which the write of another replica never reached;
* `CacheAgrees` without its exceptions: another replica's writes, a lost answer, a failed `PatchZone` or bulk PUT, and a write
  between the two halves of a bulk PUT make a cache diverge; `AckedRowsStay` without `spilled`: a bulk PUT of one half of the
  store on a stale replica deletes rows another replica acknowledged; a start that finds no contract wipes zones, users,
  engineers and the registers, although `models/store_deps.go:14` and `:23` speak of an empty database: `IsEmpty` counts
  contracts only (`persistence/postgres.go:58`), and contracts another replica stores between check and snapshot go too
  (`SeedWorkspace` takes what it wiped out of `acked`, and `raced` marks the contracts; deployments in production do not seed);
  `StatusFollowed` without `raced`: an event that could not be enqueued is lost with a line in the log; `IdsUnique` without its
  own: after a deletion the cache did not see, an id is served twice;
* "these values only ever surface when the service runs without a database" (`models/seed.go:18`) of the two roles of the seed: a
  replica whose check, snapshot or load failed serves them over a database that does not have them;
* `ChargedRight` without `loose`: a correction of a requisition that read the row before a rename writes the old code back;
* `DecisionsKept` without `excused`: overlapping patches take each other back, and a failed read of a closeout wipes its ticks;
* `RouteNarrowest` says nothing of two open bands: the code gives both the same width and takes the one with the lower bound,
  although the other lies inside it;
* `OneInvoicePerRow` without `raced`, `ImportDelivers` without `disturbed`: two imports at a time, or one whose listing failed,
  insert an invoice twice, and so does the next import after a user gave an invoice another name or month (two imported invoices
  may then bear one name); a contractor renamed or an upsert that failed meanwhile leaves a row without its link;
* `ConversionWhole` without the exception for `disturbed` requisitions (a conversion that died between its two writes can never
  be finished, because its number is taken by its own contract) or that for `revalued` contracts (a PATCH may give a converted
  contract any value) and `OneContractAtATime` without that for `renamed` ones (the number is all that stops a second
  conversion).

## 4. Proofs

Everything here holds for any number of handlers, rows, people, publishers and any inputs the assumptions of the modules
admit (the assumptions say that inputs are integers, that the special values are not rows, that the sets the code takes for
granted are not empty).

* `GovChainProofs`: signing the desk at the cursor leaves exactly the desks up to it signed, and keeps the chain four-eyed
  if the actor did not clear the desk before (`SignedOneMore`, `ClearedFourEyes`).
* `PaymentProofs`: `TypeCorrect`; then `RowsStaySound`. Four eyes is not inductive by itself: a handler writes back
  a chain it read long ago. The invariant is that *every version of a row, stored or held by a handler about to advance it*,
  is four-eyed, signed exactly below its cursor and announced as far as it has come. A held version stays sound because the
  outbox only grows; a stored one is replaced by a sound one. `FourEyesKept`, `CursorKept`, `InstructionKept`, `PayableKept`
  follow, and `AnnouncementsExact` as an action property.
* `RequisitionProofs`: types and rows come together (`Inv`), because that an advancing handler has a desk left follows from
  the story of the row it read. `RowSound` says of every stored or held version that it tells one story and is four-eyed;
  it is preserved by clearing (`AdvancedSound`), by rejecting anything whatever (`RejectedSound`), by converting, and by
  copying its columns onto another row (`SoundCopy`). `TypeCorrect`, `FourEyesHolds` and `StoryCorrect` follow. `OneContract`
  needs a second invariant, `NumbersKept`: contracts have distinct numbers, and everything made of, or held for, a requisition
  nobody renumbered has its number; a second conversion then meets the number of the first.
* `VariationProofs`: the same argument for variations. `SoundRow` (the row tells one story, and is four-eyed unless rejected)
  holds of every stored version and of every one a request that advances, rejects or corrects has read, and is preserved by
  clearing, rejecting, copying the chain columns and copying the amount. `TypeCorrect`, `FourEyesHolds` and `StoryCorrect`
  follow, with or without `Serialized`, edits and faults.
* `DeliveryProofs`, the outbox: `OutboxHonest` (publishers hold committed rows only, and what was written with success is in the
  topic before it is marked), from it `TypeCorrect` and `DeliveryKept`; and `ClaimsExclusive`, that claims that outlive their
  batch (`LeaseHolds`) are exclusive, by the invariant that a row in hand is not due. That assumption is exactly what
  `outbox_double_claim` lacks.
* `DeliveryProofs`, the reminders: `RemindedKept`. That no reminder is repeated needs to know why a job that checks later finds
  it recorded. `RemindersInv`: a milestone keeps its id and an id with two milestones is known to have been used twice
  (`IdsKept`); what was announced for a date is recorded or about to be, and no job is about to announce it again, unless
  overlap, death or failure is noted (`TriedOnce`); two jobs at one reminder are noted (`JobsKnown`); what is recorded under an
  id was announced, for the one milestone that had it (`RecordedTried`).
* `ContractProofs`, the lifecycle: `Invariant`. Every request writes a whole row back, so what must be invariant is that *every
  version of a row, stored or about to be written*, has a trail that explains its status (`Sound`). For rows on which writers
  did not overlap (`Undisturbed`) the copy of the one writer is the stored row, documents, thread and told statuses included.
  From it `TypeCorrect`, `TrailHolds`, `NothingLost`, and `LifecycleFollowed` as an action property: an undisturbed writer moves
  along `Transitions` because its copy has the stored status.
* `RequisitionProofs`, the registers beside the requisitions: `RegistersHeld`. A rename is two statements and a commit that
  others can see into, so charges and lines agree only with the renames in progress: one that has run its statements owns its
  line, its new code and the requisitions it repoints, and two such never share a code (`RenamesSound`). For obligations and
  closeouts the copies of requests nobody overlapped are what users gave (`RecordsSound`). `ChargesKept` and `DecisionsHold`
  follow.
* `PaymentProofs`, the refinement: `PromiseImplemented`, `PromiseKept` for one handler (`OneAtATime`) with events on
  (`EventsOn`). Both are hypotheses of the theorem, on constants: with two handlers `payment_sequencing` shows a payment going
  backwards, and without an outbox finance is told nothing. Each step maps to `Raise`, `Correct`, `Sign`, `Withdraw`
  or a stutter. It rests on `RowsSound` and on `Lone`: the copy of the one request in service is the stored row, unless its
  milestone was deleted under it. Requests that die between their steps are included.
* `RequisitionProofs`, conversions: `ConversionKept`, by `WholeKept`: an undisturbed requisition has at most one request on it,
  and is either linked to all that was made of it, or that request is about to write the link; and a contract made of it whose
  value no user changed (`revalued`) has the estimate, which is fixed by then.
* `ContractProofs`, the monthly report: `MonthTypeCorrect` needs more than shapes: a number has at most one live contract,
  references of live rows resolve, an import is at a row its statement is for. `StatusKept` by `StatusInv`: every copy of an
  invoice that a request or an import's listing holds has the status of the row, unless somebody wrote the row since
  (`crossed`). `InvoicesPerRow` by `InvoicesInv`: an import that found no invoice under a name accounts for every invoice there
  is by a row of the sheet it has already done; so inserting at one more row leaves no more invoices than rows. A user may
  rename an invoice an import has listed: then the name it was listed under and the name it has now are both in `raced`
  (`ListedAs`), so a name that is not counts only invoices that kept it. It counts: the lemmas on cardinalities are those of
  `FiniteSetTheorems`, the injection takes invoices to rows of the sheet.
* `WorkspaceProofs`, the caches: `WorkspaceInvariant`. That a cache agrees with the tables is not inductive, because a bulk PUT
  saves a copy taken earlier and a restart replaces the cache by a load. `Core` has the types; `Served`: a replica that nothing
  excuses (`Covered`) lists distinct ids, all of them in the tables or, for roles, of the seed (`Below`, `Unstored`), and unless
  its load failed mirrors every row, message and photo (`Mirrors`); the replica of a start that is about to seed serves nobody;
  `SavesKept`: the copy a bulk PUT is about to write is what its replica still serves, up to counts (`Alike`), unless a write
  slipped in ("overlap"). `Bookkept` are the types of the history. The proof goes from each statement of the repository to each
  method of the store (`Sound`: types; `Good`: rows and ids) to each step of the service. A load is a sort (`OrderBy`), of which
  the lemmas `Ordered` and `Loaded` show that it lists every row once; a torn copy is `Alike` because both arrays are.
  `WorkspaceTypes`, `IdsStayUnique` and `CachesAgree` follow. Bodies of bulk PUTs are any decoded lists, also with repeated ids:
  such a body is served, and excused, until `SaveState` refuses it.
* `WorkspaceProofs`, the events: `FollowInvariant` adds `Listed` (every contract stored or served has a number and a status the
  events know) and `Followed`: what a consumer believes of a contract is the stored status or the one a handler is about to tell
  (`Believed`), and the status a handler read before its patch is the stored one, as are the supervisor and the session it was
  let through on (`Fits`), unless the contract is `raced`, which an event that was not enqueued and a seeding start make it.
  `StatusesFollowed` and, as an action property, `ContractorsOnlyReport` follow; the latter needs `WorkspaceInvariant` as well,
  since permission is decided on the cache.
* `WorkspaceLiveProofs`, acknowledged rows: `AckedInvariant`. That an acknowledged row is stored is not inductive: a bulk PUT
  deletes every row and writes what its copy has. `AckInv` adds that each of them is listed by every replica that missed nothing
  (`Shown`, for a replica that is not `Lacking`: no foreign write, lost answer, failed load or overlapping save), and that a
  task is stored under a stored project (`Held`; a load finds tasks through their projects, and deletes of projects cascade). A
  snapshot of such a replica then holds the row (`SnapshotHolds`), and a replica that loads lists it (`LoadedShows`). Projects
  are held, but not listed under their number, since a snapshot renames them; a save takes them out of `acked`. A start that
  seeds deletes every row and empties `acked`; until its load it is `Lacking`, and a write of it is foreign to the others. The
  proof says of each statement and each method what it takes away (`Lasts`, `Lasting`: nothing but the row it was asked to
  delete), then of each step. `AckedStay` follows, with `WorkspaceInvariant` for the copy of a bulk PUT (`SavesKept`).
* `WorkspaceLiveProofs`, the socket: `PushesConverge`, when a hub is installed (`Realtime`; without one there is nothing to
  show). `PushInv` says why no screen is left behind: what moved the store of a replica left an announcement due, or a request
  that will make one, or an excuse (`Spoken`, for every request and statement of the service); an announcement becomes a nudge
  or a broadcast; and a broadcast that has not reached a connection yet will read the store after it took a version no older
  than the connection's newest (`Coming`, with `VersionsOK`). So a connection is current or something is on its way to it
  (`UpToDate`), and once the replica has settled nothing is on its way. A second invariant, `Opened`, says that no connection is
  at a replica whose start is about to seed, so that step moves no screen. Restarts and connections that join between the
  version and the store are included.

The assumptions on constants are those of the modules (the workbook is three sequences of rows with the fields the parser
gives them; execution statuses typed by users are the valid ones, which `governance_controller.go:233` checks; days, bounds
and progress are naturals; imports and requests by hand are different processes; the first tables satisfy the schema,
`StartAssumption`, and bodies of bulk PUTs are decoded into the types of the store, `BodiesAssumption`). Actions that the run of a
module reaches only under a `focus` are proved for their own specification (`MonthSpec`, `RegSpec`, `RemindersSpec`), without it.
The type invariants of `ContractLifecycle` and of `Outbox` are proved but are not among the runs' properties.

**Model-checked only**: the liveness properties (`PaidReachesMilestone`, `Drained`, `StaleScreensRefresh`; liveness under
fairness and ENABLED are out of the prover's reach), `RouteNarrowest` (a fold over a sequence: induction over data),
`ValueAccountsSerially` (what is still to be added to a contract is a sum over the requests in service: induction),
`ImportDelivers` (it compares the summary of a month, counted over the rows, with the workbook), and two of the workspace:
`ZoneCountsRight` (cardinalities of filtered sets), `LogAndTasksAgree` (what a save makes of the projects is a
flattened sequence, again induction). No module declares a RECURSIVE operator.

## 5. Not modelled

* Formatting, logging, listing and paging, routing, uploads and pre-signed links, exports, the contractor portal (it changes
  nothing), the parsing of workbooks; text fields that no property tells apart. Tokens, keys and the registration of
  permissions belong to another service; which session may do what is modelled where the workspace decides it.
* KPIs, risks, templates, clauses, supply contracts, project managers, challenges, action items and contractor snapshots: lists
  whose rows are created, replaced and deleted by one statement each and which decide nothing. A model of one would say that
  a row is what was last written to it.
* Time appears only as "a claim may lapse at any moment" and, for reminders, as days. The poll interval and `backoffFor` are
  not modelled. Integers do not overflow in these models.
* The connection pool, the rate limiter and the migration lock; the shared approval engine beyond what the governance chains
  reach; the event consumer library, which nothing here calls.
* Rows of a deleted contract disappear with it as the foreign keys say. The nudge is taken to reach every subscriber once Redis
  accepted it, which is an assumption of these models and not what Redis promises: pub/sub delivers at most once, `Publish`
  succeeds with no subscriber connected, and `RunSubscriber` reconnects without closing the sockets of its replica, so a nudge
  published meanwhile refreshes nobody there until the next one. A push is encoded and written in one step.
* In `Reminders` milestones are those of the table: the store of one replica, from whose length the ids come, is taken to agree
  with it (that it may not is the subject of `WorkspaceService`).

## 6. Plan

Done, in the order of importance: `GovChain`, `PaymentWorkflow` with `PaymentPromise`, `Outbox`, `VariationWorkflow`,
`ContractLifecycle`, `RequisitionWorkflow`, proofs for payments, outbox, requisitions and variations; then `WorkspaceTables`,
`WorkspaceModel`, `WorkspaceService`, `WorkspaceLive`, `MonthlyReport`, `GovRegisters`, `Reminders`; then their proofs, with
those of the caches, ids, acknowledged rows and events of the workspace, and the refinement of `PaymentPromise`.

To do, in this order:

1. The rest of the workspace's proofs: `ZoneCountsRight` and `LogAndTasksAgree`.
2. `ApprovalEngine`: the shared engine as it is (advance with quorum and roles, reject, amend, return, cancel, reopen,
   rebase), its history append-only, its separation rule under reopen and amend; `GovChain` as its special case, checked as a
   refinement.
3. `MoneyArith`: `backoffFor` and `ComputePayable` at the width of int64, against integers.
4. `ConnectionPool`: a transaction that asks the pool for a second connection; `RateLimiter`: fixed windows and eviction.
