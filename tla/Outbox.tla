------------------------------- MODULE Outbox -------------------------------
(***************************************************************************)
(* The event outbox and the publishers that drain it to Kafka, one per     *)
(* replica of the service (internal/outbox/outbox.go).                     *)
(*                                                                         *)
(* A publisher claims the due rows of lowest id by pushing their           *)
(* available_at one second out, writes them to Kafka one after the other   *)
(* in no particular order (RETURNING promises none), and marks each.  Time *)
(* is not modelled: a row that is not due may become due at any moment,    *)
(* however long its publisher still holds it.  LeaseHolds is the opposite  *)
(* assumption, that the claim outlives the batch.                          *)
(***************************************************************************)
EXTENDS Integers, FiniteSets

CONSTANTS
    MaxRows,      \* bound on the rows inserted
    Publishers,   \* one per replica
    Batch,        \* rows claimed at one time
    Outages,      \* Kafka may refuse or fail to answer a write
    Crashes,      \* publishers may die, and marks may fail
    LeaseHolds    \* a claimed row is not due while its publisher holds it

ASSUME OutboxAssumption ==
    /\ MaxRows \in Nat /\ Batch \in Nat \ {0}
    /\ {Outages, Crashes, LeaseHolds} \subseteq BOOLEAN

Ids == 1 .. MaxRows
NoId == 0

VARIABLES
    state,        \* of each row: not inserted, in an open transaction, committed, rolled back
    dispatched,   \* rows with dispatched_at set
    due,          \* rows with available_at in the past
    holding,      \* what each publisher has claimed and not yet written
    writing,      \* the row each publisher has written, and how that went
    kafka         \* rows the topic holds at least one copy of

vars == <<state, dispatched, due, holding, writing, kafka>>

Committed == {i \in Ids : state[i] = "committed"}
Resting == [row |-> NoId, outcome |-> "none"]

\* What publisher p is responsible for.
InHands(p) == holding[p] \cup ({writing[p].row} \ {NoId})

-----------------------------------------------------------------------------
Init ==
    /\ state = [i \in Ids |-> "none"]
    /\ dispatched = {}
    /\ due = {}
    /\ holding = [p \in Publishers |-> {}]
    /\ writing = [p \in Publishers |-> Resting]
    /\ kafka = {}

\* Enqueue: BIGSERIAL gives the id at the insert, the commit makes it visible.
Insert(i) ==
    /\ state[i] = "none"
    /\ \A j \in Ids : j < i => state[j] # "none"
    /\ state' = [state EXCEPT ![i] = "open"]
    /\ UNCHANGED <<dispatched, due, holding, writing, kafka>>

Commit(i) ==
    /\ state[i] = "open"
    /\ state' = [state EXCEPT ![i] = "committed"]
    /\ due' = due \cup {i}
    /\ UNCHANGED <<dispatched, holding, writing, kafka>>

Rollback(i) ==
    /\ state[i] = "open"
    /\ state' = [state EXCEPT ![i] = "rolled back"]
    /\ UNCHANGED <<dispatched, due, holding, writing, kafka>>

\* available_at passes.
LeaseEnds(i) ==
    /\ i \in Committed \ (due \cup dispatched)
    /\ LeaseHolds => \A p \in Publishers : i \notin InHands(p)
    /\ due' = due \cup {i}
    /\ UNCHANGED <<state, dispatched, holding, writing, kafka>>

Free(p) == holding[p] = {} /\ writing[p] = Resting

Claimable == (Committed \cap due) \ dispatched

\* Fault: only the id that follows the last one dispatched is taken.
ClaimBatchNextId(p) ==
    /\ Free(p)
    /\ \E i \in Claimable :
          /\ \A j \in Ids : j < i => j \in dispatched
          /\ holding' = [holding EXCEPT ![p] = {i}]
          /\ due' = due \ {i}
    /\ UNCHANGED <<state, dispatched, writing, kafka>>

\* ClaimBatch: the first Batch due rows by id, in one statement.
ClaimBatch(p) ==
    /\ Free(p)
    /\ \E ids \in SUBSET Claimable :
          /\ ids # {}
          /\ Cardinality(ids) <= Batch
          /\ ids = Claimable \/ Cardinality(ids) = Batch
          /\ \A i \in ids, j \in Claimable \ ids : i < j
          /\ holding' = [holding EXCEPT ![p] = ids]
          /\ due' = due \ ids
    /\ UNCHANGED <<state, dispatched, writing, kafka>>

Wrote(p, i, outcome) ==
    /\ writing[p] = Resting
    /\ i \in holding[p]
    /\ holding' = [holding EXCEPT ![p] = @ \ {i}]
    /\ writing' = [writing EXCEPT ![p] = [row |-> i, outcome |-> outcome]]
    /\ UNCHANGED <<state, dispatched, due>>

\* DispatchOutbox: WriteMessages succeeds, or fails with or without the message
\* having reached the topic.
Deliver(p, i) ==
    /\ Wrote(p, i, "ok")
    /\ kafka' = kafka \cup {i}

DeliveryFails(p, i) ==
    /\ Outages
    /\ Wrote(p, i, "failed")
    /\ kafka' = kafka \/ kafka' = kafka \cup {i}

\* Fault: a failed write is marked like any other.
MarkDispatchedAnyway(p) ==
    /\ writing[p] # Resting
    /\ dispatched' = dispatched \cup {writing[p].row}
    /\ writing' = [writing EXCEPT ![p] = Resting]
    /\ UNCHANGED <<state, due, holding, kafka>>

MarkDispatched(p) ==
    /\ writing[p].outcome = "ok"
    /\ dispatched' = dispatched \cup {writing[p].row}
    /\ writing' = [writing EXCEPT ![p] = Resting]
    /\ UNCHANGED <<state, due, holding, kafka>>

\* MarkFailed pushes available_at out, whoever claimed the row meanwhile.
MarkFailed(p) ==
    /\ writing[p].outcome = "failed"
    /\ due' = due \ {writing[p].row}
    /\ writing' = [writing EXCEPT ![p] = Resting]
    /\ UNCHANGED <<state, dispatched, holding, kafka>>

\* The error of a mark is logged and the loop goes on.
MarkLost(p) ==
    /\ Crashes
    /\ writing[p] # Resting
    /\ writing' = [writing EXCEPT ![p] = Resting]
    /\ UNCHANGED <<state, dispatched, due, holding, kafka>>

\* The process stops, its context is cancelled, or the claim's answer is lost.
Crash(p) ==
    /\ Crashes
    /\ ~Free(p)
    /\ holding' = [holding EXCEPT ![p] = {}]
    /\ writing' = [writing EXCEPT ![p] = Resting]
    /\ UNCHANGED <<state, dispatched, due, kafka>>

Next ==
    \/ \E i \in Ids : Insert(i) \/ Commit(i) \/ Rollback(i) \/ LeaseEnds(i)
    \/ \E p \in Publishers :
          \/ ClaimBatch(p)
          \/ MarkDispatched(p)
          \/ MarkFailed(p)
          \/ MarkLost(p)
          \/ Crash(p)
          \/ \E i \in Ids : Deliver(p, i) \/ DeliveryFails(p, i)

Spec == Init /\ [][Next]_vars

\* Publishers run for the life of the process and a transaction ends.  Strong
\* fairness stands for what the design relies on: an outage ends, and a restarted
\* publisher does not die at the same point every time.
Fairness ==
    /\ \A i \in Ids : WF_vars(Commit(i) \/ Rollback(i)) /\ WF_vars(LeaseEnds(i))
    /\ \A p \in Publishers :
          /\ WF_vars(ClaimBatch(p))
          /\ WF_vars(MarkFailed(p))
          /\ SF_vars(MarkDispatched(p))
          /\ \A i \in Ids : SF_vars(Deliver(p, i))

FairSpec == Spec /\ Fairness

-----------------------------------------------------------------------------
TypeOK ==
    /\ state \in [Ids -> {"none", "open", "committed", "rolled back"}]
    /\ dispatched \subseteq Ids
    /\ due \subseteq Ids
    /\ holding \in [Publishers -> SUBSET Ids]
    /\ writing \in [Publishers -> [row : Ids \cup {NoId}, outcome : {"none", "ok", "failed"}]]
    /\ kafka \subseteq Ids

\* A row is marked dispatched only when the topic holds it, and the topic holds
\* only rows that were committed, whatever publishers overlapped or died: no
\* event is dropped by being marked, none announces a rolled back change.
DeliveryHonest ==
    /\ dispatched \subseteq kafka
    /\ kafka \subseteq Committed

\* What makes it inductive: publishers hold committed rows, and a row written
\* with success is in the topic before it is marked.
HandsHonest ==
    /\ due \subseteq Committed
    /\ \A p \in Publishers :
          /\ InHands(p) \subseteq Committed
          /\ writing[p].outcome = "none" <=> writing[p].row = NoId
          /\ writing[p].outcome = "ok" => writing[p].row \in kafka

OutboxInv == TypeOK /\ DeliveryHonest /\ HandsHonest

\* "concurrent publishers never double-claim the same row".
NeverDoubleClaimed ==
    \A p, q \in Publishers : p # q => InHands(p) \cap InHands(q) = {}

\* What makes it inductive when claims outlive batches: a row in hand is not due.
HeldNotDue == \A p \in Publishers : InHands(p) \cap due = {}

\* "a Kafka outage delays delivery instead of dropping it": in the end every
\* committed row has been delivered and marked and the publishers are at rest.
Drained ==
    <>[] (dispatched = Committed /\ \A p \in Publishers : Free(p))
=============================================================================
