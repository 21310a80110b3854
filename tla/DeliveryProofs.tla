--------------------------- MODULE DeliveryProofs ---------------------------
(***************************************************************************)
(* Proofs about the two ways an event reaches Kafka.  Outbox: for any      *)
(* number of rows and publishers and any batch size, with or without       *)
(* outages, crashes and expired claims.  Reminders: for any number of      *)
(* jobs, milestones and days.                                              *)
(***************************************************************************)
EXTENDS Outbox, Reminders, WellFoundedInduction, TLAPS

\* A publisher at rest has no row to mark.
LEMMA RestingType ==
    /\ Resting \in [row : Ids \cup {NoId}, outcome : {"none", "ok", "failed"}]
    /\ Resting.row = NoId /\ Resting.outcome = "none"
BY DEF Resting

LEMMA NoIdIsNoId == NoId \notin Ids
BY OutboxAssumption DEF NoId, Ids

\* Marks rest on deliveries and deliveries on commits: a mark follows a write
\* that succeeded, a write a claim, and a claim sees committed rows only.
THEOREM OutboxHonest == Spec => []OutboxInv
<1> USE OutboxAssumption
<1>1. Init => OutboxInv
    BY RestingType DEF Init, OutboxInv, TypeOK, DeliveryHonest, HandsHonest, Committed, InHands
<1>2. OutboxInv /\ [Next]_vars => OutboxInv'
    <2> SUFFICES ASSUME OutboxInv, [Next]_vars PROVE OutboxInv'
        OBVIOUS
    <2> USE DEF OutboxInv, DeliveryHonest
    <2>0. TypeOK /\ HandsHonest
        OBVIOUS
    <2>1. ASSUME NEW i \in Ids, Insert(i) \/ Commit(i) \/ Rollback(i)
          PROVE  OutboxInv'
        <3>1. TypeOK'
            BY <2>1 DEF Insert, Commit, Rollback, TypeOK
        <3>2. PICK s \in {"open", "committed", "rolled back"} :
                  /\ state' = [state EXCEPT ![i] = s]
                  /\ state[i] # "committed"
                  /\ due' = due \/ (s = "committed" /\ due' = due \cup {i})
            BY <2>1 DEF Insert, Commit, Rollback
        <3>3. \A j \in Ids : state'[j] = IF j = i THEN s ELSE state[j]
            BY <3>2 DEF TypeOK
        <3>4. UNCHANGED <<dispatched, holding, writing, kafka>>
            BY <2>1 DEF Insert, Commit, Rollback
        <3>5. Committed \subseteq Committed'
            BY <3>2, <3>3 DEF Committed
        <3>6. due' \subseteq Committed'
            BY <3>2, <3>3, <3>5 DEF HandsHonest, Committed
        <3>7. \A p \in Publishers : InHands(p)' = InHands(p)
            BY <3>4 DEF InHands
        <3>8. DeliveryHonest'
            BY <3>4, <3>5
        <3>9. HandsHonest'
            BY <3>4, <3>5, <3>6, <3>7 DEF HandsHonest
        <3> QED
            BY <3>1, <3>8, <3>9
    <2>2. ASSUME NEW i \in Ids, LeaseEnds(i)
          PROVE  OutboxInv'
        BY <2>2 DEF LeaseEnds, TypeOK, HandsHonest, Committed, InHands
    <2>3. ASSUME NEW p \in Publishers, ClaimBatch(p)
          PROVE  OutboxInv'
        <3>1. PICK ids \in SUBSET Claimable :
                  holding' = [holding EXCEPT ![p] = ids] /\ due' = due \ ids
            BY <2>3 DEF ClaimBatch
        <3>2. ids \subseteq Committed /\ Committed' = Committed
            BY <2>3 DEF ClaimBatch, Claimable, Committed
        <3>3. UNCHANGED <<state, dispatched, writing, kafka>>
            BY <2>3 DEF ClaimBatch
        <3>4. TypeOK'
            BY <3>1, <3>2, <3>3 DEF TypeOK, Committed
        <3>5. \A q \in Publishers : holding'[q] = IF q = p THEN ids ELSE holding[q]
            BY <3>1 DEF TypeOK
        <3> QED
            BY <3>1, <3>2, <3>3, <3>4, <3>5 DEF HandsHonest, InHands
    <2>4. ASSUME NEW p \in Publishers, NEW i \in Ids, Deliver(p, i) \/ DeliveryFails(p, i)
          PROVE  OutboxInv'
        <3>1. PICK outcome \in {"ok", "failed"} :
                  Wrote(p, i, outcome) /\ (outcome = "ok" => i \in kafka')
            BY <2>4 DEF Deliver, DeliveryFails
        <3>2. kafka \subseteq kafka' /\ kafka' \subseteq kafka \cup {i}
            BY <2>4 DEF Deliver, DeliveryFails
        <3>3. i \in Committed /\ Committed' = Committed
            BY <3>1 DEF Wrote, HandsHonest, InHands, Committed
        <3>4. /\ \A q \in Publishers :
                    holding'[q] = IF q = p THEN holding[q] \ {i} ELSE holding[q]
              /\ \A q \in Publishers :
                    writing'[q] = IF q = p THEN [row |-> i, outcome |-> outcome]
                                  ELSE writing[q]
            BY <3>1 DEF Wrote, TypeOK
        <3>5. TypeOK'
            BY <3>1, <3>2 DEF Wrote, TypeOK
        <3>6. UNCHANGED <<dispatched, due>>
            BY <3>1 DEF Wrote
        <3>7. DeliveryHonest'
            BY <3>2, <3>3, <3>6
        <3>8. ASSUME NEW q \in Publishers
              PROVE  /\ InHands(q)' \subseteq Committed
                     /\ writing'[q].outcome = "none" <=> writing'[q].row = NoId
                     /\ writing'[q].outcome = "ok" => writing'[q].row \in kafka'
            <4>1. CASE q = p
                <5>1. holding'[q] = holding[q] \ {i} /\ writing'[q] = [row |-> i, outcome |-> outcome]
                    BY <3>4, <4>1
                <5>2. writing'[q].row = i /\ writing'[q].outcome = outcome
                    BY <5>1
                <5>3. InHands(q)' \subseteq Committed
                    BY <5>1, <5>2, <3>3 DEF HandsHonest, InHands
                <5> QED
                    BY <5>2, <5>3, <3>1, NoIdIsNoId
            <4>2. CASE q # p
                BY <3>2, <3>4, <4>2 DEF HandsHonest, InHands
            <4> QED
                BY <4>1, <4>2
        <3>9. HandsHonest'
            BY <3>3, <3>6, <3>8 DEF HandsHonest
        <3> QED
            BY <3>5, <3>7, <3>9
    <2>5. ASSUME NEW p \in Publishers,
                 MarkDispatched(p) \/ MarkFailed(p) \/ MarkLost(p) \/ Crash(p)
          PROVE  OutboxInv'
        <3>1. /\ dispatched' = dispatched \/ dispatched' = dispatched \cup {writing[p].row}
              /\ dispatched' # dispatched => writing[p].outcome = "ok"
            BY <2>5 DEF MarkDispatched, MarkFailed, MarkLost, Crash
        <3>2. /\ writing' = [writing EXCEPT ![p] = Resting]
              /\ holding' = holding \/ holding' = [holding EXCEPT ![p] = {}]
              /\ due' \subseteq due
              /\ UNCHANGED <<state, kafka>>
            BY <2>5 DEF MarkDispatched, MarkFailed, MarkLost, Crash
        <3>3. dispatched' \subseteq kafka /\ dispatched' \subseteq Ids
            BY <3>1 DEF HandsHonest, TypeOK
        <3>4. TypeOK'
            BY <3>2, <3>3, RestingType DEF TypeOK
        <3>5. /\ Committed' = Committed
              /\ \A q \in Publishers : /\ holding'[q] \subseteq holding[q]
                                       /\ writing'[q] = IF q = p THEN Resting ELSE writing[q]
            BY <3>2 DEF Committed, TypeOK
        <3> QED
            BY <3>2, <3>3, <3>4, <3>5, RestingType DEF HandsHonest, InHands
    <2>6. CASE UNCHANGED vars
        BY <2>6 DEF vars, TypeOK, HandsHonest, Committed, InHands
    <2> QED
        BY <2>1, <2>2, <2>3, <2>4, <2>5, <2>6 DEF Next
<1> QED
    BY <1>1, <1>2, PTL DEF Spec

\* Publishers hold rows and marks of the shapes they should.
THEOREM TypeCorrect == Spec => []TypeOK
BY OutboxHonest, PTL DEF OutboxInv

\* No event is dropped by being marked, and none is published of a change that
\* was rolled back.
THEOREM DeliveryKept == Spec => []DeliveryHonest
BY OutboxHonest, PTL DEF OutboxInv

-----------------------------------------------------------------------------
\* When a claim outlives the batch it was made for, no row is ever in the hands
\* of two publishers: a row in hand is not due, and only due rows are claimed.
THEOREM ClaimsExclusive ==
    ASSUME LeaseHolds
    PROVE  Spec => []NeverDoubleClaimed
<1> DEFINE Inv == OutboxInv /\ HeldNotDue /\ NeverDoubleClaimed
<1>1. Init => HeldNotDue /\ NeverDoubleClaimed
    BY RestingType DEF Init, HeldNotDue, NeverDoubleClaimed, InHands
<1>2. OutboxInv /\ HeldNotDue /\ NeverDoubleClaimed /\ [Next]_vars
          => HeldNotDue' /\ NeverDoubleClaimed'
    <2> SUFFICES ASSUME OutboxInv, HeldNotDue, NeverDoubleClaimed, [Next]_vars
                 PROVE  HeldNotDue' /\ NeverDoubleClaimed'
        OBVIOUS
    <2>0. TypeOK /\ HandsHonest
        BY DEF OutboxInv
    <2>1. ASSUME \A q \in Publishers : InHands(q)' \subseteq InHands(q), due' \subseteq due
          PROVE  HeldNotDue' /\ NeverDoubleClaimed'
        BY <2>1 DEF HeldNotDue, NeverDoubleClaimed
    <2>2. ASSUME NEW i \in Ids, Insert(i) \/ Commit(i) \/ Rollback(i)
          PROVE  HeldNotDue' /\ NeverDoubleClaimed'
        <3>1. /\ \A q \in Publishers : InHands(q)' = InHands(q)
              /\ due' = due \/ (state[i] # "committed" /\ due' = due \cup {i})
            BY <2>2 DEF Insert, Commit, Rollback, InHands
        <3>2. state[i] # "committed" => \A q \in Publishers : i \notin InHands(q)
            BY <2>0 DEF HandsHonest, Committed
        <3> QED
            BY <3>1, <3>2 DEF HeldNotDue, NeverDoubleClaimed
    <2>3. ASSUME NEW i \in Ids, LeaseEnds(i)
          PROVE  HeldNotDue' /\ NeverDoubleClaimed'
        BY <2>3 DEF LeaseEnds, HeldNotDue, NeverDoubleClaimed, InHands
    <2>4. ASSUME NEW p \in Publishers, ClaimBatch(p)
          PROVE  HeldNotDue' /\ NeverDoubleClaimed'
        <3>1. PICK ids \in SUBSET Claimable :
                  /\ holding' = [holding EXCEPT ![p] = ids]
                  /\ due' = due \ ids
                  /\ writing' = writing /\ writing[p] = Resting
            BY <2>4 DEF ClaimBatch, Free
        <3>2. /\ InHands(p)' = ids
              /\ \A q \in Publishers : q # p => InHands(q)' = InHands(q)
            BY <2>0, <3>1, RestingType DEF InHands, TypeOK
        <3>3. ids \subseteq due
            BY <3>1 DEF Claimable
        <3> QED
            BY <3>1, <3>2, <3>3 DEF HeldNotDue, NeverDoubleClaimed
    <2>5. ASSUME NEW p \in Publishers, NEW i \in Ids, Deliver(p, i) \/ DeliveryFails(p, i)
          PROVE  HeldNotDue' /\ NeverDoubleClaimed'
        <3>1. PICK outcome : Wrote(p, i, outcome)
            BY <2>5 DEF Deliver, DeliveryFails
        <3>2. \A q \in Publishers : InHands(q)' \subseteq InHands(q)
            BY <2>0, <3>1 DEF Wrote, InHands, TypeOK
        <3> QED
            BY <2>1, <3>1, <3>2 DEF Wrote
    <2>6. ASSUME NEW p \in Publishers,
                 MarkDispatched(p) \/ MarkFailed(p) \/ MarkLost(p) \/ Crash(p)
          PROVE  HeldNotDue' /\ NeverDoubleClaimed'
        <3>1. /\ writing' = [writing EXCEPT ![p] = Resting]
              /\ holding' = holding \/ holding' = [holding EXCEPT ![p] = {}]
              /\ due' \subseteq due
            BY <2>6 DEF MarkDispatched, MarkFailed, MarkLost, Crash
        <3>2. \A q \in Publishers : InHands(q)' \subseteq InHands(q)
            BY <2>0, <3>1, RestingType DEF InHands, TypeOK
        <3> QED
            BY <2>1, <3>1, <3>2
    <2>7. CASE UNCHANGED vars
        BY <2>7 DEF vars, HeldNotDue, NeverDoubleClaimed, InHands
    <2> QED
        BY <2>2, <2>3, <2>4, <2>5, <2>6, <2>7 DEF Next
<1> QED
    BY <1>1, <1>2, OutboxHonest, PTL DEF Spec

-----------------------------------------------------------------------------
(***************************************************************************)
(* Reminders.  Why a reminder is not repeated: whoever has announced a     *)
(* milestone for a date is on the way to record it, or has, and a job that *)
(* checks in between is known to have overlapped.                          *)
(***************************************************************************)
Row == [is : Milestones, due : MilestoneDays, complete : BOOLEAN]

Copy == [id : Milestones, is : Milestones, due : MilestoneDays]

Work == [step : {"asleep", "check", "publish", "record"}, todo : SUBSET Copy]

JobsOK ==
    /\ job \in [Jobs -> Work]
    /\ \A j \in Jobs : job[j].step = "asleep" <=> job[j].todo = {}

RemindersTypeOK ==
    /\ today \in Nat
    /\ milestones \in [Milestones -> Row \cup {NoMilestone}]
    /\ created \in 0 .. MaxMilestones
    /\ holders \in [Milestones -> Nat]
    /\ recorded \in SUBSET (Milestones \X MilestoneDays)
    /\ JobsOK
    /\ tries \in [Milestones -> [MilestoneDays -> 0 .. 2]]
    /\ overlooked \in SUBSET Copy
    /\ repeatable \in SUBSET (Milestones \X MilestoneDays)

\* Milestone m, by order of creation, has or had the id i, as the table or a job knows.
Seen(i, m) ==
    \/ i \in Present /\ milestones[i].is = m
    \/ \E j \in Jobs : \E c \in job[j].todo : c.id = i /\ c.is = m

\* A milestone keeps its id, and an id with two milestones has been used twice.
IdsKept ==
    \A i, k, m, n \in Milestones :
        /\ Seen(i, m) => m <= created /\ holders[i] > 0
        /\ Seen(i, m) /\ Seen(k, m) => i = k
        /\ Seen(i, m) /\ Seen(i, n) /\ m # n => holders[i] > 1

\* Job j is at milestone m, due on day d.
IsAt(j, m, d) == First(j).is = m /\ First(j).due = d

\* What was announced is not about to be announced again, and is recorded or about to
\* be, unless it may be repeated.
TriedOnce ==
    \A m \in Milestones, d \in MilestoneDays : tries[m][d] > 0 =>
        /\ m <= created
        /\ <<m, d>> \notin repeatable =>
              /\ tries[m][d] = 1
              /\ \A j \in Jobs : job[j].step = "publish" => ~IsAt(j, m, d)
              /\ \A i \in Milestones : Seen(i, m) =>
                    \/ <<i, d>> \in recorded
                    \/ \E j \in Jobs : job[j].step = "record" /\ IsAt(j, m, d)

\* A job records what was announced, and two jobs at one reminder are known.
JobsKnown ==
    /\ \A j \in Jobs : job[j].step = "record" => tries[First(j).is][First(j).due] > 0
    /\ \A j, k \in Jobs :
          /\ job[j].step \in {"publish", "record"} /\ job[k].step \in {"publish", "record"}
          /\ j # k /\ First(j) = First(k)
          => Marked(First(j)) \in repeatable

\* What is recorded under an id was announced, for the one milestone that had it.
RecordedTried ==
    \A i \in Milestones, d \in MilestoneDays : <<i, d>> \in recorded =>
        /\ holders[i] > 0
        /\ \A m \in Milestones : Seen(i, m) /\ tries[m][d] = 0 => holders[i] > 1

OverlookedReused == \A c \in overlooked : holders[c.id] > 1

RemindersInv ==
    /\ RemindersTypeOK
    /\ IdsKept
    /\ TriedOnce
    /\ JobsKnown
    /\ RecordedTried
    /\ OverlookedReused

-----------------------------------------------------------------------------
\* A set of numbers has a least one.
LEMMA Least ==
    ASSUME NEW S \in SUBSET Nat, S # {}
    PROVE  \E n \in S : \A k \in S : n <= k
<1>1. PICK n \in S : \A k \in S : ~ (<<k, n>> \in OpToRel(<, Nat))
    BY NatLessThanWellFounded, WFMin
<1>2. ASSUME NEW k \in S
      PROVE  n <= k
    <2>1. <<k, n>> \in Nat \X Nat
        OBVIOUS
    <2>2. ~(k < n)
        BY <1>1, <2>1 DEF OpToRel
    <2> QED
        BY <2>2
<1> QED
    BY <1>2

\* ORDER BY due_date, id has a first row.
LEMMA FirstIn ==
    ASSUME RemindersTypeOK, NEW j \in Jobs, job[j].todo # {}
    PROVE  /\ First(j) \in job[j].todo
           /\ First(j) \in Copy
           /\ First(j).is \in Milestones /\ First(j).due \in MilestoneDays
           /\ First(j).id \in Milestones
<1> DEFINE todo == job[j].todo
           dues == {m.due : m \in todo}
<1>1. todo \subseteq Copy
    BY DEF RemindersTypeOK, JobsOK, Work
<1>2. /\ \A m \in Copy : m.is \in Milestones /\ m.due \in MilestoneDays /\ m.id \in Milestones
      /\ \A m \in todo : m.due \in Nat /\ m.id \in Nat
    <2>1. \A m \in Copy : m.is \in Milestones /\ m.due \in MilestoneDays /\ m.id \in Milestones
        BY DEF Copy
    <2>2. Milestones \subseteq Nat /\ MilestoneDays \subseteq Nat
        BY RemindersAssumption DEF Milestones
    <2> HIDE DEF todo
    <2> QED
        BY <1>1, <2>1, <2>2
<1>3. PICK soonest \in dues : \A d \in dues : soonest <= d
    <2>1. dues \in SUBSET Nat /\ dues # {}
        BY <1>2
    <2> QED
        BY <2>1, Least
<1> DEFINE earliest == {m \in todo : m.due = soonest}
           ids == {m.id : m \in earliest}
<1>4. PICK id \in ids : \A i \in ids : id <= i
    <2>1. ids \in SUBSET Nat /\ ids # {}
        BY <1>2, <1>3
    <2> HIDE DEF ids
    <2> QED
        BY <2>1, Least
<1>5. PICK m \in todo : m.due = soonest /\ m.id = id
    BY <1>4
<1>6. \A n \in todo : m.due < n.due \/ (m.due = n.due /\ m.id <= n.id)
    <2> TAKE n \in todo
    <2>1. soonest <= n.due
        BY <1>3
    <2>2. n.due = soonest => id <= n.id
        BY <1>4
    <2> QED
        BY <1>2, <1>5, <2>1, <2>2
<1>7. First(j) \in todo
    BY <1>6 DEF First
<1> QED
    BY <1>1, <1>2, <1>7

\* A job at work is at a milestone it knows.
LEMMA AtWork ==
    ASSUME RemindersTypeOK, NEW j \in Jobs, job[j].step # "asleep"
    PROVE  /\ First(j) \in job[j].todo
           /\ First(j) \in Copy
           /\ First(j).id \in Milestones
           /\ First(j).is \in Milestones
           /\ First(j).due \in MilestoneDays
           /\ Seen(First(j).id, First(j).is)
           /\ job[j].todo # {}
<1>1. job[j].todo # {}
    BY DEF RemindersTypeOK, JobsOK
<1>2. /\ First(j) \in job[j].todo /\ First(j) \in Copy
      /\ First(j).id \in Milestones
      /\ First(j).is \in Milestones /\ First(j).due \in MilestoneDays
    BY <1>1, FirstIn
<1> QED
    BY <1>1, <1>2 DEF Seen

\* Two jobs at one milestone and date are at one reminder.
LEMMA SameReminder ==
    ASSUME RemindersTypeOK, IdsKept, NEW j \in Jobs, NEW k \in Jobs,
           job[j].step # "asleep", job[k].step # "asleep",
           First(j).is = First(k).is, First(j).due = First(k).due
    PROVE  First(j) = First(k)
<1>1. First(j) \in Copy /\ First(k) \in Copy /\ First(j).id = First(k).id
    BY AtWork DEF IdsKept
<1> QED
    BY <1>1 DEF Copy

\* A job that goes on to what it has left to do, or to sleep.
LEMMA GoesOn ==
    ASSUME JobsOK, NEW j \in Jobs, NEW step \in {"check", "publish", "record"},
           NEW todo \in SUBSET Copy, Goes(j, step, todo)
    PROVE  /\ JobsOK'
           /\ job'[j].todo = todo
           /\ job'[j].step = IF todo = {} THEN "asleep" ELSE step
           /\ \A k \in Jobs : k # j => job'[k] = job[k]
<1>1. PICK w : w = IF todo = {} THEN Asleep ELSE [step |-> step, todo |-> todo]
    OBVIOUS
<1>2. w \in Work /\ w.todo = todo /\ w.step = IF todo = {} THEN "asleep" ELSE step
    BY <1>1 DEF Work, Asleep
<1>3. job' = [job EXCEPT ![j] = w]
    BY <1>1 DEF Goes
<1>4. job' \in [Jobs -> Work] /\ job'[j] = w /\ \A k \in Jobs : k # j => job'[k] = job[k]
    BY <1>2, <1>3 DEF JobsOK
<1> QED
    BY <1>2, <1>4 DEF JobsOK

\* A job whose list stays as it is stays at its milestone.
LEMMA SameFirst ==
    ASSUME NEW j \in Jobs, job'[j].todo = job[j].todo
    PROVE  First(j)' = First(j)
BY DEF First

\* What is left when a job is done with one milestone is a part of its list.
LEMMA RestPart ==
    ASSUME JobsOK, NEW j \in Jobs
    PROVE  Rest(j) \in SUBSET Copy /\ Rest(j) \subseteq job[j].todo /\ job[j].todo \in SUBSET Copy
BY DEF JobsOK, Work, Rest

\* A table row of the window, copied by a job.
LEMMA CopyOfRow ==
    ASSUME RemindersTypeOK, NEW i \in Present
    PROVE  /\ i \in Milestones
           /\ milestones[i] \in Row
           /\ milestones[i].is \in Milestones /\ milestones[i].due \in MilestoneDays
           /\ [id |-> i, is |-> milestones[i].is, due |-> milestones[i].due] \in Copy
<1>1. i \in Milestones /\ milestones[i] \in Row
    BY DEF RemindersTypeOK, Present
<1>2. milestones[i].is \in Milestones /\ milestones[i].due \in MilestoneDays
    BY <1>1 DEF Row
<1> QED
    BY <1>1, <1>2 DEF Copy

\* The ids that are seen, when the table loses rows or keeps them and jobs keep what
\* they know or lose it.
LEMMA SeenLess ==
    ASSUME \A i \in Present' : i \in Present /\ milestones'[i].is = milestones[i].is,
           \A j \in Jobs : job'[j].todo \subseteq job[j].todo
    PROVE  \A i, m \in Milestones : Seen(i, m)' => Seen(i, m)
BY DEF Seen

-----------------------------------------------------------------------------
\* Steps that lose nothing a reminder depends on: the ids seen are seen already, and
\* a job that turns from what it had announced has recorded it or may repeat it.
LEMMA QuietStep ==
    ASSUME RemindersInv,
           created' = created, holders' = holders, tries' = tries,
           recorded \subseteq recorded', repeatable \subseteq repeatable',
           \A i, m \in Milestones : Seen(i, m)' => Seen(i, m),
           \A j \in Jobs :
              \/ job'[j].step = job[j].step /\ First(j)' = First(j)
              \/ /\ job'[j].step \notin {"publish", "record"}
                 /\ job[j].step = "record" =>
                       \/ Marked(First(j)) \in repeatable'
                       \/ MilestoneReminderKey(First(j)) \in recorded'
    PROVE  IdsKept' /\ TriedOnce' /\ JobsKnown'
<1>1. RemindersTypeOK /\ IdsKept /\ TriedOnce /\ JobsKnown
    BY DEF RemindersInv
<1>2. IdsKept'
    BY <1>1 DEF IdsKept
<1>3. ASSUME NEW j \in Jobs, job'[j].step \in {"publish", "record"}
      PROVE  job'[j].step = job[j].step /\ First(j)' = First(j)
    BY <1>3
<1>4. JobsKnown'
    <2>1. ASSUME NEW j \in Jobs, job'[j].step = "record"
          PROVE  tries'[First(j)'.is][First(j)'.due] > 0
        BY <1>1, <1>3, <2>1 DEF JobsKnown
    <2>2. ASSUME NEW j \in Jobs, NEW k \in Jobs, j # k, First(j)' = First(k)',
                 job'[j].step \in {"publish", "record"}, job'[k].step \in {"publish", "record"}
          PROVE  Marked(First(j)') \in repeatable'
        <3>1. First(j) = First(k) /\ First(j)' = First(j)
            BY <1>3, <2>2
        <3>2. Marked(First(j)) \in repeatable
            BY <1>1, <1>3, <2>2, <3>1 DEF JobsKnown
        <3> QED
            BY <3>1, <3>2
    <2> QED
        BY <2>1, <2>2 DEF JobsKnown, Marked
<1>5. TriedOnce'
    <2> SUFFICES ASSUME NEW m \in Milestones, NEW d \in MilestoneDays, tries[m][d] > 0
                 PROVE  /\ m <= created
                        /\ <<m, d>> \notin repeatable' =>
                              /\ tries[m][d] = 1
                              /\ \A j \in Jobs : job'[j].step = "publish" => ~IsAt(j, m, d)'
                              /\ \A i \in Milestones : Seen(i, m)' =>
                                    \/ <<i, d>> \in recorded'
                                    \/ \E j \in Jobs : job'[j].step = "record" /\ IsAt(j, m, d)'
        BY DEF TriedOnce
    <2>1. m <= created
        BY <1>1 DEF TriedOnce
    <2>2. SUFFICES ASSUME <<m, d>> \notin repeatable'
                   PROVE  /\ tries[m][d] = 1
                          /\ \A j \in Jobs : job'[j].step = "publish" => ~IsAt(j, m, d)'
                          /\ \A i \in Milestones : Seen(i, m)' =>
                                \/ <<i, d>> \in recorded'
                                \/ \E j \in Jobs : job'[j].step = "record" /\ IsAt(j, m, d)'
        BY <2>1
    <2>3. /\ tries[m][d] = 1
          /\ \A j \in Jobs : job[j].step = "publish" => ~IsAt(j, m, d)
          /\ \A i \in Milestones : Seen(i, m) =>
                \/ <<i, d>> \in recorded
                \/ \E j \in Jobs : job[j].step = "record" /\ IsAt(j, m, d)
        BY <1>1, <2>2 DEF TriedOnce
    <2>4. ASSUME NEW j \in Jobs, job'[j].step = "publish"
          PROVE  ~IsAt(j, m, d)'
        BY <1>3, <2>3, <2>4 DEF IsAt
    <2>5. ASSUME NEW i \in Milestones, Seen(i, m)'
          PROVE  \/ <<i, d>> \in recorded'
                 \/ \E j \in Jobs : job'[j].step = "record" /\ IsAt(j, m, d)'
        <3>1. Seen(i, m)
            BY <2>5
        <3>2. CASE <<i, d>> \in recorded
            BY <3>2
        <3>3. ASSUME NEW j \in Jobs, job[j].step = "record", IsAt(j, m, d)
              PROVE  \/ <<i, d>> \in recorded'
                     \/ job'[j].step = "record" /\ IsAt(j, m, d)'
            <4>1. /\ First(j).id \in Milestones /\ Seen(First(j).id, m)
                  /\ First(j).is = m /\ First(j).due = d
                BY <1>1, <3>3, AtWork DEF IsAt
            <4>2. First(j).id = i
                BY <1>1, <3>1, <4>1 DEF IdsKept
            <4>3. Marked(First(j)) = <<m, d>> /\ MilestoneReminderKey(First(j)) = <<i, d>>
                BY <4>1, <4>2 DEF Marked, MilestoneReminderKey
            <4> QED
                BY <2>2, <3>3, <4>1, <4>3 DEF IsAt
        <3> QED
            BY <2>3, <3>1, <3>2, <3>3
    <2> QED
        BY <2>3, <2>4, <2>5
<1> QED
    BY <1>2, <1>4, <1>5

\* What is recorded stays announced, when nothing is recorded that was not.
LEMMA RecordedQuiet ==
    ASSUME RecordedTried, recorded' = recorded, holders' = holders, tries' = tries,
           \A i, m \in Milestones : Seen(i, m)' => Seen(i, m)
    PROVE  RecordedTried'
BY DEF RecordedTried

\* The table's own steps: a day passes, a milestone is changed or deleted.
LEMMA TableStep ==
    ASSUME RemindersInv,
           NextDay \/ \E i \in Milestones : PatchMilestone(i) \/ DeleteMilestone(i)
    PROVE  RemindersInv'
<1>1. /\ created' = created /\ holders' = holders /\ tries' = tries
      /\ recorded' = recorded /\ job' = job /\ overlooked' = overlooked
      /\ repeatable' = repeatable
    BY DEF NextDay, PatchMilestone, DeleteMilestone
<1>2. RemindersTypeOK
    BY DEF RemindersInv
<1>3. /\ today' \in Nat
      /\ milestones' \in [Milestones -> Row \cup {NoMilestone}]
      /\ \A i \in Present' : i \in Present /\ milestones'[i].is = milestones[i].is
    <2>1. CASE NextDay
        BY <1>2, <2>1 DEF NextDay, RemindersTypeOK, Present
    <2>2. ASSUME NEW i \in Milestones, PatchMilestone(i)
          PROVE  <1>3
        <3>1. PICK d \in MilestoneDays, complete \in BOOLEAN :
                  milestones' = [milestones EXCEPT ![i].due = d, ![i].complete = complete]
            BY <2>2 DEF PatchMilestone
        <3>2. PICK row : row = [milestones[i] EXCEPT !.due = d, !.complete = complete]
            OBVIOUS
        <3>3. i \in Present /\ milestones[i] \in Row
            BY <1>2, <2>2, CopyOfRow DEF PatchMilestone
        <3>4. row \in Row /\ row.is = milestones[i].is
            BY <3>2, <3>3 DEF Row
        <3>5. milestones \in [Milestones -> Row \cup {NoMilestone}]
            BY <1>2 DEF RemindersTypeOK
        <3>6. milestones' = [milestones EXCEPT ![i] = row]
            BY <3>1, <3>2, <3>5
        <3>7. /\ milestones' \in [Milestones -> Row \cup {NoMilestone}]
              /\ milestones'[i] = row
              /\ \A k \in Milestones : k # i => milestones'[k] = milestones[k]
            BY <3>4, <3>5, <3>6
        <3>8. \A k \in Present' : k \in Present /\ milestones'[k].is = milestones[k].is
            BY <3>3, <3>4, <3>7 DEF Present
        <3> QED
            BY <1>2, <2>2, <3>7, <3>8 DEF PatchMilestone, RemindersTypeOK
    <2>3. ASSUME NEW i \in Milestones, DeleteMilestone(i)
          PROVE  <1>3
        <3>1. milestones' = [milestones EXCEPT ![i] = NoMilestone] /\ today' = today
            BY <2>3 DEF DeleteMilestone
        <3>2. milestones \in [Milestones -> Row \cup {NoMilestone}] /\ today \in Nat
            BY <1>2 DEF RemindersTypeOK
        <3>3. /\ milestones' \in [Milestones -> Row \cup {NoMilestone}]
              /\ milestones'[i] = NoMilestone
              /\ \A k \in Milestones : k # i => milestones'[k] = milestones[k]
            BY <3>1, <3>2
        <3> QED
            BY <3>1, <3>2, <3>3 DEF Present
    <2> QED
        BY <2>1, <2>2, <2>3
<1>4. RemindersTypeOK'
    BY <1>1, <1>2, <1>3 DEF RemindersTypeOK, JobsOK
<1>5. \A i, m \in Milestones : Seen(i, m)' => Seen(i, m)
    BY <1>1, <1>3, SeenLess
<1>6. \A j \in Jobs : job'[j].step = job[j].step /\ First(j)' = First(j)
    BY <1>1, SameFirst
<1>7. IdsKept' /\ TriedOnce' /\ JobsKnown'
    BY <1>1, <1>5, <1>6, QuietStep
<1>8. RecordedTried' /\ OverlookedReused'
    BY <1>1, <1>5, RecordedQuiet DEF RemindersInv, OverlookedReused
<1> QED
    BY <1>4, <1>7, <1>8 DEF RemindersInv

\* A job takes its copy, passes over a milestone, or dies.
LEMMA JobStep ==
    ASSUME RemindersInv, NEW j \in Jobs,
           \/ ListMilestonesDueSoon(j) \/ CheckFails(j) \/ JobDies(j)
           \/ CheckReminder(j) /\ WasMilestoneReminderSent(First(j))
    PROVE  RemindersInv'
<1>1. /\ created' = created /\ holders' = holders /\ tries' = tries
      /\ recorded' = recorded /\ milestones' = milestones /\ today' = today
      /\ repeatable \subseteq repeatable'
    BY DEF ListMilestonesDueSoon, CheckFails, JobDies, CheckReminder
<1>2. RemindersTypeOK /\ JobsOK
    BY DEF RemindersInv, RemindersTypeOK
<1>3. /\ JobsOK'
      /\ job'[j].step \notin {"publish", "record"}
      /\ \A k \in Jobs : k # j => job'[k] = job[k]
      /\ \A c \in job'[j].todo : c \in job[j].todo \/ (c.id \in Present /\ c.is = milestones[c.id].is)
    <2>1. CASE ListMilestonesDueSoon(j)
        <3>1. PICK todo : todo = {[id |-> i, is |-> milestones[i].is, due |-> milestones[i].due] : i \in DueSoon}
            OBVIOUS
        <3>2. todo \in SUBSET Copy
            BY <1>2, <3>1, CopyOfRow DEF DueSoon
        <3>3. Goes(j, "check", todo)
            BY <2>1, <3>1 DEF ListMilestonesDueSoon
        <3>4. /\ JobsOK' /\ job'[j].todo = todo /\ job'[j].step \in {"asleep", "check"}
              /\ \A k \in Jobs : k # j => job'[k] = job[k]
            BY <1>2, <3>2, <3>3, GoesOn
        <3>5. \A c \in todo : c.id \in Present /\ c.is = milestones[c.id].is
            BY <3>1 DEF DueSoon
        <3> QED
            BY <3>4, <3>5
    <2>2. CASE Goes(j, "check", Rest(j))
        <3>1. Rest(j) \in SUBSET Copy /\ Rest(j) \subseteq job[j].todo
            BY <1>2, RestPart
        <3>2. /\ JobsOK' /\ job'[j].todo = Rest(j) /\ job'[j].step \in {"asleep", "check"}
              /\ \A k \in Jobs : k # j => job'[k] = job[k]
            BY <1>2, <2>2, <3>1, GoesOn
        <3> QED
            BY <3>1, <3>2
    <2>3. CASE JobDies(j)
        <3>1. /\ job' = [job EXCEPT ![j] = Asleep] /\ job \in [Jobs -> Work]
              /\ Asleep \in Work /\ Asleep.todo = {} /\ Asleep.step = "asleep"
            BY <1>2, <2>3 DEF JobDies, JobsOK, Asleep, Work
        <3>2. /\ job' \in [Jobs -> Work] /\ job'[j] = Asleep
              /\ \A k \in Jobs : k # j => job'[k] = job[k]
            BY <3>1
        <3>3. JobsOK'
            BY <1>2, <3>1, <3>2 DEF JobsOK
        <3> QED
            BY <3>1, <3>2, <3>3
    <2> QED
        BY <2>1, <2>2, <2>3 DEF CheckFails, CheckReminder
<1>4. \A i, m \in Milestones : Seen(i, m)' => Seen(i, m)
    <2> SUFFICES ASSUME NEW i \in Milestones, NEW m \in Milestones, Seen(i, m)' PROVE Seen(i, m)
        OBVIOUS
    <2>1. CASE i \in Present' /\ milestones'[i].is = m
        BY <1>1, <2>1 DEF Seen, Present
    <2>2. ASSUME NEW k \in Jobs, NEW c \in job'[k].todo, c.id = i, c.is = m
          PROVE  Seen(i, m)
        BY <1>3, <2>2 DEF Seen
    <2> QED
        BY <2>1, <2>2 DEF Seen
<1>5. ASSUME job[j].step = "record"
      PROVE  Marked(First(j)) \in repeatable'
    BY <1>5 DEF ListMilestonesDueSoon, CheckFails, JobDies, CheckReminder, Asleep
<1>6. \A k \in Jobs : k # j => job'[k].step = job[k].step /\ First(k)' = First(k)
    BY <1>3, SameFirst
<1>7. IdsKept' /\ TriedOnce' /\ JobsKnown'
    BY <1>1, <1>3, <1>4, <1>5, <1>6, QuietStep
<1>8. RecordedTried'
    BY <1>1, <1>4, RecordedQuiet DEF RemindersInv
<1>9. ASSUME overlooked' # overlooked
      PROVE  /\ overlooked' = overlooked \cup {First(j)}
             /\ First(j) \in Copy /\ holders[First(j).id] > 1
    <2>1. /\ overlooked' = overlooked \cup {First(j)} /\ job[j].step = "check"
          /\ tries[First(j).is][First(j).due] = 0
          /\ WasMilestoneReminderSent(First(j))
        BY <1>9 DEF ListMilestonesDueSoon, CheckFails, JobDies, CheckReminder
    <2>2. /\ First(j) \in Copy /\ First(j).id \in Milestones /\ First(j).is \in Milestones
          /\ First(j).due \in MilestoneDays /\ Seen(First(j).id, First(j).is)
        BY <1>2, <2>1, AtWork
    <2>3. <<First(j).id, First(j).due>> \in recorded
        BY <2>1 DEF WasMilestoneReminderSent, MilestoneReminderKey
    <2> QED
        BY <2>1, <2>2, <2>3 DEF RemindersInv, RecordedTried
<1>10. OverlookedReused'
    BY <1>1, <1>9 DEF RemindersInv, OverlookedReused
<1>11. repeatable' \in SUBSET (Milestones \X MilestoneDays)
    <2>1. CASE repeatable' = repeatable
        BY <1>2, <2>1 DEF RemindersTypeOK
    <2>2. CASE repeatable' = repeatable \cup {Marked(First(j))} /\ job[j].step = "record"
        <3>1. First(j).is \in Milestones /\ First(j).due \in MilestoneDays
            BY <1>2, <2>2, AtWork
        <3> QED
            BY <1>2, <2>2, <3>1 DEF RemindersTypeOK, Marked
    <2> QED
        BY <2>1, <2>2 DEF ListMilestonesDueSoon, CheckFails, JobDies, CheckReminder
<1>12. RemindersTypeOK'
    <2>1. overlooked' \in SUBSET Copy
        BY <1>2, <1>9 DEF RemindersTypeOK
    <2> QED
        BY <1>1, <1>2, <1>3, <1>11, <2>1 DEF RemindersTypeOK
<1> QED
    BY <1>7, <1>8, <1>10, <1>12 DEF RemindersInv

\* A reminder is recorded, or the record fails.
LEMMA MarkStep ==
    ASSUME RemindersInv, NEW j \in Jobs, MarkMilestoneReminderSent(j)
    PROVE  RemindersInv'
<1> DEFINE m == First(j)
<1>1. /\ created' = created /\ holders' = holders /\ tries' = tries
      /\ milestones' = milestones /\ today' = today /\ overlooked' = overlooked
      /\ job[j].step = "record" /\ Goes(j, "check", Rest(j))
      /\ \/ recorded' = recorded \cup {MilestoneReminderKey(m)} /\ repeatable' = repeatable
         \/ repeatable' = repeatable \cup {Marked(m)} /\ recorded' = recorded
    BY DEF MarkMilestoneReminderSent
<1>2. RemindersTypeOK /\ JobsOK /\ IdsKept /\ JobsKnown /\ RecordedTried
    BY DEF RemindersInv, RemindersTypeOK
<1>3. /\ m.id \in Milestones /\ m.is \in Milestones /\ m.due \in MilestoneDays
      /\ Seen(m.id, m.is) /\ tries[m.is][m.due] > 0 /\ holders[m.id] > 0
    BY <1>1, <1>2, AtWork DEF JobsKnown, IdsKept
<1>4. /\ JobsOK' /\ job'[j].todo \subseteq job[j].todo
      /\ job'[j].step \in {"asleep", "check"}
      /\ \A k \in Jobs : k # j => job'[k] = job[k]
    <2>1. Rest(j) \in SUBSET Copy /\ Rest(j) \subseteq job[j].todo
        BY <1>2, RestPart
    <2> QED
        BY <1>1, <1>2, <2>1, GoesOn
<1>5. \A i, n \in Milestones : Seen(i, n)' => Seen(i, n)
    <2>1. \A i \in Present' : i \in Present /\ milestones'[i].is = milestones[i].is
        BY <1>1 DEF Present
    <2>2. \A k \in Jobs : job'[k].todo \subseteq job[k].todo
        BY <1>4
    <2> QED
        BY <2>1, <2>2, SeenLess
<1>6. \A k \in Jobs : k # j => job'[k].step = job[k].step /\ First(k)' = First(k)
    BY <1>4, SameFirst
<1>7. IdsKept' /\ TriedOnce' /\ JobsKnown'
    <2>1. recorded \subseteq recorded' /\ repeatable \subseteq repeatable'
        BY <1>1
    <2>2. Marked(First(j)) \in repeatable' \/ MilestoneReminderKey(First(j)) \in recorded'
        BY <1>1
    <2> QED
        BY <1>1, <1>4, <1>5, <1>6, <2>1, <2>2, QuietStep
<1>8. RecordedTried'
    <2> SUFFICES ASSUME NEW i \in Milestones, NEW d \in MilestoneDays, <<i, d>> \in recorded'
                 PROVE  /\ holders[i] > 0
                        /\ \A n \in Milestones : Seen(i, n)' /\ tries[n][d] = 0 => holders[i] > 1
        BY <1>1 DEF RecordedTried
    <2>1. CASE <<i, d>> \in recorded
        BY <1>2, <1>5, <2>1 DEF RecordedTried
    <2>2. CASE <<i, d>> = MilestoneReminderKey(m)
        <3>1. i = m.id /\ d = m.due
            BY <2>2 DEF MilestoneReminderKey
        <3>2. ASSUME NEW n \in Milestones, Seen(i, n)', tries[n][d] = 0
              PROVE  holders[i] > 1
            <4>1. Seen(i, n) /\ n # m.is
                BY <1>3, <1>5, <3>1, <3>2
            <4> QED
                BY <1>2, <1>3, <3>1, <4>1 DEF IdsKept
        <3> QED
            BY <1>3, <3>1, <3>2
    <2> QED
        BY <1>1, <2>1, <2>2
<1>9. RemindersTypeOK'
    <2>1. MilestoneReminderKey(m) \in Milestones \X MilestoneDays
        BY <1>3 DEF MilestoneReminderKey
    <2>2. Marked(m) \in Milestones \X MilestoneDays
        BY <1>3 DEF Marked
    <2> QED
        BY <1>1, <1>2, <1>4, <2>1, <2>2 DEF RemindersTypeOK
<1>10. OverlookedReused'
    BY <1>1 DEF RemindersInv, OverlookedReused
<1> QED
    BY <1>7, <1>8, <1>9, <1>10 DEF RemindersInv

\* A job finds no reminder and turns to publish: another at this milestone is known.
LEMMA CheckStep ==
    ASSUME RemindersInv, NEW j \in Jobs,
           CheckReminder(j), ~WasMilestoneReminderSent(First(j))
    PROVE  RemindersInv'
<1> DEFINE n == First(j)
<1>1. /\ created' = created /\ holders' = holders /\ tries' = tries /\ recorded' = recorded
      /\ milestones' = milestones /\ today' = today /\ overlooked' = overlooked
      /\ job[j].step = "check" /\ Goes(j, "publish", job[j].todo)
      /\ repeatable' = IF Duplicated(j, n) THEN repeatable \cup {Marked(n)} ELSE repeatable
    BY DEF CheckReminder
<1>2. RemindersTypeOK /\ JobsOK /\ IdsKept /\ JobsKnown /\ RecordedTried /\ TriedOnce
    BY DEF RemindersInv, RemindersTypeOK
<1>3. /\ n.id \in Milestones /\ n.is \in Milestones /\ n.due \in MilestoneDays
      /\ Seen(n.id, n.is) /\ job[j].todo # {}
      /\ <<n.id, n.due>> \notin recorded
    BY <1>1, <1>2, AtWork DEF WasMilestoneReminderSent, MilestoneReminderKey
<1>4. /\ JobsOK' /\ job'[j].todo = job[j].todo /\ job'[j].step = "publish"
      /\ \A k \in Jobs : k # j => job'[k] = job[k]
    <2>1. job[j].todo \in SUBSET Copy
        BY <1>2, RestPart
    <2> QED
        BY <1>1, <1>2, <1>3, <2>1, GoesOn
<1>5. \A i, m \in Milestones : Seen(i, m)' <=> Seen(i, m)
    BY <1>1, <1>4 DEF Seen, Present
<1>6. \A k \in Jobs : First(k)' = First(k) /\ (k # j => job'[k].step = job[k].step)
    BY <1>4, SameFirst
<1>7. repeatable \subseteq repeatable'
    BY <1>1
<1>8. ASSUME NEW k \in Jobs, k # j, First(k) = n, job[k].step \in {"publish", "record"}
      PROVE  Marked(n) \in repeatable'
    BY <1>1, <1>8 DEF Duplicated
<1>9. IdsKept'
    BY <1>1, <1>2, <1>5 DEF IdsKept
<1>10. JobsKnown'
    <2>1. ASSUME NEW i \in Jobs, job'[i].step = "record"
          PROVE  tries'[First(i)'.is][First(i)'.due] > 0
        BY <1>1, <1>2, <1>4, <1>6, <2>1 DEF JobsKnown
    <2>2. ASSUME NEW i \in Jobs, NEW k \in Jobs, i # k, First(i)' = First(k)',
                 job'[i].step \in {"publish", "record"}, job'[k].step \in {"publish", "record"}
          PROVE  Marked(First(i)') \in repeatable'
        <3>1. First(i) = First(k) /\ First(i)' = First(i)
            BY <1>6, <2>2
        <3>2. CASE i = j
            BY <1>6, <1>8, <2>2, <3>1, <3>2
        <3>3. CASE k = j
            BY <1>6, <1>8, <2>2, <3>1, <3>3
        <3>4. CASE i # j /\ k # j
            BY <1>2, <1>6, <1>7, <2>2, <3>1, <3>4 DEF JobsKnown
        <3> QED
            BY <3>2, <3>3, <3>4
    <2> QED
        BY <2>1, <2>2 DEF JobsKnown, Marked
<1>11. TriedOnce'
    <2> SUFFICES ASSUME NEW m \in Milestones, NEW d \in MilestoneDays, tries[m][d] > 0
                 PROVE  /\ m <= created
                        /\ <<m, d>> \notin repeatable' =>
                              /\ tries[m][d] = 1
                              /\ \A k \in Jobs : job'[k].step = "publish" => ~IsAt(k, m, d)'
                              /\ \A i \in Milestones : Seen(i, m)' =>
                                    \/ <<i, d>> \in recorded
                                    \/ \E k \in Jobs : job'[k].step = "record" /\ IsAt(k, m, d)'
        BY <1>1 DEF TriedOnce
    <2>1. m <= created
        BY <1>2 DEF TriedOnce
    <2>2. SUFFICES ASSUME <<m, d>> \notin repeatable'
                   PROVE  /\ tries[m][d] = 1
                          /\ \A k \in Jobs : job'[k].step = "publish" => ~IsAt(k, m, d)'
                          /\ \A i \in Milestones : Seen(i, m)' =>
                                \/ <<i, d>> \in recorded
                                \/ \E k \in Jobs : job'[k].step = "record" /\ IsAt(k, m, d)'
        BY <2>1
    <2>3. /\ tries[m][d] = 1
          /\ \A k \in Jobs : job[k].step = "publish" => ~IsAt(k, m, d)
          /\ \A i \in Milestones : Seen(i, m) =>
                \/ <<i, d>> \in recorded
                \/ \E k \in Jobs : job[k].step = "record" /\ IsAt(k, m, d)
        BY <1>2, <1>7, <2>2 DEF TriedOnce
    <2>4. ASSUME NEW k \in Jobs, job'[k].step = "publish", IsAt(k, m, d)'
          PROVE  FALSE
        <3>1. First(k).is = m /\ First(k).due = d
            BY <1>6, <2>4 DEF IsAt
        <3>2. k = j
            BY <1>6, <2>3, <2>4, <3>1 DEF IsAt
        <3>3. PICK r \in Jobs : job[r].step = "record" /\ First(r).is = m /\ First(r).due = d
            BY <1>3, <2>3, <3>1, <3>2 DEF IsAt
        <3>4. r # j /\ First(r) = n
            BY <1>1, <1>2, <3>1, <3>2, <3>3, SameReminder
        <3>5. Marked(n) = <<m, d>>
            BY <3>1, <3>2 DEF Marked
        <3> QED
            BY <1>8, <2>2, <3>3, <3>4, <3>5
    <2>5. ASSUME NEW i \in Milestones, Seen(i, m)', <<i, d>> \notin recorded
          PROVE  \E k \in Jobs : job'[k].step = "record" /\ IsAt(k, m, d)'
        <3>1. PICK k \in Jobs : job[k].step = "record" /\ IsAt(k, m, d)
            BY <1>5, <2>3, <2>5
        <3> QED
            BY <1>1, <1>6, <3>1 DEF IsAt
    <2> QED
        BY <2>3, <2>4, <2>5
<1>12. RecordedTried' /\ OverlookedReused'
    BY <1>1, <1>5, RecordedQuiet DEF RemindersInv, OverlookedReused
<1>13. RemindersTypeOK'
    <2>1. Marked(n) \in Milestones \X MilestoneDays
        BY <1>3 DEF Marked
    <2> QED
        BY <1>1, <1>2, <1>4, <2>1 DEF RemindersTypeOK
<1> QED
    BY <1>9, <1>10, <1>11, <1>12, <1>13 DEF RemindersInv

\* A milestone is announced: whoever was at it as well is known.
LEMMA PublishStep ==
    ASSUME RemindersInv, NEW j \in Jobs, PublishMilestoneDueSoon(j)
    PROVE  RemindersInv'
<1> DEFINE n == First(j)
<1>1. /\ created' = created /\ holders' = holders /\ recorded' = recorded
      /\ milestones' = milestones /\ today' = today /\ overlooked' = overlooked
      /\ repeatable' = repeatable
      /\ job[j].step = "publish" /\ Goes(j, "record", job[j].todo)
      /\ tries' = [tries EXCEPT ![n.is][n.due] = IF @ < 2 THEN @ + 1 ELSE @]
    BY DEF PublishMilestoneDueSoon
<1>2. RemindersTypeOK /\ JobsOK /\ IdsKept /\ JobsKnown /\ RecordedTried /\ TriedOnce
    BY DEF RemindersInv, RemindersTypeOK
<1>3. /\ n.id \in Milestones /\ n.is \in Milestones /\ n.due \in MilestoneDays
      /\ Seen(n.id, n.is) /\ job[j].todo # {}
    BY <1>1, <1>2, AtWork
<1>4. /\ JobsOK' /\ job'[j].todo = job[j].todo /\ job'[j].step = "record"
      /\ \A k \in Jobs : k # j => job'[k] = job[k]
    <2>1. job[j].todo \in SUBSET Copy
        BY <1>2, RestPart
    <2> QED
        BY <1>1, <1>2, <1>3, <2>1, GoesOn
<1>5. \A i, m \in Milestones : Seen(i, m)' <=> Seen(i, m)
    BY <1>1, <1>4 DEF Seen, Present
<1>6. \A k \in Jobs : First(k)' = First(k) /\ (k # j => job'[k].step = job[k].step)
    BY <1>4, SameFirst
<1>7. /\ tries' \in [Milestones -> [MilestoneDays -> 0 .. 2]]
      /\ tries'[n.is][n.due] > 0
      /\ tries[n.is][n.due] = 0 => tries'[n.is][n.due] = 1
      /\ \A m \in Milestones, d \in MilestoneDays :
            m # n.is \/ d # n.due => tries'[m][d] = tries[m][d]
    <2>1. PICK is \in Milestones, day \in MilestoneDays : is = n.is /\ day = n.due
        BY <1>3
    <2>2. tries \in [Milestones -> [MilestoneDays -> 0 .. 2]]
        BY <1>2 DEF RemindersTypeOK
    <2>3. tries[is] \in [MilestoneDays -> 0 .. 2] /\ tries[is][day] \in 0 .. 2
        BY <2>2
    <2>4. PICK more : more = IF tries[is][day] < 2 THEN tries[is][day] + 1 ELSE tries[is][day]
        OBVIOUS
    <2>5. more \in 1 .. 2 /\ (tries[is][day] = 0 => more = 1)
        BY <2>3, <2>4
    <2>6. PICK line : line = [tries[is] EXCEPT ![day] = more]
        OBVIOUS
    <2>7. /\ line \in [MilestoneDays -> 0 .. 2] /\ line[day] = more
          /\ \A d \in MilestoneDays : d # day => line[d] = tries[is][d]
        BY <2>3, <2>5, <2>6
    <2>8. tries' = [tries EXCEPT ![is] = line]
        BY <1>1, <2>1, <2>4, <2>6
    <2>9. /\ tries' \in [Milestones -> [MilestoneDays -> 0 .. 2]] /\ tries'[is] = line
          /\ \A m \in Milestones : m # is => tries'[m] = tries[m]
        BY <2>2, <2>7, <2>8
    <2> QED
        BY <2>1, <2>5, <2>7, <2>9
<1>8. tries \in [Milestones -> [MilestoneDays -> 0 .. 2]]
    BY <1>2 DEF RemindersTypeOK
<1>9. \A m \in Milestones, d \in MilestoneDays : tries[m][d] > 0 => tries'[m][d] > 0
    BY <1>7
<1>10. IdsKept'
    BY <1>1, <1>2, <1>5 DEF IdsKept
<1>11. JobsKnown'
    <2>1. ASSUME NEW i \in Jobs, job'[i].step = "record"
          PROVE  tries'[First(i)'.is][First(i)'.due] > 0
        <3>1. CASE i = j
            BY <1>6, <1>7, <3>1
        <3>2. CASE i # j
            <4>1. job[i].step = "record" /\ First(i)' = First(i)
                BY <1>6, <2>1, <3>2
            <4>2. First(i).is \in Milestones /\ First(i).due \in MilestoneDays
                BY <1>2, <4>1, AtWork
            <4> QED
                BY <1>2, <1>9, <4>1, <4>2 DEF JobsKnown
        <3> QED
            BY <3>1, <3>2
    <2>2. ASSUME NEW i \in Jobs, NEW k \in Jobs, i # k, First(i)' = First(k)',
                 job'[i].step \in {"publish", "record"}, job'[k].step \in {"publish", "record"}
          PROVE  Marked(First(i)') \in repeatable'
        <3>1. First(i) = First(k) /\ First(i)' = First(i)
            BY <1>6, <2>2
        <3>2. job[i].step \in {"publish", "record"} /\ job[k].step \in {"publish", "record"}
            BY <1>1, <1>6, <2>2
        <3> QED
            BY <1>1, <1>2, <2>2, <3>1, <3>2 DEF JobsKnown
    <2> QED
        BY <2>1, <2>2 DEF JobsKnown, Marked
<1>12. TriedOnce'
    <2> SUFFICES ASSUME NEW m \in Milestones, NEW d \in MilestoneDays, tries'[m][d] > 0
                 PROVE  /\ m <= created
                        /\ <<m, d>> \notin repeatable =>
                              /\ tries'[m][d] = 1
                              /\ \A k \in Jobs : job'[k].step = "publish" => ~IsAt(k, m, d)'
                              /\ \A i \in Milestones : Seen(i, m)' =>
                                    \/ <<i, d>> \in recorded
                                    \/ \E k \in Jobs : job'[k].step = "record" /\ IsAt(k, m, d)'
        BY <1>1 DEF TriedOnce
    <2>1. m <= created
        <3>1. CASE m = n.is
            BY <1>2, <1>3, <3>1 DEF IdsKept
        <3>2. CASE m # n.is
            BY <1>2, <1>7, <3>2 DEF TriedOnce
        <3> QED
            BY <3>1, <3>2
    <2>2. SUFFICES ASSUME <<m, d>> \notin repeatable
                   PROVE  /\ tries'[m][d] = 1
                          /\ \A k \in Jobs : job'[k].step = "publish" => ~IsAt(k, m, d)'
                          /\ \A i \in Milestones : Seen(i, m)' =>
                                \/ <<i, d>> \in recorded
                                \/ \E k \in Jobs : job'[k].step = "record" /\ IsAt(k, m, d)'
        BY <2>1
    <2>3. CASE m = n.is /\ d = n.due
        <3>1. tries[m][d] = 0
            <4>1. tries[m][d] \in 0 .. 2
                BY <1>8
            <4>2. ~(tries[m][d] > 0)
                BY <1>1, <1>2, <2>2, <2>3 DEF TriedOnce, IsAt
            <4> QED
                BY <4>1, <4>2
        <3>2. ASSUME NEW k \in Jobs, job'[k].step = "publish", IsAt(k, m, d)'
              PROVE  FALSE
            <4>1. k # j /\ job[k].step = "publish" /\ First(k).is = m /\ First(k).due = d
                BY <1>4, <1>6, <3>2 DEF IsAt
            <4>2. First(k) = n
                BY <1>1, <1>2, <2>3, <4>1, SameReminder
            <4>3. Marked(n) = <<m, d>> /\ Marked(n) \in repeatable
                BY <1>1, <1>2, <2>3, <4>1, <4>2 DEF JobsKnown, Marked
            <4> QED
                BY <2>2, <4>3
        <3>3. job'[j].step = "record" /\ IsAt(j, m, d)'
            BY <1>4, <1>6, <2>3 DEF IsAt
        <3> QED
            BY <1>7, <2>3, <3>1, <3>2, <3>3
    <2>4. CASE m # n.is \/ d # n.due
        <3>1. tries'[m][d] = tries[m][d]
            BY <1>7, <2>4
        <3>2. /\ tries[m][d] = 1
              /\ \A k \in Jobs : job[k].step = "publish" => ~IsAt(k, m, d)
              /\ \A i \in Milestones : Seen(i, m) =>
                    \/ <<i, d>> \in recorded
                    \/ \E k \in Jobs : job[k].step = "record" /\ IsAt(k, m, d)
            BY <1>2, <2>2, <3>1 DEF TriedOnce
        <3>3. ASSUME NEW k \in Jobs, job'[k].step = "publish"
              PROVE  ~IsAt(k, m, d)'
            BY <1>4, <1>6, <3>2, <3>3 DEF IsAt
        <3>4. ASSUME NEW i \in Milestones, Seen(i, m)', <<i, d>> \notin recorded
              PROVE  \E k \in Jobs : job'[k].step = "record" /\ IsAt(k, m, d)'
            <4>1. PICK k \in Jobs : job[k].step = "record" /\ IsAt(k, m, d)
                BY <1>5, <3>2, <3>4
            <4> QED
                BY <1>4, <1>6, <4>1 DEF IsAt
        <3> QED
            BY <3>1, <3>2, <3>3, <3>4
    <2> QED
        BY <2>3, <2>4
<1>13. RecordedTried'
    <2> SUFFICES ASSUME NEW i \in Milestones, NEW d \in MilestoneDays, <<i, d>> \in recorded
                 PROVE  /\ holders[i] > 0
                        /\ \A m \in Milestones : Seen(i, m)' /\ tries'[m][d] = 0 => holders[i] > 1
        BY <1>1 DEF RecordedTried
    <2>1. ASSUME NEW m \in Milestones, Seen(i, m)', tries'[m][d] = 0
          PROVE  holders[i] > 1
        <3>1. tries[m][d] \in 0 .. 2 /\ ~(tries[m][d] > 0)
            BY <1>8, <1>9, <2>1
        <3> QED
            BY <1>2, <1>5, <2>1, <3>1 DEF RecordedTried
    <2> QED
        BY <1>2, <2>1 DEF RecordedTried
<1>14. RemindersTypeOK' /\ OverlookedReused'
    BY <1>1, <1>2, <1>4, <1>7 DEF RemindersTypeOK, RemindersInv, OverlookedReused
<1> QED
    BY <1>10, <1>11, <1>12, <1>13, <1>14 DEF RemindersInv

\* A milestone is created: nobody knows it yet, and an id it shares is counted.
LEMMA CreateStep ==
    ASSUME RemindersInv, CreateMilestone
    PROVE  RemindersInv'
<1>1. PICK id : id = Cardinality(Present) + 1
    OBVIOUS
<1>2. PICK d0 \in MilestoneDays :
          milestones' = [milestones EXCEPT ![id] = [is |-> created', due |-> d0, complete |-> FALSE]]
    BY <1>1 DEF CreateMilestone
<1>3. /\ created < MaxMilestones /\ id \notin Present /\ created' = created + 1
      /\ holders' = [holders EXCEPT ![id] = @ + 1]
      /\ today' = today /\ recorded' = recorded /\ job' = job /\ tries' = tries
      /\ overlooked' = overlooked /\ repeatable' = repeatable
    BY <1>1 DEF CreateMilestone
<1>4. RemindersTypeOK /\ JobsOK /\ IdsKept /\ JobsKnown /\ RecordedTried /\ TriedOnce
    BY DEF RemindersInv, RemindersTypeOK
<1>5. /\ milestones \in [Milestones -> Row \cup {NoMilestone}]
      /\ holders \in [Milestones -> Nat] /\ created \in 0 .. MaxMilestones
    BY <1>4 DEF RemindersTypeOK
<1>6. MaxMilestones \in Nat
    BY RemindersAssumption
<1>7. created' \in Milestones
    BY <1>3, <1>5, <1>6 DEF Milestones
<1>8. PICK row : row = [is |-> created', due |-> d0, complete |-> FALSE]
    OBVIOUS
<1>9. row \in Row /\ row.is = created'
    BY <1>7, <1>8 DEF Row
<1>10. milestones' = [milestones EXCEPT ![id] = row]
    BY <1>2, <1>8
<1>11. /\ milestones' \in [Milestones -> Row \cup {NoMilestone}]
       /\ id \in Milestones => milestones'[id] = row
       /\ \A i \in Milestones : i # id => milestones'[i] = milestones[i]
    BY <1>5, <1>9, <1>10
<1>12. /\ holders' \in [Milestones -> Nat]
       /\ id \in Milestones => holders'[id] = holders[id] + 1
       /\ \A i \in Milestones : i # id => holders'[i] = holders[i]
    <2>1. PICK more : more = holders[id] + 1
        OBVIOUS
    <2>2. holders' = [holders EXCEPT ![id] = more]
        BY <1>3, <2>1
    <2>3. id \in Milestones => more \in Nat
        BY <1>5, <2>1
    <2> QED
        BY <1>5, <2>1, <2>2, <2>3
<1>13. \A i \in Milestones : /\ holders[i] > 0 => holders'[i] > 0
                             /\ holders[i] > 1 => holders'[i] > 1
                             /\ holders[i] > 0 /\ i = id => holders'[i] > 1
    <2> SUFFICES ASSUME NEW i \in Milestones
                 PROVE  /\ holders[i] > 0 => holders'[i] > 0
                        /\ holders[i] > 1 => holders'[i] > 1
                        /\ holders[i] > 0 /\ i = id => holders'[i] > 1
        OBVIOUS
    <2>1. holders[i] \in Nat /\ (holders'[i] = holders[i] \/ holders'[i] = holders[i] + 1)
        BY <1>5, <1>12
    <2>2. i = id => holders'[i] = holders[i] + 1
        BY <1>12
    <2> QED
        BY <2>1, <2>2
<1>14. \A i, m \in Milestones :
          Seen(i, m)' => Seen(i, m) \/ (i = id /\ m = created')
    BY <1>3, <1>9, <1>11 DEF Seen, Present
<1>15. \A i, m \in Milestones : Seen(i, m) => m < created' /\ m # created' /\ holders[i] > 0
    BY <1>3, <1>4, <1>5, <1>6 DEF IdsKept, Milestones
<1>16. IdsKept'
    <2>1. ASSUME NEW i \in Milestones, NEW m \in Milestones, Seen(i, m)'
          PROVE  m <= created' /\ holders'[i] > 0
        <3>1. CASE Seen(i, m)
            <4>1. m < created' /\ holders[i] > 0
                BY <1>15, <3>1
            <4>2. m \in Nat /\ created' \in Nat
                BY <1>6, <1>7 DEF Milestones
            <4> QED
                BY <1>13, <4>1, <4>2
        <3>2. CASE i = id /\ m = created'
            <4>1. holders'[i] = holders[i] + 1 /\ holders[i] \in Nat /\ created' \in Nat
                BY <1>5, <1>6, <1>7, <1>12, <3>2 DEF Milestones
            <4> QED
                BY <3>2, <4>1
        <3> QED
            BY <1>14, <2>1, <3>1, <3>2
    <2>2. ASSUME NEW i \in Milestones, NEW k \in Milestones, NEW m \in Milestones,
                 Seen(i, m)', Seen(k, m)'
          PROVE  i = k
        BY <1>4, <1>14, <1>15, <2>2 DEF IdsKept
    <2>3. ASSUME NEW i \in Milestones, NEW m \in Milestones, NEW n \in Milestones,
                 Seen(i, m)', Seen(i, n)', m # n
          PROVE  holders'[i] > 1
        <3>1. CASE Seen(i, m) /\ Seen(i, n)
            <4>1. holders[i] > 1
                BY <1>4, <2>3, <3>1 DEF IdsKept
            <4> QED
                BY <1>13, <4>1
        <3>2. CASE i = id /\ holders[i] > 0
            BY <1>13, <3>2
        <3> QED
            BY <1>14, <1>15, <2>3, <3>1, <3>2
    <2> QED
        BY <2>1, <2>2, <2>3 DEF IdsKept
<1>17. \A j \in Jobs : First(j)' = First(j) /\ job'[j].step = job[j].step
    BY <1>3, SameFirst
<1>18. JobsKnown'
    BY <1>3, <1>4, <1>17 DEF JobsKnown, Marked
<1>19. TriedOnce'
    <2> SUFFICES ASSUME NEW m \in Milestones, NEW d \in MilestoneDays, tries[m][d] > 0
                 PROVE  /\ m <= created'
                        /\ <<m, d>> \notin repeatable =>
                              /\ tries[m][d] = 1
                              /\ \A k \in Jobs : job[k].step = "publish" => ~IsAt(k, m, d)
                              /\ \A i \in Milestones : Seen(i, m)' =>
                                    \/ <<i, d>> \in recorded
                                    \/ \E k \in Jobs : job[k].step = "record" /\ IsAt(k, m, d)
        BY <1>3, <1>17 DEF TriedOnce, IsAt
    <2>1. m <= created
        BY <1>4 DEF TriedOnce
    <2>2. m <= created' /\ m # created'
        BY <1>3, <1>5, <1>6, <2>1 DEF Milestones
    <2>3. \A i \in Milestones : Seen(i, m)' => Seen(i, m)
        BY <1>14, <2>2
    <2> QED
        BY <1>4, <2>2, <2>3 DEF TriedOnce
<1>20. RecordedTried'
    <2> SUFFICES ASSUME NEW i \in Milestones, NEW d \in MilestoneDays, <<i, d>> \in recorded
                 PROVE  /\ holders'[i] > 0
                        /\ \A m \in Milestones : Seen(i, m)' /\ tries[m][d] = 0 => holders'[i] > 1
        BY <1>3 DEF RecordedTried
    <2>1. holders[i] > 0
        BY <1>4 DEF RecordedTried
    <2>2. ASSUME NEW m \in Milestones, Seen(i, m)', tries[m][d] = 0
          PROVE  holders'[i] > 1
        <3>1. CASE Seen(i, m)
            <4>1. holders[i] > 1
                BY <1>4, <2>2, <3>1 DEF RecordedTried
            <4> QED
                BY <1>13, <4>1
        <3>2. CASE i = id
            BY <1>13, <2>1, <3>2
        <3> QED
            BY <1>14, <2>2, <3>1, <3>2
    <2> QED
        BY <1>13, <2>1, <2>2
<1>21. OverlookedReused'
    <2> SUFFICES ASSUME NEW c \in overlooked PROVE holders'[c.id] > 1
        BY <1>3 DEF OverlookedReused
    <2>1. c.id \in Milestones /\ holders[c.id] > 1
        BY <1>4 DEF RemindersInv, OverlookedReused, RemindersTypeOK, Copy
    <2> QED
        BY <1>13, <2>1
<1>22. RemindersTypeOK'
    BY <1>3, <1>4, <1>5, <1>6, <1>11, <1>12 DEF RemindersTypeOK, JobsOK
<1> QED
    BY <1>16, <1>18, <1>19, <1>20, <1>21, <1>22 DEF RemindersInv

-----------------------------------------------------------------------------
\* Stuttering changes nothing.
LEMMA RemindersIdle ==
    ASSUME RemindersInv, UNCHANGED reminderVars
    PROVE  RemindersInv'
<1>1. /\ created' = created /\ holders' = holders /\ tries' = tries
      /\ recorded' = recorded /\ milestones' = milestones /\ today' = today
      /\ overlooked' = overlooked /\ repeatable' = repeatable /\ job' = job
    BY DEF reminderVars
<1>2. \A i, m \in Milestones : Seen(i, m)' => Seen(i, m)
    BY <1>1 DEF Seen, Present
<1>3. \A j \in Jobs : job'[j].step = job[j].step /\ First(j)' = First(j)
    BY <1>1, SameFirst
<1>4. IdsKept' /\ TriedOnce' /\ JobsKnown'
    BY <1>1, <1>2, <1>3, QuietStep
<1>5. RecordedTried' /\ OverlookedReused'
    BY <1>1, <1>2, RecordedQuiet DEF RemindersInv, OverlookedReused
<1>6. RemindersTypeOK'
    BY <1>1 DEF RemindersInv, RemindersTypeOK, JobsOK
<1> QED
    BY <1>4, <1>5, <1>6 DEF RemindersInv

\* The inductive invariant of the reminders.
THEOREM RemindersHeld == RemindersSpec => []RemindersInv
<1>1. RemindersInit => RemindersInv
    <2> SUFFICES ASSUME RemindersInit PROVE RemindersInv
        OBVIOUS
    <2>1. /\ Present = {}
          /\ \A j \in Jobs : job[j].step = "asleep" /\ job[j].todo = {}
          /\ \A m \in Milestones, d \in MilestoneDays : tries[m][d] = 0
          /\ recorded = {} /\ overlooked = {}
        BY DEF RemindersInit, Present, Asleep
    <2>2. IdsKept /\ TriedOnce /\ JobsKnown /\ RecordedTried /\ OverlookedReused
        BY <2>1 DEF IdsKept, TriedOnce, JobsKnown, RecordedTried, OverlookedReused, Seen
    <2>3. JobsOK
        <3>1. Asleep \in Work
            BY DEF Asleep, Work
        <3> QED
            BY <2>1, <3>1 DEF RemindersInit, JobsOK
    <2>4. RemindersTypeOK
        BY <2>3, RemindersAssumption DEF RemindersTypeOK, RemindersInit
    <2> QED
        BY <2>2, <2>4 DEF RemindersInv
<1>2. RemindersInv /\ [RemindersNext]_reminderVars => RemindersInv'
    BY TableStep, JobStep, MarkStep, CheckStep, PublishStep, CreateStep, RemindersIdle
    DEF RemindersNext
<1> QED
    BY <1>1, <1>2, PTL DEF RemindersSpec

\* A milestone is announced once for a date unless jobs overlapped on it or one died or
\* failed to record, and passed over unannounced only when its id was used twice.
THEOREM RemindedKept == RemindersSpec => []RemindedOnce
<1>1. RemindersInv => RemindedOnce
    <2> SUFFICES ASSUME RemindersInv PROVE RemindedOnce
        OBVIOUS
    <2>1. ASSUME NEW m \in Milestones, NEW d \in MilestoneDays, tries[m][d] > 1
          PROVE  <<m, d>> \in repeatable
        <3>1. tries[m][d] \in 0 .. 2
            BY DEF RemindersInv, RemindersTypeOK
        <3> QED
            BY <2>1, <3>1 DEF RemindersInv, TriedOnce
    <2> QED
        BY <2>1 DEF RemindersInv, OverlookedReused, RemindedOnce
<1> QED
    BY <1>1, RemindersHeld, PTL
=============================================================================
