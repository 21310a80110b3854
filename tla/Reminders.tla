------------------------------ MODULE Reminders ------------------------------
(***************************************************************************)
(* Reminders of milestones that are due soon: a job, started by hand or by *)
(* a scheduler outside the program, so that two may run at one time        *)
(* (internal/jobs/milestones.go, internal/persistence/milestones.go).      *)
(*                                                                         *)
(* The job lists the milestones of the window with one statement and works *)
(* through the copy.  Of each it asks whether a reminder is recorded under *)
(* the id and the due date, publishes, and records it.  A publication is   *)
(* written to Kafka directly and its error only logged.  Ids of milestones *)
(* are used again: a new one gets the number of milestones plus one.       *)
(***************************************************************************)
EXTENDS Naturals, FiniteSets

CONSTANTS
    Jobs,            \* processes of the job
    MilestoneDays,   \* dates milestones may be due, days as numbers
    LastDay,         \* bound on time
    WithinDays,      \* MILESTONE_REMINDER_DAYS
    MaxMilestones,   \* bound on the milestones ever created
    NoMilestone      \* no such row

ASSUME RemindersAssumption ==
    /\ MilestoneDays \subseteq Nat
    /\ {LastDay, WithinDays, MaxMilestones} \subseteq Nat

VARIABLES
    today,        \* CURRENT_DATE
    milestones,   \* table milestones, by id; which of all ever created each is
    created,      \* milestones created so far
    holders,      \* how many milestones have had each id
    recorded,     \* reminders in app_meta, by id and due date
    job,          \* what each process has still to do
    tries,        \* how often each milestone was announced for each date
    overlooked,   \* what a job found recorded that was never announced
    repeatable    \* where jobs overlapped, or one died or failed to record

reminderVars ==
    <<today, milestones, created, holders, recorded, job, tries, overlooked, repeatable>>

Milestones == 1 .. MaxMilestones   \* by order of creation, and the ids they may have

Asleep == [step |-> "asleep", todo |-> {}]

RemindersInit ==
    /\ today = 0
    /\ milestones = [i \in Milestones |-> NoMilestone]
    /\ created = 0
    /\ holders = [i \in Milestones |-> 0]
    /\ recorded = {}
    /\ job = [j \in Jobs |-> Asleep]
    /\ tries = [m \in Milestones |-> [d \in MilestoneDays |-> 0]]
    /\ overlooked = {} /\ repeatable = {}

-----------------------------------------------------------------------------
(* The milestones.                                                          *)

Present == {i \in Milestones : milestones[i] # NoMilestone}

NextDay ==
    /\ today < LastDay
    /\ today' = today + 1
    /\ UNCHANGED <<milestones, created, holders, recorded, job, tries, overlooked, repeatable>>

\* Store.CreateMilestone: the id may be taken, which is an error.
CreateMilestone ==
    LET id == Cardinality(Present) + 1 IN
    /\ created < MaxMilestones
    /\ id \notin Present
    /\ created' = created + 1
    /\ holders' = [holders EXCEPT ![id] = @ + 1]
    /\ \E d \in MilestoneDays :
          milestones' = [milestones EXCEPT ![id] = [is |-> created', due |-> d, complete |-> FALSE]]
    /\ UNCHANGED <<today, recorded, job, tries, overlooked, repeatable>>

PatchMilestone(i) ==
    /\ i \in Present
    /\ \E d \in MilestoneDays, complete \in BOOLEAN :
          milestones' = [milestones EXCEPT ![i].due = d, ![i].complete = complete]
    /\ UNCHANGED <<today, created, holders, recorded, job, tries, overlooked, repeatable>>

DeleteMilestone(i) ==
    /\ i \in Present
    /\ milestones' = [milestones EXCEPT ![i] = NoMilestone]
    /\ UNCHANGED <<today, created, holders, recorded, job, tries, overlooked, repeatable>>

-----------------------------------------------------------------------------
(* The job.                                                                 *)

Goes(j, step, todo) ==
    job' = [job EXCEPT ![j] = IF todo = {} THEN Asleep ELSE [step |-> step, todo |-> todo]]

DueSoon == {i \in Present : /\ ~milestones[i].complete
                            /\ milestones[i].due \in today .. today + WithinDays}

ListMilestonesDueSoon(j) ==
    /\ job[j] = Asleep
    /\ Goes(j, "check", {[id |-> i, is |-> milestones[i].is, due |-> milestones[i].due] : i \in DueSoon})
    /\ UNCHANGED <<today, milestones, created, holders, recorded, tries, overlooked, repeatable>>

\* ORDER BY due_date, id.
First(j) == CHOOSE m \in job[j].todo : \A n \in job[j].todo :
                m.due < n.due \/ (m.due = n.due /\ m.id <= n.id)

Rest(j) == job[j].todo \ {First(j)}

\* Fault: the key is the id alone.
MilestoneReminderKeyNoDate(m) == m.id

MilestoneReminderKey(m) == <<m.id, m.due>>

WasMilestoneReminderSent(m) == MilestoneReminderKey(m) \in recorded

\* Another job is between its check of a milestone and its record.
Duplicated(j, m) ==
    \E k \in Jobs \ {j} : job[k].step \in {"publish", "record"} /\ First(k) = m

Marked(m) == <<m.is, m.due>>

CheckReminder(j) ==
    LET m == First(j) IN
    /\ job[j].step = "check"
    /\ IF WasMilestoneReminderSent(m)
       THEN /\ overlooked' = IF tries[m.is][m.due] = 0 THEN overlooked \cup {m} ELSE overlooked
            /\ Goes(j, "check", Rest(j))
            /\ UNCHANGED repeatable
       ELSE /\ Goes(j, "publish", job[j].todo)
            /\ repeatable' = IF Duplicated(j, m) THEN repeatable \cup {Marked(m)} ELSE repeatable
            /\ UNCHANGED overlooked
    /\ UNCHANGED <<today, milestones, created, holders, recorded, tries>>

\* The check fails and the milestone is left for another run.
CheckFails(j) ==
    /\ job[j].step = "check"
    /\ Goes(j, "check", Rest(j))
    /\ UNCHANGED <<today, milestones, created, holders, recorded, tries, overlooked, repeatable>>

\* PublishMilestoneDueSoon, whether the broker takes it or not.
PublishMilestoneDueSoon(j) ==
    LET m == First(j) IN
    /\ job[j].step = "publish"
    /\ tries' = [tries EXCEPT ![m.is][m.due] = IF @ < 2 THEN @ + 1 ELSE @]
    /\ Goes(j, "record", job[j].todo)
    /\ UNCHANGED <<today, milestones, created, holders, recorded, overlooked, repeatable>>

\* ON CONFLICT DO NOTHING; a failure is logged.
MarkMilestoneReminderSent(j) ==
    LET m == First(j) IN
    /\ job[j].step = "record"
    /\ \/ recorded' = recorded \cup {MilestoneReminderKey(m)} /\ UNCHANGED repeatable
       \/ repeatable' = repeatable \cup {Marked(m)} /\ UNCHANGED recorded
    /\ Goes(j, "check", Rest(j))
    /\ UNCHANGED <<today, milestones, created, holders, tries, overlooked>>

\* The process dies, or its five minutes are over.
JobDies(j) ==
    /\ job[j] # Asleep
    /\ repeatable' = IF job[j].step = "record" THEN repeatable \cup {Marked(First(j))} ELSE repeatable
    /\ job' = [job EXCEPT ![j] = Asleep]
    /\ UNCHANGED <<today, milestones, created, holders, recorded, tries, overlooked>>

RemindersNext ==
    \/ NextDay \/ CreateMilestone
    \/ \E i \in Milestones : PatchMilestone(i) \/ DeleteMilestone(i)
    \/ \E j \in Jobs :
          \/ ListMilestonesDueSoon(j) \/ CheckReminder(j) \/ CheckFails(j)
          \/ PublishMilestoneDueSoon(j) \/ MarkMilestoneReminderSent(j) \/ JobDies(j)

RemindersSpec == RemindersInit /\ [][RemindersNext]_reminderVars

-----------------------------------------------------------------------------
\* A milestone is announced at most once for a due date, however often the job is
\* started, unless two jobs overlapped on it or one died or failed to record what it
\* had announced; and a job that finds a reminder recorded passes over a milestone
\* that was announced for this very date, unless two milestones have had its id.
RemindedOnce ==
    /\ \A m \in Milestones, d \in MilestoneDays : tries[m][d] > 1 => <<m, d>> \in repeatable
    /\ \A m \in overlooked : holders[m.id] > 1

(* What the code does not keep.                                             *)

\* "publishes due-soon events for milestones within the configured window": what a
\* job passes over has been announced.  A milestone created under the id of a deleted
\* one and due on the same day is never announced.
EveryMilestoneReminded == overlooked = {}
=============================================================================
