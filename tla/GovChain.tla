------------------------------ MODULE GovChain ------------------------------
(***************************************************************************)
(* The four-desk approval chain that payments, variations and requisitions *)
(* of the governance module share (internal/models/governance_chains.go).  *)
(* A stored workflow is a stage cursor and one step per desk.  Each call   *)
(* rebuilds the engine's state from the steps below the cursor, asks the   *)
(* engine to advance, and writes the step back, so what the engine decides *)
(* is a function of the cursor, the steps and the name of the actor.       *)
(*                                                                         *)
(* All three chains have four desks that accept any role and set           *)
(* NoSuccessiveApprover, the only rule of the engine that can refuse here. *)
(***************************************************************************)
EXTENDS Integers

CONSTANTS
    Names,   \* the spellings an actor name can arrive in
    Fold,    \* Fold[n]: n trimmed and case folded; "system" is the machine
    Blank    \* the step of a desk nobody has cleared

ASSUME NamesAssumption == Blank \notin Names

Desks == 0 .. 3
Complete == 4
Stages == 0 .. Complete

\* What the step record of a desk may hold.
Signer == Names \cup {Blank}

\* sameActor: never true of a blank name.
SameActor(a, b) ==
    /\ a # Blank
    /\ b # Blank
    /\ Fold[a] = Fold[b]

\* isSystemActor: automated and unattributed steps are exempt from separation.
IsSystemActor(a) == a = Blank \/ Fold[a] = "system"

\* Fault: the steps no desk has cleared yet are kept at the end of the history,
\* so reading backwards finds a blank every time.
PreviousApproverTrailing(steps, stage) == IF stage = 0 THEN Blank ELSE steps[3]

\* previousApprover, read off the completed steps only: blank when the desk
\* before the cursor was cleared by a machine, so that it bars nobody.
PreviousApprover(steps, stage) ==
    IF stage = 0 \/ IsSystemActor(steps[stage - 1])
    THEN Blank
    ELSE steps[stage - 1]

\* The engine answers ErrSelfSuccession.
SelfSuccession(steps, stage, by) == SameActor(by, PreviousApprover(steps, stage))

\* The engine accepts by at the desk the cursor points at.
MayClear(steps, stage, by) == stage < Complete /\ ~SelfSuccession(steps, stage, by)

-----------------------------------------------------------------------------
\* No two successive completed desks were cleared by one person.
FourEyes(steps, stage) ==
    \A d \in 1 .. (stage - 1) :
        IsSystemActor(steps[d - 1]) \/ ~SameActor(steps[d], steps[d - 1])

\* Exactly the desks below the cursor carry a signature.
SignedBelow(steps, stage) ==
    \A d \in Desks : (d < stage) <=> (steps[d] # Blank)

=============================================================================
