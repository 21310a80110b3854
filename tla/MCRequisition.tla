--------------------------- MODULE MCRequisition ----------------------------
(***************************************************************************)
(* RequisitionWorkflow and GovRegisters on small instances.  As they are   *)
(* modelled they share no state, so a behaviour is of one part, chosen at  *)
(* the start.  Users change either numbers or the values of contracts.     *)
(***************************************************************************)
EXTENDS RequisitionWorkflow, GovRegisters, TLC

VARIABLE focus

mcVars == <<vars, regVars, focus>>

MCInit ==
    /\ Init /\ RegInit
    /\ focus \in {"numbers", "values", "budgets", "obligations", "closeouts", "rules"}

MCNext ==
    /\ UNCHANGED focus
    /\ \/ focus = "numbers" /\ Next /\ UNCHANGED <<revalued, regVars>>
       \/ focus = "values" /\ Next /\ UNCHANGED <<renamed, regVars>>
       \/ focus = "budgets" /\ BudgetNext /\ UNCHANGED vars
       \/ focus = "obligations" /\ ObligationNext /\ UNCHANGED vars
       \/ focus = "closeouts" /\ CloseoutNext /\ UNCHANGED vars
       \/ focus = "rules" /\ RuleNext /\ UNCHANGED vars

MCSpec == MCInit /\ [][MCNext]_mcVars

People == {"Amina", "Brian"}
PeopleAndMachine == People \cup {"system"}
MCFold == [n \in PeopleAndMachine |-> n]

Symmetries == Permutations(Handlers) \cup Permutations(Contracts) \cup Permutations(Editors)

MCEstimates == {3, 4}
=============================================================================
