----------------------------- MODULE MCContract -----------------------------
(***************************************************************************)
(* ContractLifecycle and MonthlyReport on small instances.  The two share  *)
(* no table as they are modelled, so a behaviour is of one or the other,   *)
(* chosen at the start: the contract ("contract"); two imports and one     *)
(* edit ("race"); one import and two edits ("edits"); one import whose     *)
(* statements may fail and one edit ("failures").                          *)
(***************************************************************************)
EXTENDS ContractLifecycle, MonthlyReport, TLC

VARIABLE focus

mcVars == <<vars, monthVars, focus>>

OneEdit == edits' <= 1 /\ \A k \in Clerks : edits' = 1 => clerk'[k] = FreeClerk
Alone == Cardinality(Active) = 0 \/ Active' \subseteq Active

MCInit ==
    /\ Init /\ MonthInit
    /\ focus \in {"contract", "race", "edits", "failures"}

MCNext ==
    /\ UNCHANGED focus
    /\ \/ focus = "contract" /\ Next /\ UNCHANGED monthVars
       \/ focus = "race" /\ MonthSteps /\ OneEdit /\ UNCHANGED vars
       \/ focus = "edits" /\ MonthSteps /\ Alone /\ UNCHANGED vars
       \/ focus = "failures" /\ MonthNext /\ Alone /\ OneEdit /\ UNCHANGED vars

MCSpec == MCInit /\ [][MCNext]_mcVars

MCTracker == <<[number |-> "N1", name |-> "acme", text |-> "done"]>>
MCVerified == <<"acme">>
MCConsultancy == <<[number |-> "N2", name |-> "", progress |-> 40]>>

Symmetries == Permutations(Handlers) \cup Permutations(Importers)
=============================================================================
