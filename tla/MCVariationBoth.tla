-------------------------- MODULE MCVariationBoth --------------------------
(***************************************************************************)
(* Two instances of VariationWorkflow in one run, one chosen at the start: *)
(* people whose requests on one variation overlap and die ("race"), and    *)
(* two variations of one contract, signed by a machine, while users edit   *)
(* the contract, where requests on one row are kept apart ("ledger").      *)
(***************************************************************************)
EXTENDS MCVariation

VARIABLE mode

Both == {"V1", "V2"}

Ledger == INSTANCE VariationWorkflow WITH
    Names <- MachineOnly, Amounts <- PlusAndMinus, Edits <- TRUE, Faults <- FALSE,
    Serialized <- TRUE, MaxValue <- 100

BothInit == Init /\ mode \in {"race", "ledger"}

BothNext ==
    /\ UNCHANGED mode
    /\ \/ mode = "race" /\ Next /\ variation'["V2"] = NoRow
       \/ mode = "ledger" /\ Ledger!Next

BothSpec == BothInit /\ [][BothNext]_<<vars, mode>>

\* ValueAccounts where no two requests on one variation overlap, no edit of the
\* contract overlaps an approval and no statement fails: two variations approved
\* at the same time are both in the value, each once.
ValueAccountsSerially == mode = "ledger" => ValueAccounts
=============================================================================
