---------------------------- MODULE MCVariation -----------------------------
(***************************************************************************)
(* VariationWorkflow on small instances.                                   *)
(***************************************************************************)
EXTENDS VariationWorkflow, TLC

TwoPeople == {"Amina", "Brian"}
MachineOnly == {"system"}
SomePeople == TwoPeople \cup MachineOnly
MCNames == TwoPeople \cup {"amina "} \cup MachineOnly
MCFold == [n \in MCNames |->
              CASE n \in {"Amina", "amina "} -> "amina"
                [] n = "Brian" -> "brian"
                [] n = "system" -> "system"]

OneContract == {"C1"}
OnOne == [v \in Variations |-> "C1"]
HandlerSymmetry == Permutations(Handlers)

PlusAndMinus == {-2, 5}
PlusOnly == {5}
StartValue == {10}
=============================================================================
