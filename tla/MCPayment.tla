----------------------------- MODULE MCPayment ------------------------------
(***************************************************************************)
(* PaymentWorkflow on small instances: two people, one of them under two   *)
(* spellings, and the machine.                                             *)
(***************************************************************************)
EXTENDS PaymentWorkflow, TLC

TwoPeople == {"Amina", "Brian"}
MachineOnly == {"system"}
MCNames == TwoPeople \cup {"amina "} \cup MachineOnly
MCFold == [n \in MCNames |->
              CASE n \in {"Amina", "amina "} -> "amina"
                [] n = "Brian" -> "brian"
                [] n = "system" -> "system"]

HandlerSymmetry == Permutations(Handlers)

OneAmount == {100}
TwoAmounts == {0, 7}
GoodAndBadAmount == {-1, 7}
OneRetention == {10}
TwoRetentions == {33, 140}
ManyRetentions == {-5, 33, 140}
=============================================================================
