--------------------------- MODULE PaymentPromise ---------------------------
(***************************************************************************)
(* What the payment workflow promises finance and an auditor, with no      *)
(* handlers, snapshots or tables: a payment is raised with its figures,    *)
(* corrected only while nobody has signed, signed four times with no       *)
(* person signing twice running, and finance is instructed once, at the    *)
(* third signature, and told once, at the fourth, with the figures that    *)
(* were signed.                                                            *)
(***************************************************************************)
EXTENDS Naturals, Sequences

CONSTANTS
    Milestones,  \* payments, by milestone
    Figures,     \* <<amount, retention, payable>>
    NoFigures,   \* the figures of a payment that is not open
    People       \* signers; "system" is the machine

VARIABLES
    phase,       \* "unraised", "open" or, with its milestone gone, "withdrawn"
    figures,     \* what the payment is for
    signers,     \* who has signed, in order
    told         \* what finance has been told: <<payment, type, payable>> in order

vars == <<phase, figures, signers, told>>

Init ==
    /\ phase = [m \in Milestones |-> "unraised"]
    /\ figures = [m \in Milestones |-> NoFigures]
    /\ signers = [m \in Milestones |-> << >>]
    /\ told = << >>

Raise(m, f) ==
    /\ phase[m] = "unraised"
    /\ phase' = [phase EXCEPT ![m] = "open"]
    /\ figures' = [figures EXCEPT ![m] = f]
    /\ UNCHANGED <<signers, told>>

Correct(m, f) ==
    /\ phase[m] = "open"
    /\ signers[m] = << >>
    /\ figures' = [figures EXCEPT ![m] = f]
    /\ UNCHANGED <<phase, signers, told>>

Sign(m, who) ==
    LET signed == Len(signers[m]) IN
    /\ phase[m] = "open"
    /\ signed < 4
    /\ \/ signed = 0
       \/ who = "system"
       \/ who # signers[m][signed]
    /\ signers' = [signers EXCEPT ![m] = Append(@, who)]
    /\ told' = IF signed < 2 THEN told
               ELSE Append(told, <<m, IF signed = 2 THEN "authorized" ELSE "paid",
                                   figures[m][3]>>)
    /\ UNCHANGED <<phase, figures>>

Withdraw(m) ==
    /\ phase[m] # "withdrawn"
    /\ phase' = [phase EXCEPT ![m] = "withdrawn"]
    /\ figures' = [figures EXCEPT ![m] = NoFigures]
    /\ signers' = [signers EXCEPT ![m] = << >>]
    /\ UNCHANGED told

Next ==
    \E m \in Milestones :
        \/ \E f \in Figures : Raise(m, f) \/ Correct(m, f)
        \/ \E who \in People : Sign(m, who)
        \/ Withdraw(m)

Spec == Init /\ [][Next]_vars
=============================================================================
