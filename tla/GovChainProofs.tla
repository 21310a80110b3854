--------------------------- MODULE GovChainProofs ---------------------------
(***************************************************************************)
(* What clearing or declining a desk does to the signatures of a chain,    *)
(* for the proofs about the workflows that share it.                       *)
(***************************************************************************)
EXTENDS GovChain, TLAPS

\* The steps after the desk at the cursor was signed.
LEMMA SignedSteps ==
    ASSUME NEW steps \in [Desks -> Signer], NEW stage \in Desks, NEW by \in Names
    PROVE  /\ [steps EXCEPT ![stage] = by] \in [Desks -> Signer]
           /\ [steps EXCEPT ![stage] = by][stage] = by
           /\ \A d \in Desks : d # stage => [steps EXCEPT ![stage] = by][d] = steps[d]
BY DEF Signer

\* Signing the desk at the cursor leaves exactly the desks up to it signed.
LEMMA SignedOneMore ==
    ASSUME NEW steps \in [Desks -> Signer], NEW stage \in Desks, NEW by \in Names,
           SignedBelow(steps, stage)
    PROVE  SignedBelow([steps EXCEPT ![stage] = by], stage + 1)
<1>1. by # Blank
    BY NamesAssumption
<1> QED
    BY <1>1, SignedSteps DEF SignedBelow, Desks

\* Clearing it, which the engine allows to anybody but the one who cleared the desk
\* before, keeps the chain four-eyed.
LEMMA ClearedFourEyes ==
    ASSUME NEW steps \in [Desks -> Signer], NEW stage \in Desks, NEW by \in Names,
           FourEyes(steps, stage), ~SelfSuccession(steps, stage, by)
    PROVE  FourEyes([steps EXCEPT ![stage] = by], stage + 1)
<1> DEFINE after == [steps EXCEPT ![stage] = by]
<1>1. /\ after[stage] = by
      /\ \A d \in Desks : d # stage => after[d] = steps[d]
    BY SignedSteps
<1> HIDE DEF after
<1> SUFFICES ASSUME NEW d \in 1 .. stage
             PROVE  IsSystemActor(after[d - 1]) \/ ~SameActor(after[d], after[d - 1])
    BY DEF FourEyes, Desks, after
<1>2. d \in Desks /\ d - 1 \in Desks /\ d - 1 # stage
    BY DEF Desks
<1>3. CASE d < stage
    <2>1. d \in 1 .. (stage - 1)
        BY <1>3 DEF Desks
    <2> QED
        BY <1>1, <1>2, <1>3, <2>1 DEF FourEyes
<1>4. CASE d = stage
    <2>1. after[d] = by /\ after[d - 1] = steps[stage - 1] /\ stage # 0
        BY <1>1, <1>2, <1>4
    <2> QED
        BY <2>1 DEF SelfSuccession, PreviousApprover
<1> QED
    BY <1>3, <1>4 DEF Desks
=============================================================================
