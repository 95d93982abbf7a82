----------------------- MODULE RecoveryPromise_proofs -----------------------
(* What the promise implies, for every set of payments and every budget. *)
EXTENDS RecoveryPromise, TLAPS

PTypeOK ==
  /\ tries \in [Payments -> Nat]
  /\ offer \in [Payments -> Offers]
  /\ result \in [Payments -> Results]

PInv == PTypeOK /\ CountedWasPaid

LEMMA PromiseInit == ASSUME MaxAttempts \in Nat PROVE PInit => PInv
  BY DEF PInit, PInv, PTypeOK, CountedWasPaid, Offers, Results

LEMMA PromiseStep == ASSUME MaxAttempts \in Nat PROVE PInv /\ [PNext]_pvars => PInv'
<1> SUFFICES ASSUME PInv, [PNext]_pvars PROVE PInv'
  OBVIOUS
<1> USE DEF PInv, PTypeOK, CountedWasPaid, Offers, Results, Payable
<1>1. CASE UNCHANGED pvars
  BY <1>1 DEF pvars
<1>2. ASSUME NEW p \in Payments, Begin(p) PROVE PInv'
  BY <1>2 DEF Begin
<1>3. ASSUME NEW p \in Payments, Offer(p) PROVE PInv'
  BY <1>3 DEF Offer
<1>4. ASSUME NEW p \in Payments, Pay(p) PROVE PInv'
  BY <1>4 DEF Pay
<1>5. ASSUME NEW p \in Payments, PayPart(p) PROVE PInv'
  BY <1>5 DEF PayPart
<1>6. ASSUME NEW p \in Payments, Withdraw(p) PROVE PInv'
  BY <1>6 DEF Withdraw
<1>7. ASSUME NEW p \in Payments, Settle(p) PROVE PInv'
  BY <1>7 DEF Settle
<1> QED
  BY <1>1, <1>2, <1>3, <1>4, <1>5, <1>6, <1>7 DEF PNext

\* Money is counted only on an offer the customer paid, inside the budget, and an
\* attempt past the budget offers nothing: what a reader of the code's stop rule
\* and of its reports may rely on wherever the code implements the promise.
THEOREM PromiseKept ==
  ASSUME MaxAttempts \in Nat
  PROVE  PSpec => []CountedWasPaid
<1>1. PInit => PInv
  BY PromiseInit
<1>2. PInv /\ [PNext]_pvars => PInv'
  BY PromiseStep
<1>3. PInv => CountedWasPaid
  BY DEF PInv
<1> QED
  BY <1>1, <1>2, <1>3, PTL DEF PSpec
=============================================================================
