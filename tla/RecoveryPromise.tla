--------------------------- MODULE RecoveryPromise ---------------------------
(***************************************************************************)
(* What the agent promises about a failed payment, without jobs, workers or *)
(* tables: attempts one after another, at most one offer to pay at a time,  *)
(* at most MaxAttempts of them, and one result for each attempt, counted    *)
(* recovered only when the customer paid on that very offer.                *)
(***************************************************************************)
EXTENDS Naturals

CONSTANTS Payments, MaxAttempts

VARIABLES
  tries,    (* attempts begun for each payment                              *)
  offer,    (* the link of the latest attempt, as the customer sees it      *)
  result    (* what the latest attempt came to                              *)

pvars == <<tries, offer, result>>

Offers == {"none", "open", "part", "paid", "ended"}
Results == {"unknown", "recovered", "lost"}
Payable == {"open", "part"}

PInit ==
  /\ tries = [p \in Payments |-> 0]
  /\ offer = [p \in Payments |-> "none"]
  /\ result = [p \in Payments |-> "unknown"]

\* The next attempt: nothing can be paid on the last one any more, and nothing
\* was.  The attempt past MaxAttempts is the row that closes the payment.
Begin(p) ==
  /\ offer[p] \in {"none", "ended"}
  /\ result[p] # "recovered"
  /\ tries[p] <= MaxAttempts
  /\ tries' = [tries EXCEPT ![p] = @ + 1]
  /\ offer' = [offer EXCEPT ![p] = "none"]
  /\ result' = [result EXCEPT ![p] = "unknown"]

Offer(p) ==
  /\ offer[p] = "none"
  /\ result[p] = "unknown"
  /\ tries[p] \in 1..MaxAttempts
  /\ offer' = [offer EXCEPT ![p] = "open"]
  /\ UNCHANGED <<tries, result>>

Pay(p) ==
  /\ offer[p] \in Payable
  /\ offer' = [offer EXCEPT ![p] = "paid"]
  /\ UNCHANGED <<tries, result>>

PayPart(p) ==
  /\ offer[p] = "open"
  /\ offer' = [offer EXCEPT ![p] = "part"]
  /\ UNCHANGED <<tries, result>>

\* Expired or cancelled; an offer part of which is counted stays.
Withdraw(p) ==
  /\ offer[p] \in Payable
  /\ result[p] = "recovered" => offer[p] # "part"
  /\ offer' = [offer EXCEPT ![p] = "ended"]
  /\ UNCHANGED <<tries, result>>

Settle(p) ==
  /\ tries[p] > 0
  /\ result[p] = "unknown"
  /\ \/ offer[p] \in {"part", "paid"} /\ result' = [result EXCEPT ![p] = "recovered"]
     \/ result' = [result EXCEPT ![p] = "lost"]
  /\ UNCHANGED <<tries, offer>>

PNext == \E p \in Payments : Begin(p) \/ Offer(p) \/ Pay(p) \/ PayPart(p) \/ Withdraw(p) \/ Settle(p)

PSpec == PInit /\ [][PNext]_pvars

\* Money counted was paid, on an offer within the budget; an attempt past the
\* budget offers nothing.
CountedWasPaid ==
  \A p \in Payments :
    /\ result[p] = "recovered" => offer[p] \in {"part", "paid"} /\ tries[p] \in 1..MaxAttempts
    /\ tries[p] = 0 \/ tries[p] > MaxAttempts => offer[p] = "none"
=============================================================================
