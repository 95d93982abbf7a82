----------------------------- MODULE MCExecutor -----------------------------
(* Small instances of Executor: the payments, their orders and their routes. *)
EXTENDS Executor, TLC

CONSTANTS p1, p2, p3, p4, o1, w1, w2

\* one payment that gets a link; its payload carries an offer
OnePayment == {p1}
OneOrder == [p \in OnePayment |-> o1]
LinkRoute == [p \in OnePayment |-> "link"]

\* four failed payments of one order: a link, a halted subscription's page,
\* a saved token, and an amount no link can carry
FourPayments == {p1, p2, p3, p4}
SharedOrder == [p \in FourPayments |-> o1]
FourRoutes == [p \in FourPayments |->
  CASE p = p1 -> "link" [] p = p2 -> "subscription" [] p = p3 -> "token" [] p = p4 -> "refused"]

Sends == {"send"}
LiveMode == {"live"}
BothModes == {"live", "shadow"}

WorkerSymmetry == Permutations({w1, w2})
=============================================================================
