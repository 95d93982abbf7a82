---------------------------- MODULE MCSettlement ----------------------------
(* Small instances of Settlement. *)
EXTENDS Refinement, Reports, TLC

CONSTANTS p1, p2, o1, w1, w2

\* serve and the poll one after the other, or the poll in a process of its own
InTurn == [w \in {w1} |-> {"serve", "poll"}]
Apart == [w \in {w1, w2} |-> IF w = w1 THEN {"serve"} ELSE {"poll"}]

\* two failed payments of one order, both recovered by a link
TwoPayments == {p1, p2}
SharedOrder == [p \in TwoPayments |-> o1]
BothLinks == [p \in TwoPayments |-> "link"]

OnePayment == {p1}
OneOrder == [p \in OnePayment |-> o1]
LinkRoute == [p \in OnePayment |-> "link"]

LinkAndToken == [p \in TwoPayments |-> IF p = p1 THEN "link" ELSE "token"]

Sends == {"send"}
AllActs == {"send", "human_queue", "no_action"}
LiveMode == {"live"}
BothModes == {"live", "shadow"}
=============================================================================
