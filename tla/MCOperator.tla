----------------------------- MODULE MCOperator -----------------------------
(* Small instances of Operator: serve and one person. *)
EXTENDS Operator, TLC

CONSTANTS p1, serve, person

One == {p1}
Abandoned == [p \in One |-> "AUTH_ABANDONED"]
AtOnce == [p \in One |-> 0]
Morning == [p \in One |-> 9]
Customer == [p \in One |-> "customer"]
Sms == [p \in One |-> {"sms"}]
TwoContacts == [p \in One |-> 2]
Live == [shadow |-> FALSE, notify |-> TRUE, reminders |-> TRUE]
LiveOrShadow == {Live, [Live EXCEPT !.shadow = TRUE]}
LiveOnly == {Live}
TwoMonths == {0, 31, 59}
=============================================================================
