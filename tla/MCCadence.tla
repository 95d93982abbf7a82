----------------------------- MODULE MCCadence -----------------------------
(* Small instances of Cadence. *)
EXTENDS Cadence, TLC

CONSTANTS p1, p2, w1

Both == {p1, p2}
\* both failures are the same customer's; the link of p2 is a subscription
\* page, which counts as a contact and has no reminders
Funds == [p \in Both |-> IF p = p1 THEN "AUTH_ABANDONED" ELSE "LIMIT_EXCEEDED"]
Delays == [p \in Both |-> 0]
Arrivals == [p \in Both |-> IF p = p1 THEN 9 ELSE 21]
OneCustomer == [p \in Both |-> "customer"]
Reachable == [p \in Both |-> {"sms"}]
Two == [p \in Both |-> 2]

Live == [shadow |-> FALSE, notify |-> TRUE, reminders |-> TRUE]
Shadow == [Live EXCEPT !.shadow = TRUE]
Modes == {Live, Shadow}
Second == {p2}
TwoMonths == {0, 31, 59}
=============================================================================
