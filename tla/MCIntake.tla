------------------------------ MODULE MCIntake ------------------------------
(* Intake on small instances. *)
EXTENDS Intake, TLC

CONSTANTS p1, p2, p3, m1, c1, serve, cli, web, shell

ProcessSymmetry == Permutations({serve, cli})

MCHost == [c \in Clerks |-> IF c = web THEN serve ELSE cli]
MCMerchant == [p \in Payments |-> m1]
MCCustomer == [p \in Payments |-> c1]

\* A gateway timeout, an error no rule knows, a card refused for risk.
Said(source, reason, groups) ==
  [code |-> "other", source |-> source, step |-> "other", reason |-> reason, has |-> groups]

MCError == [p \in Payments |->
  CASE p = p1 -> Said("network", "payment_timed_out", {"timeout"})
    [] p = p2 -> Said("bank", "other", {"bank"})
    [] p = p3 -> Said("bank", "card_declined", {"bank", "hard", "hard card", "risk"})]
MCEvents == {<<p2, "failed">>, <<p2, "halted">>, <<p3, "failed">>}
MCOneEvent == {<<p1, "failed">>}
MCPending == {<<p1, "failed">>, <<p1, "pending">>}

MCGuesses == [class : {"NETWORK_TIMEOUT"}, sure : BOOLEAN]

Rates(current, now) ==
  [b \in BucketNames |-> CASE b = "15m" -> current [] b = "now" -> now [] OTHER -> [n |-> 0, k |-> 0]]

\* Sending at once does better; the second report has too few samples of today's delay.
MCEvidence ==
  {Rates([n |-> 30, k |-> 3], [n |-> 40, k |-> 30]), Rates([n |-> 12, k |-> 1], [n |-> 40, k |-> 30])}

MCHandEdits ==
  {[file |-> m1, class |-> "NETWORK_TIMEOUT", override |-> [Unset EXCEPT !.action = "human_queue"],
    disabled |-> {"token_retry"}, humanAll |-> FALSE]}
=============================================================================
