------------------------------ MODULE Classify ------------------------------
(***************************************************************************)
(* The failure class of an error object: app/classify.py.  Pure operators.  *)
(*                                                                         *)
(* An error object is what a rule sees of it: its code, source, step and    *)
(* reason, and the groups of keywords its description matches.  The regular *)
(* expressions behind a group are left out; a description may match any set *)
(* of groups.                                                               *)
(***************************************************************************)
EXTENDS Integers, Sequences

\* The keyword groups of a description.
Groups ==
  {"risk", "hard", "hard card", "insufficient", "limit", "no customer limit", "auth step",
   "auth any step", "bank", "issuer", "timeout"}

\* The reasons some rule names, "other" for the rest.
Reasons ==
  {"payment_risk_check_failed", "international_transaction_not_allowed", "card_declined",
   "insufficient_funds", "transaction_limit_exceeded", "payment_cancelled", "payment_timed_out",
   "bank_technical_error", "bank_failure", "gateway_technical_error", "server_error", "other"}

Signals ==
  [code : {"gateway_error", "server_error", "other"}, source : {"bank", "network", "other"},
   step : {"payment_authentication", "other"}, reason : Reasons, has : SUBSET Groups]

AtAuthentication(s) == s.step = "payment_authentication"

Risk(s) == s.reason = "payment_risk_check_failed" \/ "risk" \in s.has

\* What each rule asks of an error object.
Predicates(s) ==
  [risk_flag |-> Risk(s),
   hard_decline_structured |-> s.reason = "international_transaction_not_allowed",
   hard_decline_reason |-> s.reason = "card_declined" /\ "hard" \in s.has,
   hard_decline_description |-> ~AtAuthentication(s) /\ "hard card" \in s.has,
   insufficient_funds |-> s.reason = "insufficient_funds" \/ "insufficient" \in s.has,
   limit_exceeded_structured |-> s.reason = "transaction_limit_exceeded",
   limit_exceeded_description |-> "limit" \in s.has /\ "no customer limit" \notin s.has,
   auth_abandoned_structured |-> \/ s.reason = "payment_cancelled"
                                 \/ AtAuthentication(s) /\ s.reason = "payment_timed_out",
   auth_abandoned_description |-> \/ AtAuthentication(s) /\ "auth step" \in s.has
                                  \/ "auth any step" \in s.has,
   issuer_down_structured |-> s.reason \in {"bank_technical_error", "bank_failure"},
   issuer_down_description |-> (s.source = "bank" \/ "bank" \in s.has) /\ "issuer" \in s.has,
   network_timeout_structured |-> \/ s.source = "network"
                                  \/ s.reason = "payment_timed_out"
                                  \/ s.code = "gateway_error" /\ s.reason = "gateway_technical_error"
                                  \/ s.code = "server_error" /\ s.reason = "server_error",
   network_timeout_description |-> "timeout" \in s.has]

\* The order is the policy.
RULES ==
  << <<"risk_flag", "RISK_BLOCKED">>,
     <<"hard_decline_structured", "HARD_DECLINE">>,
     <<"hard_decline_reason", "HARD_DECLINE">>,
     <<"hard_decline_description", "HARD_DECLINE">>,
     <<"insufficient_funds", "INSUFFICIENT_FUNDS">>,
     <<"limit_exceeded_structured", "LIMIT_EXCEEDED">>,
     <<"limit_exceeded_description", "LIMIT_EXCEEDED">>,
     <<"auth_abandoned_structured", "AUTH_ABANDONED">>,
     <<"auth_abandoned_description", "AUTH_ABANDONED">>,
     <<"issuer_down_structured", "ISSUER_DOWN">>,
     <<"issuer_down_description", "ISSUER_DOWN">>,
     <<"network_timeout_structured", "NETWORK_TIMEOUT">>,
     <<"network_timeout_description", "NETWORK_TIMEOUT">> >>

Matching(s) == {i \in DOMAIN RULES : Predicates(s)[RULES[i][1]]}

\* The first rule that matches; UNKNOWN when none does.
Classify(s) ==
  IF Matching(s) = {} THEN "UNKNOWN"
  ELSE RULES[CHOOSE i \in Matching(s) : \A j \in Matching(s) : i <= j][2]
=============================================================================
