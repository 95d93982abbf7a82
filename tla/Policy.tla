------------------------------- MODULE Policy -------------------------------
(***************************************************************************)
(* What to do about a failure: the table of app/policy.py, a merchant's     *)
(* overrides over it (the schema and the layering of app/merchants.py) and *)
(* the overrides that come after it, the subscription's (app/cadence.py)   *)
(* and the customer's history (app/offers.py).  Pure operators, no state.  *)
(*                                                                         *)
(* Delays are minutes.  Rationales, nudge texts and channels are left out. *)
(***************************************************************************)
EXTENDS Integers

CONSTANT None   (* what is not set: a field, a token action, a file         *)

FailureClasses ==
  {"INSUFFICIENT_FUNDS", "ISSUER_DOWN", "AUTH_ABANDONED", "HARD_DECLINE",
   "RISK_BLOCKED", "NETWORK_TIMEOUT", "LIMIT_EXCEEDED", "UNKNOWN"}

Actions == {"recovery_link", "token_retry", "nudge_change_method", "human_queue", "no_action"}
TerminalActions == {"human_queue", "no_action"}
LinkActions == {"recovery_link", "nudge_change_method"}

\* token is the action instead when the customer has a saved token.
Entry(action, token, delay, backoff, max, nudge) ==
  [action |-> action, token |-> token, delay |-> delay, backoff |-> backoff, max |-> max,
   nudge |-> nudge, tokenOnly |-> FALSE]

HumanEntry == Entry("human_queue", None, 0, 1, 0, FALSE)

ASSUME NoneAssumption == None \notin Actions

POLICY ==
  [class \in FailureClasses |->
     CASE class = "INSUFFICIENT_FUNDS" -> Entry("recovery_link", None, 48 * 60, 1, 2, TRUE)
       [] class = "ISSUER_DOWN" -> Entry("recovery_link", "token_retry", 15, 3, 3, TRUE)
       [] class = "AUTH_ABANDONED" -> Entry("recovery_link", None, 10, 1, 2, TRUE)
       [] class = "HARD_DECLINE" -> Entry("nudge_change_method", None, 0, 1, 1, TRUE)
       [] class = "NETWORK_TIMEOUT" -> Entry("recovery_link", "token_retry", 5, 2, 2, TRUE)
       [] class = "LIMIT_EXCEEDED" -> Entry("recovery_link", None, 24 * 60, 1, 2, TRUE)
       [] class \in {"RISK_BLOCKED", "UNKNOWN"} -> HumanEntry]

PinnedToHuman == {"RISK_BLOCKED", "UNKNOWN"}

-----------------------------------------------------------------------------
(* Overrides.  A class override gives each of its fields a value or None; a *)
(* class a file does not mention has none set.                              *)

Fields == {"delay", "max", "nudge", "action"}
MaxAttemptsCeiling == 5

Unset == [f \in Fields |-> None]
IsSet(override, f) == override[f] # None

\* What the schema accepts of one class's override.
ValidOverride(class, override) ==
  /\ DOMAIN override = Fields
  /\ override.delay \in Nat \cup {None}
  /\ override.max \in (0..MaxAttemptsCeiling) \cup {None}
  /\ override.nudge \in BOOLEAN \cup {None}
  /\ override.action \in {"human_queue", None}
  /\ class \in PinnedToHuman => \A f \in Fields \ {"action"} : ~IsSet(override, f)

Disableable == {"recovery_link", "nudge_change_method", "token_retry"}

ValidPolicy(policy) ==
  /\ \A class \in FailureClasses : ValidOverride(class, policy.classes[class])
  /\ policy.disabled \subseteq Disableable
  /\ policy.humanAll \in BOOLEAN

\* A file that is not there reads as one that sets nothing.
EmptyPolicy == [classes |-> [class \in FailureClasses |-> Unset], disabled |-> {}, humanAll |-> FALSE]

\* The fields of one override over those of another.
LayerFields(own, base) == [f \in Fields |-> IF IsSet(own, f) THEN own[f] ELSE base[f]]

\* A merchant's file over _default.json.
MergedOver(own, base) ==
  [classes |-> [class \in FailureClasses |-> LayerFields(own.classes[class], base.classes[class])],
   disabled |-> own.disabled \cup base.disabled,
   humanAll |-> own.humanAll \/ base.humanAll]

\* The table's row after a merchant's overrides: the pinned rows untouched,
\* an action only ever moved to a person, or token_retry dropped.
EffectiveEntry(class, overrides) ==
  LET entry == POLICY[class]
      own == overrides.classes[class]
      token == IF entry.token \in overrides.disabled THEN None ELSE entry.token
      disabled == entry.action \in overrides.disabled
  IN  IF entry.action \in TerminalActions THEN entry
      ELSE IF \/ overrides.humanAll
              \/ disabled /\ token = None
              \/ own.action = "human_queue"
           THEN HumanEntry
      ELSE [entry EXCEPT !.token = token,
                         !.tokenOnly = disabled,
                         !.delay = IF IsSet(own, "delay") THEN own.delay ELSE @,
                         !.max = IF IsSet(own, "max") THEN own.max ELSE @,
                         !.nudge = IF IsSet(own, "nudge") THEN own.nudge ELSE @]

\* The fields that would make the agent act sooner, more often or louder than
\* the table: a write of one of them needs a proposal's evidence.
LessConservative(class, fields) ==
  {f \in Fields : /\ IsSet(fields, f)
                  /\ \/ f = "delay" /\ fields.delay < POLICY[class].delay
                     \/ f = "max" /\ fields.max > POLICY[class].max
                     \/ f = "nudge" /\ fields.nudge /\ ~POLICY[class].nudge}

-----------------------------------------------------------------------------
(* decide. *)

\* base * backoff ^ (seq - 1)
DelayFor(entry, seq) == entry.delay * entry.backoff ^ (seq - 1)

Decision(action, delay, max, nudge) == [action |-> action, delay |-> delay, max |-> max, nudge |-> nudge]

ToAPerson == Decision("human_queue", 0, 0, FALSE)

\* A classification: its class, who gave it, and whether its confidence
\* reaches LLM_MIN_CONFIDENCE.
Classified(class, source, sure) == [class |-> class, source |-> source, sure |-> sure]

Uncertain(cls) == cls.source # "rules" /\ ~cls.sure

\* broken: the confidence of a model's answer is not looked at
DecideUngated(cls, seq, token, reachable, overrides) ==
  LET entry == EffectiveEntry(cls.class, overrides)
      useToken == token /\ entry.token # None
      action == IF useToken THEN entry.token ELSE entry.action
  IN  IF entry.action \in TerminalActions THEN Decision(entry.action, 0, entry.max, FALSE)
      ELSE IF seq > entry.max THEN Decision("no_action", 0, entry.max, FALSE)
      ELSE IF ~useToken /\ entry.tokenOnly THEN ToAPerson
      ELSE IF action \in LinkActions /\ ~reachable THEN ToAPerson
      ELSE Decision(action, DelayFor(entry, seq), entry.max, entry.nudge /\ action # "token_retry")

\* The checks in their order: the confidence gate, a terminal row, the stop
\* rule, a link nobody may send, a link nobody would receive.
Decide(cls, seq, token, reachable, overrides) ==
  LET entry == EffectiveEntry(cls.class, overrides)
      useToken == token /\ entry.token # None
      action == IF useToken THEN entry.token ELSE entry.action
  IN  IF Uncertain(cls) THEN ToAPerson
      ELSE IF entry.action \in TerminalActions THEN Decision(entry.action, 0, entry.max, FALSE)
      ELSE IF seq > entry.max THEN Decision("no_action", 0, entry.max, FALSE)
      ELSE IF ~useToken /\ entry.tokenOnly THEN ToAPerson
      ELSE IF action \in LinkActions /\ ~reachable THEN ToAPerson
      ELSE Decision(action, DelayFor(entry, seq), entry.max, entry.nudge /\ action # "token_retry")

-----------------------------------------------------------------------------
(* After the table. *)

\* broken: a halted subscription gets its page whatever was decided
SubscriptionOverrideForced(status, class, decision) ==
  IF status = "halted" THEN [decision EXCEPT !.action = "recovery_link", !.delay = 0, !.nudge = TRUE]
  ELSE IF /\ status = "pending"
          /\ class \notin {"HARD_DECLINE", "RISK_BLOCKED"}
          /\ decision.action \notin TerminalActions
  THEN [decision EXCEPT !.action = "human_queue", !.delay = 0, !.nudge = FALSE]
  ELSE decision

\* A subscription Razorpay still retries is left to it; one whose retries are
\* exhausted gets its re-authorisation page instead of a token retry.
SubscriptionOverride(status, class, decision) ==
  IF /\ status = "pending"
     /\ class \notin {"HARD_DECLINE", "RISK_BLOCKED"}
     /\ decision.action \notin TerminalActions
  THEN [decision EXCEPT !.action = "human_queue", !.delay = 0, !.nudge = FALSE]
  ELSE IF status = "halted" /\ decision.action = "token_retry"
  THEN [decision EXCEPT !.action = "recovery_link", !.delay = 0, !.nudge = TRUE]
  ELSE decision

PartialClasses == {"INSUFFICIENT_FUNDS", "LIMIT_EXCEEDED"}

\* The customer's failures by class, this one counted, against the threshold.
Repeats(class, counts, threshold) ==
  IF class = "HARD_DECLINE" THEN counts[class] + 1 >= threshold
  ELSE IF class \in PartialClasses
  THEN counts["INSUFFICIENT_FUNDS"] + counts["LIMIT_EXCEEDED"] + 1 >= threshold
  ELSE FALSE

\* Any risk flag in the customer's history, or one hard decline too many,
\* sends an automatic action to a person.
HistoryOverride(class, counts, threshold, decision) ==
  IF /\ decision.action \notin TerminalActions
     /\ \/ counts["RISK_BLOCKED"] > 0
        \/ class = "HARD_DECLINE" /\ Repeats(class, counts, threshold)
  THEN [decision EXCEPT !.action = "human_queue", !.delay = 0, !.nudge = FALSE]
  ELSE decision

\* The offer the first link carries: a partial payment for a repeat failer of
\* a large enough amount, the UPI preference on a change-method link.
FirstOffer(class, counts, threshold, large, action) ==
  IF action \notin LinkActions THEN "none"
  ELSE IF class \in PartialClasses /\ large /\ Repeats(class, counts, threshold) THEN "partial"
  ELSE IF class = "HARD_DECLINE" \/ action = "nudge_change_method" THEN "rail_upi"
  ELSE "none"
=============================================================================
