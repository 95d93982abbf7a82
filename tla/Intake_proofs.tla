---------------------------- MODULE Intake_proofs ----------------------------
(***************************************************************************)
(* What no combination of rules, guess, files, subscription and history can *)
(* decide, for every set of payments, events, processes, override files and *)
(* answers of the model.                                                   *)
(*                                                                         *)
(* RiskIsNeverAutomatic is not inductive: it needs what a process holds on  *)
(* its way to the decision, that a risk-flagged payment is never put to the *)
(* model and carries its class (Handling).  Nor are DecisionsOnlyTighten    *)
(* and RepeatRiskStops: they need that a payment that was decided, or that  *)
(* a process has in hand, was stored, and that a stored row never changes   *)
(* (Stored), so that what was decided by it is still explained by it.       *)
(* SoonerDecisionIsBacked needs that of every delay a file, a trail, a      *)
(* clerk's reading or a process's reading holds (FilesBacked).              *)
(***************************************************************************)
EXTENDS Intake, FiniteSetTheorems, SequenceTheorems, WellFoundedInduction, TLAPS

\* What a process may hold of a payment when it decides.
Named(p, cls) ==
  /\ cls.class \in FailureClasses
  /\ Risk(Error[p]) => cls.class = "RISK_BLOCKED"

Handling(w) ==
  /\ wk[w].pc \in {"idle", "ask", "decide", "schedule"}
  /\ wk[w].pc = "ask" => wk[w].event[1] \in Payments /\ ClassOf[wk[w].event[1]] = "UNKNOWN"
  /\ wk[w].pc = "decide" => Named(wk[w].event[1], wk[w].cls)

Safe(d) ==
  \/ Risk(Error[d.payment])
  \/ d.class \in PinnedToHuman
  \/ d.source = "llm" /\ ~d.sure
  => d.action = "human_queue" /\ d.offer = "none"

Recorded ==
  /\ decisions \in Seq({decisions[i] : i \in DOMAIN decisions})
  /\ \A i \in DOMAIN decisions : Safe(decisions[i])

IInv ==
  /\ DOMAIN wk = Processes
  /\ \A w \in Processes : Handling(w)
  /\ Recorded

-----------------------------------------------------------------------------
(* classify. *)

LEMMA RuleIndices == ASSUME NEW s PROVE Matching(s) \subseteq 1..13
  BY DEF Matching, RULES

\* A rule that matches and comes before every other one decides.
LEMMA FirstRuleDecides ==
  ASSUME NEW s, Matching(s) # {}
  PROVE  \E i \in Matching(s) : /\ \A j \in Matching(s) : i <= j
                                /\ Classify(s) = RULES[i][2]
<1>1. Matching(s) \subseteq 1..13
  BY RuleIndices
<1>2. PICK k \in Matching(s) : TRUE
  OBVIOUS
<1>3. \E i \in Matching(s) : \A j \in Matching(s) : i <= j
  BY <1>1, <1>2
<1> DEFINE first == CHOOSE i \in Matching(s) : \A j \in Matching(s) : i <= j
<1>4. first \in Matching(s) /\ \A j \in Matching(s) : first <= j
  BY <1>3
<1>5. Classify(s) = RULES[first][2]
  BY DEF Classify
<1> QED
  BY <1>4, <1>5

\* A risk flag wins over every other match.
LEMMA RiskRuleFirst ==
  ASSUME NEW p \in Payments, Risk(Error[p])
  PROVE  ClassOf[p] = "RISK_BLOCKED"
<1> DEFINE s == Error[p]
<1>1. Predicates(s)["risk_flag"]
  BY DEF Predicates
<1>2. 1 \in Matching(s) /\ Matching(s) \subseteq 1..13
  BY <1>1 DEF Matching, RULES
<1>3. PICK i \in Matching(s) : (\A j \in Matching(s) : i <= j) /\ Classify(s) = RULES[i][2]
  BY <1>2, FirstRuleDecides
<1>4. i = 1
  BY <1>2, <1>3
<1> QED
  BY <1>3, <1>4 DEF RULES, ClassOf

LEMMA MatchingRule ==
  ASSUME NEW s
  PROVE  /\ Predicates(s)["hard_decline_structured"] => 2 \in Matching(s)
         /\ Predicates(s)["hard_decline_reason"] => 3 \in Matching(s)
         /\ Predicates(s)["hard_decline_description"] => 4 \in Matching(s)
<1>1. 2 \in DOMAIN RULES /\ 3 \in DOMAIN RULES /\ 4 \in DOMAIN RULES
  BY DEF RULES
<1>2. /\ RULES[2][1] = "hard_decline_structured"
      /\ RULES[3][1] = "hard_decline_reason"
      /\ RULES[4][1] = "hard_decline_description"
  BY DEF RULES
<1> QED
  BY <1>1, <1>2 DEF Matching

LEMMA HardDeclineRule ==
  ASSUME NEW s, NEW k \in 2..4, k \in Matching(s)
  PROVE  Classify(s) \in {"RISK_BLOCKED", "HARD_DECLINE"}
<1>1. Matching(s) \subseteq 1..13
  BY RuleIndices
<1>2. PICK i \in Matching(s) : (\A j \in Matching(s) : i <= j) /\ Classify(s) = RULES[i][2]
  BY FirstRuleDecides
<1>3. i \in 1..13 /\ i <= k
  BY <1>1, <1>2
<1>4. i = 1 \/ i = 2 \/ i = 3 \/ i = 4
  BY <1>3
<1>5. /\ RULES[1][2] = "RISK_BLOCKED" /\ RULES[2][2] = "HARD_DECLINE"
      /\ RULES[3][2] = "HARD_DECLINE" /\ RULES[4][2] = "HARD_DECLINE"
  BY DEF RULES
<1> QED
  BY <1>2, <1>4, <1>5

LEMMA HardDeclineMatched ==
  ASSUME NEW s,
         \/ Predicates(s)["hard_decline_structured"]
         \/ Predicates(s)["hard_decline_reason"]
         \/ Predicates(s)["hard_decline_description"]
  PROVE  Classify(s) \in {"RISK_BLOCKED", "HARD_DECLINE"}
<1>1. 2 \in 2..4 /\ 3 \in 2..4 /\ 4 \in 2..4
  OBVIOUS
<1> QED
  BY <1>1, HardDeclineRule, MatchingRule

\* A hard decline wins over every soft signal of the same error object:
\* app/classify.py, "a hard decline must win over a soft signal".
THEOREM HardDeclineWins ==
  ASSUME NEW s,
         \/ s.reason = "international_transaction_not_allowed"
         \/ s.reason = "card_declined" /\ "hard" \in s.has
         \/ ~AtAuthentication(s) /\ "hard card" \in s.has
  PROVE  Classify(s) \in {"RISK_BLOCKED", "HARD_DECLINE"}
<1>1. CASE s.reason = "international_transaction_not_allowed"
  <2>1. Predicates(s)["hard_decline_structured"]
    BY <1>1 DEF Predicates
  <2> QED
    BY <2>1, HardDeclineMatched
<1>2. CASE s.reason = "card_declined" /\ "hard" \in s.has
  <2>1. Predicates(s)["hard_decline_reason"]
    BY <1>2 DEF Predicates
  <2> QED
    BY <2>1, HardDeclineMatched
<1>3. CASE ~AtAuthentication(s) /\ "hard card" \in s.has
  <2>1. Predicates(s)["hard_decline_description"]
    BY <1>3 DEF Predicates
  <2> QED
    BY <2>1, HardDeclineMatched
<1> QED
  BY <1>1, <1>2, <1>3

\* Every rule names a class of the enumeration.
LEMMA ClassIsKnown == ASSUME NEW p \in Payments PROVE ClassOf[p] \in FailureClasses
<1> DEFINE s == Error[p]
<1>1. CASE Matching(s) = {}
  BY <1>1 DEF Classify, ClassOf, FailureClasses
<1>2. CASE Matching(s) # {}
  <2>1. PICK i \in Matching(s) : Classify(s) = RULES[i][2]
    BY <1>2, FirstRuleDecides
  <2>2. i \in 1..13
    BY DEF Matching, RULES
  <2> QED
    BY <2>1, <2>2 DEF RULES, ClassOf, FailureClasses
<1> QED
  BY <1>1, <1>2

-----------------------------------------------------------------------------
(* decide, and what comes after the table. *)

\* The pinned rows, whatever a merchant's files hold.
LEMMA PinnedEntry ==
  ASSUME NEW class \in PinnedToHuman, NEW overrides
  PROVE  EffectiveEntry(class, overrides) = HumanEntry
<1>1. class \in FailureClasses
  BY DEF PinnedToHuman, FailureClasses
<1>2. POLICY[class] = HumanEntry
  BY <1>1 DEF POLICY, PinnedToHuman
<1>3. HumanEntry.action \in TerminalActions
  BY DEF HumanEntry, Entry, TerminalActions
<1> QED
  BY <1>2, <1>3 DEF EffectiveEntry

\* The confidence gate and the pinned rows come before every other check.
LEMMA DecidedByAPerson ==
  ASSUME NEW cls, NEW seq, NEW token, NEW reachable, NEW overrides,
         cls.class \in PinnedToHuman \/ Uncertain(cls)
  PROVE  Decide(cls, seq, token, reachable, overrides).action = "human_queue"
<1>1. CASE Uncertain(cls)
  BY <1>1 DEF Decide, ToAPerson, Decision
<1>2. CASE ~Uncertain(cls) /\ cls.class \in PinnedToHuman
  <2>1. EffectiveEntry(cls.class, overrides) = HumanEntry
    BY <1>2, PinnedEntry
  <2>2. HumanEntry.action = "human_queue"
    BY DEF HumanEntry, Entry
  <2> QED
    BY <1>2, <2>1, <2>2 DEF Decide, Decision, TerminalActions
<1> QED
  BY <1>1, <1>2

\* The subscription and the history never take a payment from a person.
LEMMA StaysWithAPerson ==
  ASSUME NEW status, NEW class, NEW counts, NEW threshold, NEW decision,
         decision.action = "human_queue"
  PROVE  /\ SubscriptionOverride(status, class, decision).action = "human_queue"
         /\ HistoryOverride(class, counts, threshold, decision).action = "human_queue"
  BY DEF SubscriptionOverride, HistoryOverride, TerminalActions

-----------------------------------------------------------------------------
LEMMA IntakeInit == IInit => IInv
  BY DEF IInit, IInv, Handling, Idle, Recorded

\* A step that appends no decision and moves one process.
LEMMA Moved ==
  ASSUME IInv, NEW w \in Processes, NEW position, wk' = [wk EXCEPT ![w] = position],
         UNCHANGED decisions,
         position.pc \in {"idle", "ask", "decide", "schedule"},
         position.pc = "ask" => position.event[1] \in Payments /\ ClassOf[position.event[1]] = "UNKNOWN",
         position.pc = "decide" => Named(position.event[1], position.cls)
  PROVE  IInv'
<1>1. DOMAIN wk' = Processes /\ wk'[w] = position /\ \A x \in Processes \ {w} : wk'[x] = wk[x]
  BY DEF IInv
<1>2. \A x \in Processes : Handling(x)'
  BY <1>1 DEF IInv, Handling, Named
<1> QED
  BY <1>1, <1>2 DEF IInv, Recorded, Safe

LEMMA ReceiveKeeps ==
  ASSUME IInv, NEW w \in Processes, NEW e \in Events, Receive(w, e)
  PROVE  IInv'
<1> DEFINE class == ClassOf[e[1]]
           asking == [pc |-> "ask", event |-> e, now |-> clock, asked |-> 0]
           deciding == [pc |-> "decide", event |-> e, now |-> clock, cls |-> Classified(class, "rules", TRUE)]
<1>0. e[1] \in Payments
  BY IntakeAssumption
<1>1. CASE class = "UNKNOWN"
  <2>1. wk' = [wk EXCEPT ![w] = asking] /\ UNCHANGED decisions
    BY <1>1 DEF Receive, Goto
  <2> QED
    BY <1>0, <1>1, <2>1, Moved
<1>2. CASE class # "UNKNOWN"
  <2>1. wk' = [wk EXCEPT ![w] = deciding] /\ UNCHANGED decisions
    BY <1>2 DEF Receive, Goto
  <2>2. Named(e[1], deciding.cls)
    BY <1>0, RiskRuleFirst, ClassIsKnown DEF Named, Classified
  <2> QED
    BY <2>1, <2>2, Moved
<1> QED
  BY <1>1, <1>2

\* The model is asked about unnamed failures only, and none of those is risk-flagged.
LEMMA AskKeeps ==
  ASSUME IInv, NEW w \in Processes, AskModel(w)
  PROVE  IInv'
<1> DEFINE e == wk[w].event
           answered(cls) == [pc |-> "decide", event |-> e, now |-> wk[w].now, cls |-> cls]
<1>1. e[1] \in Payments /\ ClassOf[e[1]] = "UNKNOWN" /\ UNCHANGED decisions /\ wk[w].pc = "ask"
  BY DEF AskModel, IInv, Handling
<1>2. ~Risk(Error[e[1]])
  BY <1>1, RiskRuleFirst
<1>3. ASSUME NEW guess \in Guesses, Goto(w, answered(Classified(guess.class, "llm", guess.sure)))
      PROVE  IInv'
  <2>1. guess.class \in FailureClasses
    BY IntakeAssumption
  <2>2. Named(e[1], Classified(guess.class, "llm", guess.sure))
    BY <1>2, <2>1 DEF Named, Classified
  <2> DEFINE position == answered(Classified(guess.class, "llm", guess.sure))
  <2>3. wk' = [wk EXCEPT ![w] = position]
    BY <1>3 DEF Goto
  <2> QED
    BY <1>1, <2>2, <2>3, Moved
<1>4. ASSUME Goto(w, [wk[w] EXCEPT !.asked = 1])
      PROVE  IInv'
  <2> DEFINE position == [wk[w] EXCEPT !.asked = 1]
  <2>1. position.pc = wk[w].pc /\ position.event = e
    OBVIOUS
  <2>2. wk' = [wk EXCEPT ![w] = position]
    BY <1>4 DEF Goto
  <2> QED
    BY <1>1, <2>1, <2>2, Moved
<1>5. ASSUME Goto(w, answered(Fallback))
      PROVE  IInv'
  <2>1. Named(e[1], Fallback)
    BY <1>2 DEF Named, Fallback, Classified, FailureClasses
  <2> DEFINE position == answered(Fallback)
  <2>2. wk' = [wk EXCEPT ![w] = position]
    BY <1>5 DEF Goto
  <2> QED
    BY <1>1, <2>1, <2>2, Moved
<1> QED
  BY <1>3, <1>4, <1>5 DEF AskModel

\* The decision appended is safe, by the lemmas on decide and what follows it.
LEMMA RecordKeeps ==
  ASSUME IInv, NEW w \in Processes, RecordDecision(w)
  PROVE  IInv'
<1> DEFINE p == wk[w].event[1]
           cls == wk[w].cls
           now == wk[w].now
           position == [pc |-> "schedule", event |-> wk[w].event, decision |-> Len(decisions) + 1]
<1>1. Named(p, cls)
  BY DEF RecordDecision, IInv, Handling
<1>2. PICK overrides, table, subscribed, judged :
        /\ table = Decide(cls, 1, HasToken(p), Reachable(p), overrides)
        /\ subscribed = SubscriptionOverride(row[p].status, cls.class, table)
        /\ judged = HistoryOverride(cls.class, History(p, now), Threshold, subscribed)
        /\ decisions' = Append(decisions,
             [payment |-> p, now |-> now, class |-> cls.class, source |-> cls.source, sure |-> cls.sure,
              action |-> judged.action, delay |-> judged.delay, max |-> judged.max,
              offer |-> FirstOffer(cls.class, History(p, now), Threshold, p \in Large, judged.action)])
  BY DEF RecordDecision
<1> DEFINE made == [payment |-> p, now |-> now, class |-> cls.class, source |-> cls.source, sure |-> cls.sure,
                    action |-> judged.action, delay |-> judged.delay, max |-> judged.max,
                    offer |-> FirstOffer(cls.class, History(p, now), Threshold, p \in Large, judged.action)]
<1>3. Safe(made)
  <2> SUFFICES ASSUME \/ Risk(Error[p])
                      \/ cls.class \in PinnedToHuman
                      \/ cls.source = "llm" /\ ~cls.sure
               PROVE  made.action = "human_queue" /\ made.offer = "none"
    BY DEF Safe
  <2>1. cls.class \in PinnedToHuman \/ Uncertain(cls)
    BY <1>1 DEF Named, PinnedToHuman, Uncertain
  <2>2. table = Decide(cls, 1, HasToken(p), Reachable(p), overrides)
    BY <1>2
  <2>3. table.action = "human_queue"
    BY <2>1, <2>2, DecidedByAPerson
  <2>4. /\ subscribed = SubscriptionOverride(row[p].status, cls.class, table)
        /\ judged = HistoryOverride(cls.class, History(p, now), Threshold, subscribed)
    BY <1>2
  <2>5. judged.action = "human_queue"
    BY <2>3, <2>4, StaysWithAPerson
  <2>6. FirstOffer(cls.class, History(p, now), Threshold, p \in Large, judged.action) = "none"
    BY <2>5 DEF FirstOffer, LinkActions
  <2> QED
    BY <2>5, <2>6
<1> HIDE DEF made
<1>4. decisions' = Append(decisions, made)
  BY <1>2 DEF made
<1> DEFINE old == {decisions[i] : i \in DOMAIN decisions}
<1>5. decisions \in Seq(old) /\ \A d \in old : Safe(d)
  BY DEF IInv, Recorded
<1> HIDE DEF old
<1>6. /\ decisions' \in Seq(old \cup {made})
      /\ DOMAIN decisions' = 1..(Len(decisions) + 1)
      /\ \A i \in DOMAIN decisions' : decisions'[i] \in old \cup {made}
  BY <1>4, <1>5
<1>7. \A i \in DOMAIN decisions' : Safe(decisions'[i])
  BY <1>3, <1>5, <1>6
<1>8. decisions' \in Seq({decisions'[i] : i \in DOMAIN decisions'})
  BY <1>6
<1>9. wk' = [wk EXCEPT ![w] = position]
  BY DEF RecordDecision, Goto
<1>10. \A x \in Processes : Handling(x)'
  BY <1>9 DEF IInv, Handling, Named
<1> QED
  BY <1>7, <1>8, <1>9, <1>10 DEF IInv, Recorded, Safe

-----------------------------------------------------------------------------
LEMMA IntakeStep == IInv /\ [INext]_ivars => IInv'
<1> SUFFICES ASSUME IInv, [INext]_ivars PROVE IInv'
  OBVIOUS
<1>1. ASSUME UNCHANGED <<wk, decisions>> PROVE IInv'
  BY <1>1 DEF IInv, Handling, Named, Recorded, Safe
<1>2. ASSUME NEW w \in Processes, NEW e \in Events, Receive(w, e) PROVE IInv'
  BY <1>2, ReceiveKeeps
<1>3. ASSUME NEW w \in Processes, AskModel(w) PROVE IInv'
  BY <1>3, AskKeeps
<1>4. ASSUME NEW w \in Processes, RecordDecision(w) PROVE IInv'
  BY <1>4, RecordKeeps
<1>5. ASSUME NEW w \in Processes, CreateJob(w) \/ Refuse(w) PROVE IInv'
  <2>1. wk' = [wk EXCEPT ![w] = Idle] /\ UNCHANGED decisions
    BY <1>5 DEF CreateJob, Refuse, Goto
  <2>2. Idle.pc = "idle"
    BY DEF Idle
  <2> QED
    BY <2>1, <2>2, Moved
<1>6. ASSUME NEW w \in Processes, Restart(w) PROVE IInv'
  BY <1>6, <1>1 DEF Restart, pvars
<1>7. CASE UNCHANGED pvars
  BY <1>7, <1>1 DEF pvars
<1>8. CASE UNCHANGED ivars
  BY <1>8, <1>7 DEF ivars
<1> QED
  BY <1>1, <1>2, <1>3, <1>4, <1>5, <1>6, <1>7, <1>8 DEF INext, Process, Tick

\* Whatever the error object also says, whatever the model answers, whatever the
\* merchant's files, the subscription and the history hold, and in any number
\* of processes: such a failure is decided for a person.
THEOREM RiskStaysHuman == ISpec => []RiskIsNeverAutomatic
<1>1. IInit => IInv
  BY IntakeInit
<1>2. IInv /\ [INext]_ivars => IInv'
  BY IntakeStep
<1>3. IInv => RiskIsNeverAutomatic
  BY DEF IInv, Recorded, Safe, RiskIsNeverAutomatic
<1> QED
  BY <1>1, <1>2, <1>3, PTL DEF ISpec
-----------------------------------------------------------------------------
(* What overrides and history do to a decision of the table. *)

LEMMA PolicyRows ==
  ASSUME NEW class \in FailureClasses \ PinnedToHuman
  PROVE  /\ POLICY[class].action \in LinkActions
         /\ POLICY[class].token \in {None, "token_retry"}
         /\ POLICY[class].token = "token_retry" => POLICY[class].action = "recovery_link"
         /\ POLICY[class].max \in 1..3
         /\ POLICY[class].tokenOnly = FALSE
         /\ DOMAIN POLICY[class] = {"action", "token", "delay", "backoff", "max", "nudge", "tokenOnly"}
<1>1. \/ class = "INSUFFICIENT_FUNDS" \/ class = "ISSUER_DOWN" \/ class = "AUTH_ABANDONED"
      \/ class = "HARD_DECLINE" \/ class = "NETWORK_TIMEOUT" \/ class = "LIMIT_EXCEEDED"
  BY DEF FailureClasses, PinnedToHuman
<1>4. CASE class = "INSUFFICIENT_FUNDS"
  <2>1. POLICY[class] = Entry("recovery_link", None, 48 * 60, 1, 2, TRUE)
    BY <1>4 DEF POLICY
  <2> QED
    BY <2>1, NoneAssumption DEF Entry, LinkActions, Actions
<1>5. CASE class = "ISSUER_DOWN"
  <2>1. POLICY[class] = Entry("recovery_link", "token_retry", 15, 3, 3, TRUE)
    BY <1>5 DEF POLICY
  <2> QED
    BY <2>1, NoneAssumption DEF Entry, LinkActions, Actions
<1>6. CASE class = "AUTH_ABANDONED"
  <2>1. POLICY[class] = Entry("recovery_link", None, 10, 1, 2, TRUE)
    BY <1>6 DEF POLICY
  <2> QED
    BY <2>1, NoneAssumption DEF Entry, LinkActions, Actions
<1>7. CASE class = "HARD_DECLINE"
  <2>1. POLICY[class] = Entry("nudge_change_method", None, 0, 1, 1, TRUE)
    BY <1>7 DEF POLICY
  <2> QED
    BY <2>1, NoneAssumption DEF Entry, LinkActions, Actions
<1>8. CASE class = "NETWORK_TIMEOUT"
  <2>1. POLICY[class] = Entry("recovery_link", "token_retry", 5, 2, 2, TRUE)
    BY <1>8 DEF POLICY
  <2> QED
    BY <2>1, NoneAssumption DEF Entry, LinkActions, Actions
<1>9. CASE class = "LIMIT_EXCEEDED"
  <2>1. POLICY[class] = Entry("recovery_link", None, 24 * 60, 1, 2, TRUE)
    BY <1>9 DEF POLICY
  <2> QED
    BY <2>1, NoneAssumption DEF Entry, LinkActions, Actions
<1> QED
  BY <1>1, <1>4, <1>5, <1>6, <1>7, <1>8, <1>9

\* A merchant's files make a row a person's, or leave its action and at most drop
\* its token retry.
LEMMA EffectiveRow ==
  ASSUME NEW class \in FailureClasses \ PinnedToHuman, NEW overrides
  PROVE  LET entry == EffectiveEntry(class, overrides) IN
         \/ entry.action = "human_queue"
         \/ entry.action = POLICY[class].action /\ entry.token \in {None, POLICY[class].token}
<1> DEFINE row0 == POLICY[class]
           token == IF row0.token \in overrides.disabled THEN None ELSE row0.token
<1>1. row0.action \notin TerminalActions
  BY PolicyRows DEF LinkActions, TerminalActions
<1>2. HumanEntry.action = "human_queue"
  BY DEF HumanEntry, Entry
<1>3. ASSUME NEW only, NEW delay, NEW max, NEW nudge
      PROVE  LET e == [row0 EXCEPT !.token = token, !.tokenOnly = only, !.delay = delay, !.max = max, !.nudge = nudge]
             IN  e.action = row0.action /\ e.token = token
  BY PolicyRows
<1>4. token \in {None, row0.token}
  OBVIOUS
<1> QED
  BY <1>1, <1>2, <1>3, <1>4 DEF EffectiveEntry

\* Files that set nothing leave the row as the table has it.
LEMMA TableRow ==
  ASSUME NEW class \in FailureClasses \ PinnedToHuman
  PROVE  LET entry == EffectiveEntry(class, EmptyPolicy) IN
         /\ entry.action = POLICY[class].action /\ entry.token = POLICY[class].token
         /\ entry.max = POLICY[class].max /\ entry.tokenOnly = FALSE
<1> DEFINE row0 == POLICY[class]
<1>1. row0.action \notin TerminalActions
  BY PolicyRows DEF LinkActions, TerminalActions
<1>2. /\ EmptyPolicy.disabled = {} /\ EmptyPolicy.humanAll = FALSE
      /\ EmptyPolicy.classes[class] = Unset
  BY DEF EmptyPolicy
<1>3. /\ Unset.action # "human_queue"
      /\ ~IsSet(Unset, "delay") /\ ~IsSet(Unset, "max") /\ ~IsSet(Unset, "nudge")
  BY NoneAssumption DEF Unset, Fields, IsSet, Actions
<1>4. ASSUME NEW only, NEW delay, NEW max, NEW nudge, only = FALSE, max = row0.max
      PROVE  LET e == [row0 EXCEPT !.token = row0.token, !.tokenOnly = only, !.delay = delay,
                                   !.max = max, !.nudge = nudge]
             IN  /\ e.action = row0.action /\ e.token = row0.token
                 /\ e.max = row0.max /\ e.tokenOnly = FALSE
  BY <1>4, PolicyRows
<1> DEFINE own == EmptyPolicy.classes[class]
           token == IF row0.token \in EmptyPolicy.disabled THEN None ELSE row0.token
           disabled == row0.action \in EmptyPolicy.disabled
           delay == IF IsSet(own, "delay") THEN own.delay ELSE row0.delay
           max == IF IsSet(own, "max") THEN own.max ELSE row0.max
           nudge == IF IsSet(own, "nudge") THEN own.nudge ELSE row0.nudge
<1>5. ~(EmptyPolicy.humanAll \/ (disabled /\ token = None) \/ own.action = "human_queue")
  BY <1>2, <1>3
<1>6. EffectiveEntry(class, EmptyPolicy) =
        [row0 EXCEPT !.token = token, !.tokenOnly = disabled, !.delay = delay, !.max = max, !.nudge = nudge]
  BY <1>1, <1>5 DEF EffectiveEntry
<1>7. token = row0.token /\ disabled = FALSE /\ max = row0.max
  BY <1>2, <1>3
<1> HIDE DEF token, disabled, delay, max, nudge
<1> QED
  BY <1>4, <1>6, <1>7

\* The table's own action, or the link for the saved token's charge, or nothing
\* automatic: with cls, token and reachable fixed, whatever the files hold.
Tighter(action, table) ==
  action \in {table} \cup TerminalActions \/ (action = "recovery_link" /\ table = "token_retry")

LEMMA DecideTightens ==
  ASSUME NEW cls, cls.class \in FailureClasses, NEW token, NEW reachable, NEW overrides
  PROVE  Tighter(Decide(cls, 1, token, reachable, overrides).action,
                 Decide(cls, 1, token, reachable, EmptyPolicy).action)
<1> DEFINE class == cls.class
           row0 == POLICY[class]
           e == EffectiveEntry(class, overrides)
           t == EffectiveEntry(class, EmptyPolicy)
           made == Decide(cls, 1, token, reachable, overrides).action
           table == Decide(cls, 1, token, reachable, EmptyPolicy).action
           uses(entry) == token /\ entry.token # None
           act(entry) == IF uses(entry) THEN entry.token ELSE entry.action
<1>1. CASE Uncertain(cls) \/ class \in PinnedToHuman
  <2>1. made = "human_queue"
    BY <1>1, DecidedByAPerson
  <2> QED
    BY <2>1 DEF Tighter, TerminalActions
<1>2. CASE ~Uncertain(cls) /\ class \notin PinnedToHuman
  <2>1. /\ row0.action \in LinkActions /\ row0.token \in {None, "token_retry"} /\ row0.max \in 1..3
        /\ row0.token = "token_retry" => row0.action = "recovery_link"
    BY <1>2, PolicyRows
  <2>2. t.action = row0.action /\ t.token = row0.token /\ t.max = row0.max /\ t.tokenOnly = FALSE
    BY <1>2, TableRow
  <2>3. e.action = "human_queue" \/ (e.action = row0.action /\ e.token \in {None, row0.token})
    BY <1>2, EffectiveRow
  <2>4. row0.action \notin TerminalActions
    BY <2>1 DEF LinkActions, TerminalActions
  <2> HIDE DEF e, t, row0
  <2>5. ~(1 > t.max)
    BY <2>1, <2>2
  <2>6. table = IF act(t) \in LinkActions /\ ~reachable THEN "human_queue" ELSE act(t)
    BY <1>2, <2>2, <2>4, <2>5 DEF Decide, Decision, ToAPerson, t
  <2>7. made \in {"human_queue", "no_action"} \/ (e.action \notin TerminalActions /\ made = act(e) /\ ~(act(e) \in LinkActions /\ ~reachable))
    BY <1>2 DEF Decide, Decision, ToAPerson, TerminalActions, e
  <2>8. CASE made \in {"human_queue", "no_action"}
    BY <2>8 DEF Tighter, TerminalActions
  <2>9. CASE e.action \notin TerminalActions /\ made = act(e) /\ ~(act(e) \in LinkActions /\ ~reachable)
    <3>1. e.action = row0.action /\ e.token \in {None, row0.token}
      BY <2>3, <2>9 DEF TerminalActions
    <3>2. CASE uses(e)
      <4>1. e.token = row0.token /\ row0.token = "token_retry" /\ uses(t) /\ act(t) = "token_retry"
        BY <2>1, <2>2, <3>1, <3>2
      <4>2. made = "token_retry" /\ table = "token_retry"
        BY <2>6, <2>9, <3>2, <4>1 DEF LinkActions
      <4> QED
        BY <4>2 DEF Tighter
    <3>3. CASE ~uses(e)
      <4>1. made = row0.action /\ made \in LinkActions /\ reachable
        BY <2>1, <2>9, <3>1, <3>3
      <4>2. CASE uses(t)
        <5>1. row0.token = "token_retry" /\ act(t) = "token_retry"
          BY <2>1, <2>2, <4>2
        <5>2. made = "recovery_link" /\ table = "token_retry"
          BY <2>1, <2>6, <4>1, <5>1 DEF LinkActions
        <5> QED
          BY <5>2 DEF Tighter
      <4>3. CASE ~uses(t)
        <5>1. table = row0.action
          BY <2>2, <2>6, <4>1, <4>3
        <5> QED
          BY <4>1, <5>1 DEF Tighter
      <4> QED
        BY <4>2, <4>3
    <3> QED
      BY <3>2, <3>3
  <2> QED
    BY <2>7, <2>8, <2>9
<1> QED
  BY <1>1, <1>2

\* What comes after the table keeps it that way.
LEMMA LaterTightens ==
  ASSUME NEW status, NEW class, NEW counts, NEW threshold, NEW table, NEW action, NEW delay, NEW max, NEW nudge,
         NEW decision, decision = Decision(action, delay, max, nudge), Tighter(decision.action, table),
         NEW subscribed, subscribed = SubscriptionOverride(status, class, decision),
         NEW judged, judged = HistoryOverride(class, counts, threshold, subscribed)
  PROVE  Tighter(judged.action, table) /\ (counts["RISK_BLOCKED"] > 0 => judged.action \in TerminalActions)
<1>1. subscribed.action \in {decision.action, "human_queue"} \/ (decision.action = "token_retry" /\ subscribed.action = "recovery_link")
  BY DEF SubscriptionOverride, Decision
<1>2. decision.action = "token_retry" => table = "token_retry"
  BY DEF Tighter, TerminalActions
<1>3. Tighter(subscribed.action, table)
  BY <1>1, <1>2 DEF Tighter, TerminalActions
<1>4. DOMAIN subscribed = {"action", "delay", "max", "nudge"}
  BY DEF SubscriptionOverride, Decision
<1>5. judged.action \in {subscribed.action, "human_queue"}
  BY <1>4 DEF HistoryOverride
<1>6. counts["RISK_BLOCKED"] > 0 => judged.action \in TerminalActions
  BY <1>4 DEF HistoryOverride, TerminalActions
<1> QED
  BY <1>3, <1>5, <1>6 DEF Tighter, TerminalActions

LEMMA DecideIsDecision ==
  ASSUME NEW cls, NEW token, NEW reachable, NEW overrides
  PROVE  \E action, delay, max, nudge : Decide(cls, 1, token, reachable, overrides) = Decision(action, delay, max, nudge)
BY DEF Decide, ToAPerson

-----------------------------------------------------------------------------
(* The customer's history. *)

\* A decision on record about another payment of the customer is counted.
LEMMA HistoryCounts ==
  ASSUME NEW S, decisions \in Seq(S), NEW p \in Payments, NEW i \in DOMAIN decisions,
         NEW class \in FailureClasses, decisions[i].class = class,
         decisions[i].payment \in Payments \ {p},
         Customer[decisions[i].payment] = Customer[p], Customer[p] # None,
         Merchant[decisions[i].payment] = Merchant[p],
         row[decisions[i].payment] # None, NEW now, InWindow(decisions[i].payment, now)
  PROVE  History(p, now)[class] > 0
<1> DEFINE T == {q \in Payments \ {p} :
                   /\ Customer[q] = Customer[p] /\ Customer[p] # None
                   /\ Merchant[q] = Merchant[p]
                   /\ row[q] # None /\ InWindow(q, now)
                   /\ \E k \in DOMAIN decisions : decisions[k].payment = q /\ decisions[k].class = class}
           about == [k \in DOMAIN decisions |-> decisions[k].payment]
           U == {about[k] : k \in DOMAIN decisions}
<1>1. DOMAIN decisions = 1..Len(decisions) /\ Len(decisions) \in Nat
  OBVIOUS
<1>2. IsFiniteSet(DOMAIN decisions)
  BY <1>1, FS_Interval
<1>3. about \in Surjection(DOMAIN decisions, U)
  BY DEF Surjection
<1>4. IsFiniteSet(U)
  BY <1>2, <1>3, FS_Surjection
<1>5. T \in SUBSET U
  OBVIOUS
<1>6. IsFiniteSet(T) /\ T # {}
  BY <1>4, <1>5, FS_Subset
<1>7. Cardinality(T) \in Nat /\ Cardinality(T) # 0
  BY <1>6, FS_CardinalityType, FS_EmptySet
<1>8. History(p, now)[class] = Cardinality(T)
  BY DEF History
<1> QED
  BY <1>7, <1>8

-----------------------------------------------------------------------------
(* Decisions only tighten, and a risk stops the customer's other payments.   *)

\* An event in hand was stored, and a stored row stays as it is.
Stored(p) == p \in Payments /\ row[p] # None

InHand(w) == wk[w].pc \in {"ask", "decide", "schedule"} => Stored(wk[w].event[1])

Tight(d) ==
  Tighter(d.action, Decide(Classified(d.class, d.source, d.sure), 1,
                           HasToken(d.payment), Reachable(d.payment), EmptyPolicy).action)

Stops(d, e) ==
  /\ d.payment # e.payment
  /\ d.class = "RISK_BLOCKED"
  /\ Customer[d.payment] = Customer[e.payment] /\ Customer[e.payment] # None
  /\ Merchant[d.payment] = Merchant[e.payment]
  /\ InWindow(d.payment, e.now)

TightInv ==
  /\ IInv
  /\ clock \in 0..MaxTime
  /\ DOMAIN row = Payments
  /\ \A w \in Processes : InHand(w)
  /\ \A i \in DOMAIN decisions : Stored(decisions[i].payment) /\ Tight(decisions[i])
  /\ \A i, j \in DOMAIN decisions :
       i < j /\ Stops(decisions[i], decisions[j]) => decisions[j].action \in TerminalActions

RowsStay == DOMAIN row' = Payments /\ \A p \in Payments : Stored(p) => row'[p] = row[p]

\* A step that decides nothing: a process at most moves, with a stored event.
LEMMA TightMoved ==
  ASSUME TightInv, IInv', RowsStay, UNCHANGED decisions, clock' \in 0..MaxTime,
         \A w \in Processes : wk'[w] = wk[w] \/ InHand(w)'
  PROVE  TightInv'
<1>1. ASSUME NEW p, Stored(p) PROVE Stored(p)' /\ (HasToken(p)' <=> HasToken(p))
  BY <1>1 DEF Stored, RowsStay, HasToken
<1>2. \A w \in Processes : InHand(w)'
  BY <1>1 DEF TightInv, InHand
<1>3. ASSUME NEW d, Stored(d.payment), Tight(d) PROVE Tight(d)'
  <2>1. row'[d.payment] = row[d.payment]
    BY <1>3 DEF RowsStay, Stored
  <2> QED
    BY <1>3, <2>1 DEF Tight, HasToken, Reachable
<1>4. \A i \in DOMAIN decisions : Stored(decisions[i].payment)' /\ Tight(decisions[i])'
  <2> TAKE i \in DOMAIN decisions
  <2>1. PICK d : d = decisions[i]
    OBVIOUS
  <2>2. Stored(d.payment) /\ Tight(d)
    BY <2>1 DEF TightInv
  <2>3. Stored(d.payment)' /\ Tight(d)'
    BY <1>1, <1>3, <2>2
  <2> QED
    BY <2>1, <2>3 DEF Stored, Tight, HasToken, Reachable
<1>5. ASSUME NEW i \in DOMAIN decisions', NEW j \in DOMAIN decisions', i < j, Stops(decisions[i], decisions[j])'
      PROVE  decisions'[j].action \in TerminalActions
  <2>1. row'[decisions[i].payment] = row[decisions[i].payment]
    BY <1>5 DEF TightInv, RowsStay, Stored
  <2>2. Stops(decisions[i], decisions[j])
    BY <1>5, <2>1 DEF Stops, InWindow
  <2> QED
    BY <1>5, <2>2 DEF TightInv
<1> QED
  BY <1>2, <1>4, <1>5 DEF TightInv, RowsStay

LEMMA ReceiveTight ==
  ASSUME TightInv, IInv', NEW w \in Processes, NEW e \in Events, Receive(w, e)
  PROVE  TightInv'
<1> DEFINE p == e[1]
<1>1. p \in Payments /\ DOMAIN row = Payments /\ DOMAIN wk = Processes
  BY IntakeAssumption DEF TightInv, IInv
<1>3. PICK at \in 0..clock :
        row' = [row EXCEPT ![p] = IF @ = None THEN Parsed(e, at) ELSE @] /\ UNCHANGED decisions
  BY DEF Receive
<1>2. Parsed(e, at) # None
  <2>1. e[2] \in Kinds /\ at \in 0..MaxTime
    BY <1>3, IntakeAssumption DEF TightInv
  <2>2. Parsed(e, at) \in [status : Kinds, token : BOOLEAN, failedAt : 0..MaxTime]
    BY <2>1 DEF Parsed, ParsedFailure, ParsedSubscription, Kinds
  <2> QED
    BY <2>2, IntakeAssumption
<1>4. RowsStay /\ Stored(p)'
  BY <1>1, <1>2, <1>3 DEF RowsStay, Stored
<1>5. wk'[w].event = e /\ \A v \in Processes \ {w} : wk'[v] = wk[v]
  <2>1. CASE ClassOf[p] = "UNKNOWN"
    <3>1. wk' = [wk EXCEPT ![w] = [pc |-> "ask", event |-> e, now |-> clock, asked |-> 0]]
      BY <2>1 DEF Receive, Goto
    <3> QED
      BY <1>1, <3>1
  <2>2. CASE ClassOf[p] # "UNKNOWN"
    <3>1. wk' = [wk EXCEPT ![w] = [pc |-> "decide", event |-> e, now |-> clock,
                                   cls |-> Classified(ClassOf[p], "rules", TRUE)]]
      BY <2>2 DEF Receive, Goto
    <3> QED
      BY <1>1, <3>1
  <2> QED
    BY <2>1, <2>2
<1>6. \A v \in Processes : wk'[v] = wk[v] \/ InHand(v)'
  BY <1>1, <1>4, <1>5 DEF InHand, Stored
<1>7. clock' \in 0..MaxTime
  BY DEF Receive, TightInv
<1> QED
  BY <1>3, <1>4, <1>6, <1>7, TightMoved

\* The event in hand stays in hand, or is let go.
LEMMA HandTight ==
  ASSUME TightInv, IInv', NEW w \in Processes, NEW x, Goto(w, x), UNCHANGED <<row, decisions, clock>>,
         x.pc = "idle" \/ (x.event = wk[w].event /\ wk[w].pc \in {"ask", "decide", "schedule"})
  PROVE  TightInv'
<1>1. RowsStay
  BY DEF RowsStay, TightInv
<1>2. wk'[w] = x /\ \A v \in Processes \ {w} : wk'[v] = wk[v]
  BY DEF Goto, TightInv, IInv
<1>3. InHand(w)' /\ clock' \in 0..MaxTime
  BY <1>2 DEF InHand, TightInv, Stored
<1> QED
  BY <1>1, <1>2, <1>3, TightMoved

LEMMA AskTight ==
  ASSUME TightInv, IInv', NEW w \in Processes, AskModel(w)
  PROVE  TightInv'
<1>1. wk[w].pc = "ask" /\ UNCHANGED <<row, decisions, clock>>
  BY DEF AskModel
<1>2. \/ \E cls : Goto(w, [pc |-> "decide", event |-> wk[w].event, now |-> wk[w].now, cls |-> cls])
      \/ Goto(w, [wk[w] EXCEPT !.asked = 1])
  BY DEF AskModel
<1>3. PICK x : Goto(w, x) /\ x.event = wk[w].event
  <2>1. CASE Goto(w, [wk[w] EXCEPT !.asked = 1])
    <3>1. [wk[w] EXCEPT !.asked = 1].event = wk[w].event
      OBVIOUS
    <3> QED
      BY <2>1, <3>1
  <2>2. ASSUME NEW cls, Goto(w, [pc |-> "decide", event |-> wk[w].event, now |-> wk[w].now, cls |-> cls])
        PROVE  \E x : Goto(w, x) /\ x.event = wk[w].event
    <3>1. [pc |-> "decide", event |-> wk[w].event, now |-> wk[w].now, cls |-> cls].event = wk[w].event
      OBVIOUS
    <3> QED
      BY <2>2, <3>1
  <2> QED
    BY <1>2, <2>1, <2>2
<1> QED
  BY <1>1, <1>3, HandTight

LEMMA RecordTight ==
  ASSUME TightInv, IInv', NEW w \in Processes, RecordDecision(w)
  PROVE  TightInv'
<1> DEFINE p == wk[w].event[1]
           cls == wk[w].cls
           now == wk[w].now
           n == Len(decisions)
<1>1. /\ Stored(p) /\ cls.class \in FailureClasses /\ wk[w].pc = "decide" /\ UNCHANGED <<row, clock>>
      /\ DOMAIN wk = Processes
  BY DEF RecordDecision, TightInv, InHand, IInv, Handling, Named
<1>2. PICK overrides, table, subscribed, judged :
        /\ table = Decide(cls, 1, HasToken(p), Reachable(p), overrides)
        /\ subscribed = SubscriptionOverride(row[p].status, cls.class, table)
        /\ judged = HistoryOverride(cls.class, History(p, now), Threshold, subscribed)
        /\ decisions' = Append(decisions,
             [payment |-> p, now |-> now, class |-> cls.class, source |-> cls.source, sure |-> cls.sure,
              action |-> judged.action, delay |-> judged.delay, max |-> judged.max,
              offer |-> FirstOffer(cls.class, History(p, now), Threshold, p \in Large, judged.action)])
  BY DEF RecordDecision
<1>3. PICK made :
        /\ made = [payment |-> p, now |-> now, class |-> cls.class, source |-> cls.source, sure |-> cls.sure,
                   action |-> judged.action, delay |-> judged.delay, max |-> judged.max,
                   offer |-> FirstOffer(cls.class, History(p, now), Threshold, p \in Large, judged.action)]
        /\ decisions' = Append(decisions, made)
  BY <1>2
<1>4. /\ made.payment = p /\ made.class = cls.class /\ made.source = cls.source /\ made.sure = cls.sure
      /\ made.now = now
      /\ made.action = judged.action
  BY <1>3
<1>5. PICK plain : plain = Decide(cls, 1, HasToken(p), Reachable(p), EmptyPolicy).action
  OBVIOUS
<1>6. Tighter(table.action, plain)
  BY <1>1, <1>2, <1>5, DecideTightens
<1>7. PICK action, delay, max, nudge : table = Decision(action, delay, max, nudge)
  <2>1. \E action, delay, max, nudge :
          Decide(cls, 1, HasToken(p), Reachable(p), overrides) = Decision(action, delay, max, nudge)
    BY DecideIsDecision
  <2> QED
    BY <1>2, <2>1
<1>8. Tighter(judged.action, plain) /\ (History(p, now)["RISK_BLOCKED"] > 0 => judged.action \in TerminalActions)
  BY <1>2, <1>6, <1>7, LaterTightens
<1>9. /\ decisions \in Seq({decisions[i] : i \in DOMAIN decisions}) /\ n \in Nat
      /\ DOMAIN decisions = 1..n /\ DOMAIN decisions' = 1..(n + 1)
      /\ decisions'[n + 1] = made /\ \A i \in 1..n : decisions'[i] = decisions[i]
  <2>1. decisions \in Seq({decisions[i] : i \in DOMAIN decisions})
    BY DEF TightInv, IInv, Recorded
  <2> QED
    BY <1>3, <2>1
<1>10. Tight(made)
  <2>1. plain = Decide(Classified(cls.class, cls.source, cls.sure), 1, HasToken(p), Reachable(p), EmptyPolicy).action
    BY <1>5 DEF Decide, Uncertain, Classified
  <2> QED
    BY <1>4, <1>8, <2>1 DEF Tight
<1>11. ASSUME NEW d, Stored(d.payment) /\ Tight(d) PROVE Stored(d.payment)' /\ Tight(d)'
  BY <1>1, <1>11 DEF Stored, Tight, HasToken, Reachable
<1>12. \A i \in DOMAIN decisions' : Stored(decisions[i].payment)' /\ Tight(decisions[i])'
  <2> TAKE i \in DOMAIN decisions'
  <2>1. PICK d : d = decisions'[i]
    OBVIOUS
  <2>2. Stored(d.payment) /\ Tight(d)
    <3>1. CASE i = n + 1
      BY <1>1, <1>4, <1>9, <1>10, <2>1, <3>1
    <3>2. CASE i \in 1..n
      BY <1>9, <2>1, <3>2 DEF TightInv
    <3> QED
      BY <1>9, <3>1, <3>2
  <2>3. Stored(d.payment)' /\ Tight(d)'
    BY <1>11, <2>2
  <2> QED
    BY <2>1, <2>3 DEF Stored, Tight, HasToken, Reachable
<1>13. ASSUME NEW i \in DOMAIN decisions', NEW j \in DOMAIN decisions', i < j,
              Stops(decisions'[i], decisions'[j])
       PROVE  decisions'[j].action \in TerminalActions
  <2>1. i \in 1..n /\ decisions'[i] = decisions[i]
    BY <1>9, <1>13
  <2>2. CASE j \in 1..n
    BY <1>9, <1>13, <2>1, <2>2 DEF TightInv
  <2>3. CASE j = n + 1
    <3>1. decisions'[j] = made
      BY <1>9, <2>3
    <3>2. /\ decisions[i].class = "RISK_BLOCKED" /\ decisions[i].payment # p /\ Customer[p] # None
          /\ Customer[decisions[i].payment] = Customer[p] /\ Merchant[decisions[i].payment] = Merchant[p]
          /\ InWindow(decisions[i].payment, now)
      BY <1>4, <1>13, <2>1, <3>1 DEF Stops
    <3>3. decisions[i].payment \in Payments /\ p \in Payments /\ row[decisions[i].payment] # None
      BY <1>1, <1>9, <2>1 DEF TightInv, Stored
    <3>4. "RISK_BLOCKED" \in FailureClasses
      BY DEF FailureClasses
    <3>5. History(p, now)["RISK_BLOCKED"] > 0
      BY <1>9, <2>1, <3>2, <3>3, <3>4, HistoryCounts
    <3> QED
      BY <1>4, <1>8, <3>1, <3>5
  <2> QED
    BY <1>9, <2>2, <2>3
<1>14. \A v \in Processes : InHand(v)'
  <2>1. wk' = [wk EXCEPT ![w] = [pc |-> "schedule", event |-> wk[w].event, decision |-> n + 1]]
    BY DEF RecordDecision, Goto
  <2> QED
    BY <1>1, <2>1 DEF InHand, TightInv, Stored
<1>15. \A d, e : Stops(d, e)' <=> Stops(d, e)
  BY <1>1 DEF Stops, InWindow
<1>16. \A i, j \in DOMAIN decisions' :
         i < j /\ Stops(decisions[i], decisions[j])' => decisions'[j].action \in TerminalActions
  <2> SUFFICES ASSUME NEW i \in DOMAIN decisions', NEW j \in DOMAIN decisions', i < j,
                      Stops(decisions[i], decisions[j])'
               PROVE  decisions'[j].action \in TerminalActions
    OBVIOUS
  <2>1. PICK d, e : d = decisions'[i] /\ e = decisions'[j]
    OBVIOUS
  <2>2. Stops(d, e)'
    BY <2>1 DEF Stops, InWindow
  <2>3. Stops(d, e)
    BY <1>15, <2>2
  <2> QED
    BY <1>13, <2>1, <2>3
<1> QED
  BY <1>1, <1>12, <1>14, <1>16 DEF TightInv

LEMMA TightInit == ASSUME IInit PROVE TightInv
<1>1. IInv
  BY IntakeInit
<1>2. DOMAIN row = Payments /\ \A w \in Processes : wk[w].pc = "idle"
  BY DEF IInit, Idle
<1>0. clock \in 0..MaxTime
  BY IntakeAssumption DEF IInit
<1>3. DOMAIN decisions = {}
  BY DEF IInit
<1> QED
  BY <1>0, <1>1, <1>2, <1>3 DEF TightInv, InHand

LEMMA TightStep == ASSUME TightInv, [INext]_ivars PROVE TightInv'
<1>1. IInv'
  BY IntakeStep DEF TightInv
<1>2. CASE UNCHANGED pvars
  <2>1. UNCHANGED <<row, decisions, wk, clock>>
    BY <1>2 DEF pvars
  <2>2. RowsStay /\ clock' \in 0..MaxTime
    BY <2>1 DEF RowsStay, TightInv
  <2> QED
    BY <1>1, <2>1, <2>2, TightMoved
<1>10. CASE Tick
  <2>1. UNCHANGED <<row, decisions, wk>> /\ clock' \in 0..MaxTime
    BY <1>10, IntakeAssumption DEF Tick, TightInv
  <2>2. RowsStay
    BY <2>1 DEF RowsStay, TightInv
  <2> QED
    BY <1>1, <2>1, <2>2, TightMoved
<1>3. ASSUME NEW w \in Processes, NEW e \in Events, Receive(w, e) PROVE TightInv'
  BY <1>1, <1>3, ReceiveTight
<1>4. ASSUME NEW w \in Processes, AskModel(w) PROVE TightInv'
  BY <1>1, <1>4, AskTight
<1>5. ASSUME NEW w \in Processes, RecordDecision(w) PROVE TightInv'
  BY <1>1, <1>5, RecordTight
<1>6. ASSUME NEW w \in Processes, CreateJob(w) \/ Refuse(w) PROVE TightInv'
  <2>1. Goto(w, Idle) /\ UNCHANGED <<row, decisions, clock>>
    BY <1>6 DEF CreateJob, Refuse
  <2>2. Idle.pc = "idle"
    BY DEF Idle
  <2> QED
    BY <1>1, <2>1, <2>2, HandTight
<1>7. ASSUME NEW w \in Processes, Restart(w) PROVE UNCHANGED pvars
  BY <1>7 DEF Restart
<1>8. UNCHANGED ivars => UNCHANGED pvars
  BY DEF ivars
<1>9. CASE INext
  <2>1. CASE \E w \in Processes : (\E e \in Events : Receive(w, e)) \/ Process(w) \/ Refuse(w) \/ Restart(w)
    BY <1>2, <1>3, <1>4, <1>5, <1>6, <1>7, <2>1 DEF Process
  <2>2. CASE (\E c \in Clerks : Clerk(c) /\ UNCHANGED pvars) \/ (HandEdit /\ UNCHANGED pvars)
    BY <1>2, <2>2
  <2> QED
    BY <1>9, <1>10, <2>1, <2>2 DEF INext
<1> QED
  BY <1>2, <1>8, <1>9

LEMMA TightInvariant == ISpec => []TightInv
<1> QED
  BY TightInit, TightStep, PTL DEF ISpec

\* Whatever the merchants' files, the subscription and the customer's history
\* say, a decision takes the table's action, gives it up, or sends a link where
\* the table would have charged the token (effective_entry and decide of
\* policy.py, history_override of offers.py).
THEOREM OverridesTighten == ISpec => []DecisionsOnlyTighten
<1>1. TightInv => DecisionsOnlyTighten
  BY DEF TightInv, Tight, Tighter, DecisionsOnlyTighten
<1> QED
  BY <1>1, TightInvariant, PTL

\* Once a customer's failure is judged a risk, no process decides anything
\* automatic for that customer's other payments at that merchant, as long as it
\* lies in the window customer_history counts, which ends when an event begins.
THEOREM RiskStopsCustomer == ISpec => []RepeatRiskStops
<1>1. TightInv => RepeatRiskStops
  BY DEF TightInv, Stops, InWindow, RepeatRiskStops
<1> QED
  BY <1>1, TightInvariant, PTL

-----------------------------------------------------------------------------
(* The override files: what is written, lost and rolled back by clerks that  *)
(* take no lock.                                                            *)

\* A sequence, whatever it is of.
IsSeq(s) == s \in Seq({s[i] : i \in DOMAIN s})

PolicyOK(policy) ==
  /\ DOMAIN policy = {"classes", "disabled", "humanAll"}
  /\ DOMAIN policy.classes = FailureClasses
  /\ ValidPolicy(policy)

\* A file: a policy the schema accepts, and writes that can be undone with one.
ContentOK(content) ==
  /\ DOMAIN content = {"policy", "history"}
  /\ PolicyOK(content.policy)
  /\ IsSeq(content.history)
  /\ \A i \in DOMAIN content.history :
       /\ content.history[i].class \in FailureClasses
       /\ ValidOverride(content.history[i].class, content.history[i].previous)

DraftOK(d) ==
  /\ d.kind \in {"none", "apply", "rollback"}
  /\ d.kind = "none" => d = NoDraft
  /\ d.kind # "none" => /\ d.file \in Files /\ d.class \in FailureClasses
                        /\ ContentOK(d.seen) /\ Len(d.seen.history) < begun
  /\ d.kind = "rollback" => WritesOf(d.seen.history, d.class) # {}

FilesTyped ==
  /\ begun \in Nat
  /\ DOMAIN files = Files /\ \A f \in Files : ContentOK(files[f]) /\ Len(files[f].history) <= begun
  /\ DOMAIN registry = Processes /\ \A w \in Processes, f \in Files : PolicyOK(registry[w][f])
  /\ DOMAIN draft = Clerks /\ \A c \in Clerks : DraftOK(draft[c])

(* A non-empty set of indices has a largest one: take the member with the    *)
(* fewest members above it.                                                 *)
LEMMA LastIndex ==
  ASSUME NEW n \in Nat, NEW T \in SUBSET (1..n), T # {}
  PROVE  \E i \in T : \A j \in T : j <= i
<1> DEFINE Above(i) == {j \in T : j > i}
           F == {Above(i) : i \in T}
<1>1. IsFiniteSet(T)
  <2>1. IsFiniteSet(1..n)
    BY FS_Interval, 1 \in Int, n \in Int
  <2> QED
    BY <2>1, FS_Subset
<1>2. \A i \in T : Above(i) \in FiniteSubsetsOf(T)
  BY <1>1, FS_Subset DEF FiniteSubsetsOf
<1>3. PICK U \in F : \A V \in F : ~(<<V, U>> \in StrictSubsetOrdering(T))
  <2>1. F \subseteq FiniteSubsetsOf(T) /\ F # {}
    BY <1>2
  <2> QED
    BY <2>1, FS_StrictSubsetOrderingWellFounded, WFMin
<1>4. PICK i \in T : U = Above(i)
  OBVIOUS
<1>5. ASSUME NEW j \in T, j > i PROVE FALSE
  <2>1. Above(j) \subseteq Above(i) /\ j \in Above(i) /\ j \notin Above(j)
    <3>1. T \subseteq Nat
      OBVIOUS
    <3>2. \A k \in T : k > j => k > i
      BY <1>5, <3>1
    <3>3. ~(j > j)
      BY <3>1
    <3> QED
      BY <1>5, <3>2, <3>3
  <2>2. <<Above(j), U>> \in StrictSubsetOrdering(T)
    BY <1>4, <2>1 DEF StrictSubsetOrdering
  <2> QED
    BY <1>3, <2>2
<1> QED
  BY <1>5

\* What rollback_override undoes is a write of the class, and its last one.
LEMMA LastWriteIsLast ==
  ASSUME NEW history, IsSeq(history), NEW class, WritesOf(history, class) # {}
  PROVE  /\ LastWrite(history, class) \in WritesOf(history, class)
         /\ \A j \in WritesOf(history, class) : j <= LastWrite(history, class)
<1>1. Len(history) \in Nat /\ WritesOf(history, class) \in SUBSET (1..Len(history))
  BY DEF IsSeq, WritesOf
<1>2. \E i \in WritesOf(history, class) : \A j \in WritesOf(history, class) : j <= i
  BY <1>1, LastIndex
<1> QED
  BY <1>2 DEF LastWrite

LEMMA SomeSeq == ASSUME NEW S, NEW s \in Seq(S) PROVE IsSeq(s)
<1>1. \A i \in 1..Len(s) : s[i] \in {s[k] : k \in DOMAIN s}
  OBVIOUS
<1> QED
  BY <1>1 DEF IsSeq

LEMMA TrailLength ==
  ASSUME NEW content, ContentOK(content)
  PROVE  Len(content.history) \in Nat /\ DOMAIN content.history = 1..Len(content.history)
<1>1. content.history \in Seq({content.history[i] : i \in DOMAIN content.history})
  BY DEF ContentOK, IsSeq
<1> QED
  BY <1>1

LEMMA AppendAt ==
  ASSUME NEW s, IsSeq(s), NEW x
  PROVE  /\ IsSeq(Append(s, x)) /\ Len(s) \in Nat /\ Len(Append(s, x)) = Len(s) + 1
         /\ DOMAIN s = 1..Len(s) /\ DOMAIN Append(s, x) = 1..(Len(s) + 1)
         /\ \A i \in 1..Len(s) : Append(s, x)[i] = s[i]
         /\ Append(s, x)[Len(s) + 1] = x
<1> DEFINE old == {s[i] : i \in DOMAIN s}
           t == Append(s, x)
<1>1. s \in Seq(old)
  BY DEF IsSeq
<1>2. t \in Seq(old \cup {x}) /\ Len(t) = Len(s) + 1 /\ Len(s) \in Nat /\ \A i \in 1..Len(s) : t[i] = s[i]
  BY <1>1
<1>3. IsSeq(t)
  BY <1>2, SomeSeq
<1> QED
  BY <1>1, <1>2, <1>3

LEMMA WithoutAt ==
  ASSUME NEW s, IsSeq(s), NEW i \in DOMAIN s
  PROVE  /\ IsSeq(Without(s, i)) /\ Len(s) \in Nat /\ DOMAIN s = 1..Len(s)
         /\ Len(Without(s, i)) = Len(s) - 1 /\ DOMAIN Without(s, i) = 1..(Len(s) - 1)
         /\ \A k \in 1..(Len(s) - 1) : Without(s, i)[k] = s[IF k < i THEN k ELSE k + 1]
<1> DEFINE old == {s[k] : k \in DOMAIN s}
           a == SubSeq(s, 1, i - 1)
           b == SubSeq(s, i + 1, Len(s))
           t == a \o b
<1>1. s \in Seq(old) /\ Len(s) \in Nat /\ i \in 1..Len(s) /\ DOMAIN s = 1..Len(s)
  BY DEF IsSeq
<1> HIDE DEF old
<1>2. a \in Seq(old) /\ Len(a) = i - 1 /\ \A k \in 1..(i - 1) : a[k] = s[k]
  BY <1>1
<1>3. b \in Seq(old) /\ Len(b) = Len(s) - i /\ \A k \in 1..(Len(s) - i) : b[k] = s[k + i]
  BY <1>1
<1> HIDE DEF a, b
<1>4. /\ t \in Seq(old) /\ Len(t) = Len(s) - 1
      /\ \A k \in 1..(Len(s) - 1) : t[k] = IF k <= i - 1 THEN a[k] ELSE b[k - (i - 1)]
  <2>1. /\ t \in Seq(old) /\ Len(t) = Len(a) + Len(b)
        /\ \A k \in 1..(Len(a) + Len(b)) : t[k] = IF k <= Len(a) THEN a[k] ELSE b[k - Len(a)]
    BY <1>2, <1>3, ConcatProperties
  <2>2. Len(a) + Len(b) = Len(s) - 1 /\ Len(a) = i - 1
    BY <1>1, <1>2, <1>3
  <2> QED
    BY <2>1, <2>2
<1> HIDE DEF t
<1>5. ASSUME NEW k \in 1..(Len(s) - 1) PROVE t[k] = s[IF k < i THEN k ELSE k + 1]
  <2>1. CASE k < i
    <3>1. k \in 1..(i - 1) /\ k <= i - 1
      BY <1>1, <2>1
    <3> QED
      BY <1>2, <1>4, <2>1, <3>1
  <2>2. CASE ~(k < i)
    <3>0. ~(k <= i - 1) /\ k - (i - 1) \in 1..(Len(s) - i)
      BY <1>1, <2>2
    <3>1. t[k] = b[k - (i - 1)] /\ k - (i - 1) \in 1..(Len(s) - i)
      BY <1>4, <3>0
    <3>2. b[k - (i - 1)] = s[(k - (i - 1)) + i]
      BY <1>3, <3>1
    <3>3. (k - (i - 1)) + i = k + 1
      BY <1>1
    <3> QED
      BY <2>2, <3>1, <3>2, <3>3
  <2> QED
    BY <2>1, <2>2
<1>6. IsSeq(t)
  BY <1>4, SomeSeq
<1>7. Without(s, i) = t
  BY DEF Without, a, b, t
<1>8. DOMAIN t = 1..(Len(s) - 1)
  BY <1>4
<1> QED
  BY <1>1, <1>4, <1>5, <1>6, <1>7, <1>8

-----------------------------------------------------------------------------
(* Every file, reading and draft is of its kind. *)

\* A class entry and the trail replaced by ones of their kind.
LEMMA EntryReplaced ==
  ASSUME NEW content, ContentOK(content), NEW class \in FailureClasses, NEW override, ValidOverride(class, override),
         NEW history, IsSeq(history),
         \A i \in DOMAIN history :
           history[i].class \in FailureClasses /\ ValidOverride(history[i].class, history[i].previous)
  PROVE  ContentOK(WithEntry(content, class, override, history))
<1> DEFINE new == WithEntry(content, class, override, history)
<1>1. /\ DOMAIN new = {"policy", "history"} /\ new.history = history
      /\ DOMAIN new.policy = {"classes", "disabled", "humanAll"}
      /\ DOMAIN new.policy.classes = FailureClasses
      /\ new.policy.disabled = content.policy.disabled /\ new.policy.humanAll = content.policy.humanAll
      /\ \A k \in FailureClasses :
           new.policy.classes[k] = IF k = class THEN override ELSE content.policy.classes[k]
  BY DEF WithEntry, ContentOK, PolicyOK
<1> HIDE DEF new
<1>2. PolicyOK(new.policy)
  BY <1>1 DEF ContentOK, PolicyOK, ValidPolicy
<1> QED
  BY <1>1, <1>2 DEF ContentOK, new

\* What a write of the command line or the web makes of the file it read.
LEMMA WrittenOK ==
  ASSUME NEW d, ContentOK(d.seen), d.class \in FailureClasses, ValidPolicy(Written(d).policy)
  PROVE  ContentOK(Written(d)) /\ Len(Written(d).history) = Len(d.seen.history) + 1
<1> DEFINE previous == d.seen.policy.classes[d.class]
           entry == [class |-> d.class, fields |-> d.fields, previous |-> previous]
           history == Append(d.seen.history, entry)
           override == LayerFields(d.fields, previous)
<1>1. Written(d) = WithEntry(d.seen, d.class, override, history)
  BY DEF Written
<1>2. ValidOverride(d.class, previous)
  BY DEF ContentOK, PolicyOK, ValidPolicy
<1>3. Written(d).policy.classes[d.class] = override /\ Written(d).history = history
  BY <1>1 DEF WithEntry, ContentOK, PolicyOK
<1>4. ValidOverride(d.class, override)
  BY <1>3 DEF ValidPolicy
<1>5. /\ IsSeq(history) /\ Len(history) = Len(d.seen.history) + 1
      /\ DOMAIN history = 1..(Len(d.seen.history) + 1) /\ history[Len(d.seen.history) + 1] = entry
      /\ DOMAIN d.seen.history = 1..Len(d.seen.history) /\ Len(d.seen.history) \in Nat
      /\ \A i \in 1..Len(d.seen.history) : history[i] = d.seen.history[i]
  BY AppendAt DEF ContentOK
<1>6. entry.class = d.class /\ entry.previous = previous
  OBVIOUS
<1> HIDE DEF history, entry, override, previous
<1>7. \A i \in DOMAIN history :
        history[i].class \in FailureClasses /\ ValidOverride(history[i].class, history[i].previous)
  BY <1>2, <1>5, <1>6 DEF ContentOK
<1> QED
  BY <1>1, <1>3, <1>4, <1>5, <1>7, EntryReplaced

RolledBack(d) ==
  WithEntry(d.seen, d.class, d.seen.history[LastWrite(d.seen.history, d.class)].previous,
            Without(d.seen.history, LastWrite(d.seen.history, d.class)))

LEMMA RolledBackOK ==
  ASSUME NEW d, ContentOK(d.seen), d.class \in FailureClasses, WritesOf(d.seen.history, d.class) # {}
  PROVE  ContentOK(RolledBack(d)) /\ Len(RolledBack(d).history) = Len(d.seen.history) - 1
<1> DEFINE old == d.seen.history
           last == LastWrite(old, d.class)
           history == Without(old, last)
<1>1. last \in DOMAIN old /\ old[last].class = d.class
  BY LastWriteIsLast DEF ContentOK, WritesOf
<1>2. ValidOverride(d.class, old[last].previous)
  BY <1>1 DEF ContentOK
<1> HIDE DEF last
<1>3. /\ IsSeq(history) /\ Len(old) \in Nat /\ DOMAIN old = 1..Len(old)
      /\ Len(history) = Len(old) - 1 /\ DOMAIN history = 1..(Len(old) - 1)
      /\ \A k \in 1..(Len(old) - 1) : history[k] = old[IF k < last THEN k ELSE k + 1]
  BY <1>1, WithoutAt DEF ContentOK
<1>4. \A i \in DOMAIN history :
        history[i].class \in FailureClasses /\ ValidOverride(history[i].class, history[i].previous)
  BY <1>3 DEF ContentOK
<1>5. RolledBack(d) = WithEntry(d.seen, d.class, old[last].previous, history)
  BY DEF RolledBack, last
<1>6. RolledBack(d).history = history
  BY <1>5 DEF WithEntry
<1> QED
  BY <1>2, <1>3, <1>4, <1>5, <1>6, EntryReplaced

\* A file replaced and read back with all the others.
LEMMA ReplaceTyped ==
  ASSUME FilesTyped, NEW c \in Clerks, NEW f \in Files, NEW content, ContentOK(content), Len(content.history) <= begun,
         Replace(c, f, content), UNCHANGED begun
  PROVE  FilesTyped'
<1>1. files' = [files EXCEPT ![f] = content] /\ draft' = [draft EXCEPT ![c] = NoDraft]
  BY DEF Replace
<1>2. registry' = [registry EXCEPT ![Host[c]] = [g \in Files |-> IF g = f THEN content.policy ELSE files[g].policy]]
  <2>1. \A g \in Files : Read[g] = files[g].policy
    BY DEF Read
  <2> QED
    BY <2>1 DEF Replace
<1>3. DOMAIN files' = Files /\ \A g \in Files : ContentOK(files'[g]) /\ Len(files'[g].history) <= begun
  BY <1>1 DEF FilesTyped
<1>4. DOMAIN registry' = Processes /\ \A w \in Processes, g \in Files : PolicyOK(registry'[w][g])
  BY <1>2 DEF FilesTyped, ContentOK
<1>5. DOMAIN draft' = Clerks /\ \A k \in Clerks : draft'[k] = NoDraft \/ draft'[k] = draft[k]
  BY <1>1 DEF FilesTyped
<1>6. \A k \in Clerks : DraftOK(draft[k])'
  <2> TAKE k \in Clerks
  <2>1. DraftOK(draft[k]) /\ NoDraft.kind = "none"
    BY DEF FilesTyped, NoDraft
  <2>2. CASE draft'[k] = NoDraft
    BY <2>1, <2>2 DEF DraftOK
  <2>3. CASE draft'[k] = draft[k]
    BY <2>1, <2>3 DEF DraftOK
  <2> QED
    BY <1>5, <2>2, <2>3
<1> QED
  BY <1>3, <1>4, <1>5, <1>6 DEF FilesTyped

\* A clerk reads a file, to change it.
BeginDraft(c, f, d) ==
  /\ d.kind \in {"apply", "rollback"}
  /\ d.file = f /\ d.seen = files[f] /\ d.class \in FailureClasses
  /\ d.kind = "rollback" => WritesOf(files[f].history, d.class) # {}
  /\ draft' = [draft EXCEPT ![c] = d]
  /\ begun' = begun + 1
  /\ UNCHANGED <<files, registry>>

LEMMA BeginTyped ==
  ASSUME FilesTyped, NEW c \in Clerks, NEW f \in Files, NEW d, BeginDraft(c, f, d)
  PROVE  FilesTyped'
<1>0. /\ d.kind \in {"apply", "rollback"}
      /\ d.file = f /\ d.seen = files[f] /\ d.class \in FailureClasses
      /\ d.kind = "rollback" => WritesOf(files[f].history, d.class) # {}
      /\ draft' = [draft EXCEPT ![c] = d] /\ begun' = begun + 1 /\ UNCHANGED <<files, registry>>
  BY DEF BeginDraft
<1>1. Len(files[f].history) \in Nat /\ Len(files[f].history) < begun + 1 /\ begun + 1 \in Nat
  <2>1. ContentOK(files[f]) /\ Len(files[f].history) <= begun /\ begun \in Nat
    BY DEF FilesTyped
  <2> QED
    BY <2>1, TrailLength
<1>2. DraftOK(d)'
  BY <1>0, <1>1 DEF DraftOK, FilesTyped
<1>3. ASSUME NEW k \in Clerks, draft'[k] = draft[k] PROVE DraftOK(draft[k])'
  <2>1. DraftOK(draft[k]) /\ begun \in Nat /\ begun' = begun + 1
    BY <1>0 DEF FilesTyped
  <2>2. draft[k].kind # "none" => Len(draft[k].seen.history) \in Nat
    BY <2>1, TrailLength DEF DraftOK
  <2> QED
    BY <1>3, <2>1, <2>2 DEF DraftOK
<1>4. \A k \in Clerks : DraftOK(draft[k])'
  BY <1>0, <1>2, <1>3 DEF FilesTyped
<1>5. \A g \in Files : Len(files[g].history) \in Nat /\ Len(files[g].history) <= begun + 1
  BY TrailLength DEF FilesTyped
<1> QED
  BY <1>0, <1>1, <1>4, <1>5 DEF FilesTyped

LEMMA ClerkTyped ==
  ASSUME FilesTyped, NEW c \in Clerks, Clerk(c)
  PROVE  FilesTyped'
<1>0. Tuned \subseteq FailureClasses
  BY OverridesAssumption
<1>1. ASSUME NEW f \in Files, BeginApply(c, f) PROVE FilesTyped'
  <2>1. PICK class, fields, backed :
          class \in Tuned /\ draft' = [draft EXCEPT ![c] = [kind |-> "apply", file |-> f, class |-> class, seen |-> files[f],
                                                           fields |-> fields, backed |-> backed]]
    BY <1>1 DEF BeginApply
  <2>2. begun' = begun + 1 /\ UNCHANGED <<files, registry>>
    BY <1>1 DEF BeginApply
  <2>3. BeginDraft(c, f, [kind |-> "apply", file |-> f, class |-> class, seen |-> files[f],
                          fields |-> fields, backed |-> backed])
    BY <1>0, <2>1, <2>2 DEF BeginDraft
  <2>4. PICK d : BeginDraft(c, f, d)
    BY <2>3
  <2> QED
    BY <2>4, BeginTyped
<1>2. ASSUME NEW f \in Files, NEW class \in Tuned, BeginRollback(c, f, class) PROVE FilesTyped'
  <2>1. BeginDraft(c, f, [kind |-> "rollback", file |-> f, class |-> class, seen |-> files[f]])
    BY <1>0, <1>2 DEF BeginRollback, BeginDraft
  <2>2. PICK d : BeginDraft(c, f, d)
    BY <2>1
  <2> QED
    BY <2>2, BeginTyped
<1>3. ASSUME CommitApply(c) PROVE FilesTyped'
  <2>1. /\ draft[c].kind = "apply" /\ DraftOK(draft[c]) /\ begun \in Nat /\ UNCHANGED begun
        /\ draft[c].file \in Files /\ draft[c].class \in FailureClasses /\ ContentOK(draft[c].seen)
        /\ Len(draft[c].seen.history) \in Nat /\ Len(draft[c].seen.history) < begun
    BY <1>3, TrailLength DEF CommitApply, FilesTyped, DraftOK
  <2>2. CASE ValidPolicy(Written(draft[c]).policy)
    <3>1. Replace(c, draft[c].file, Written(draft[c]))
      BY <1>3, <2>2 DEF CommitApply
    <3>2. ContentOK(Written(draft[c])) /\ Len(Written(draft[c]).history) = Len(draft[c].seen.history) + 1
      BY <2>1, <2>2, WrittenOK
    <3>3. Len(Written(draft[c]).history) <= begun
      BY <2>1, <3>2
    <3> QED
      BY <2>1, <3>1, <3>2, <3>3, ReplaceTyped
  <2>3. CASE ~ValidPolicy(Written(draft[c]).policy)
    <3>1. draft' = [draft EXCEPT ![c] = NoDraft] /\ UNCHANGED <<files, registry, begun>>
      BY <1>3, <2>3 DEF CommitApply
    <3>2. \A k \in Clerks : DraftOK(draft[k])'
      BY <3>1 DEF FilesTyped, DraftOK, NoDraft
    <3> QED
      BY <3>1, <3>2 DEF FilesTyped
  <2> QED
    BY <2>2, <2>3
<1>4. ASSUME CommitRollback(c) PROVE FilesTyped'
  <2>1. /\ draft[c].kind = "rollback" /\ DraftOK(draft[c]) /\ begun \in Nat /\ UNCHANGED begun
        /\ draft[c].file \in Files /\ draft[c].class \in FailureClasses /\ ContentOK(draft[c].seen)
        /\ Len(draft[c].seen.history) \in Nat /\ Len(draft[c].seen.history) < begun
        /\ WritesOf(draft[c].seen.history, draft[c].class) # {}
    BY <1>4, TrailLength DEF CommitRollback, FilesTyped, DraftOK
  <2>2. Replace(c, draft[c].file, RolledBack(draft[c]))
    BY <1>4 DEF CommitRollback, RolledBack
  <2>3. ContentOK(RolledBack(draft[c])) /\ Len(RolledBack(draft[c]).history) = Len(draft[c].seen.history) - 1
    BY <2>1, RolledBackOK
  <2>4. Len(RolledBack(draft[c]).history) <= begun
    BY <2>1, <2>3
  <2> QED
    BY <2>1, <2>2, <2>3, <2>4, ReplaceTyped
<1> QED
  BY <1>1, <1>2, <1>3, <1>4 DEF Clerk

LEMMA HandEditTyped ==
  ASSUME FilesTyped, HandEdit
  PROVE  FilesTyped'
<1>1. PICK edit \in HandEdits :
        files' = [files EXCEPT ![edit.file].policy =
            [@ EXCEPT !.classes[edit.class] = edit.override,
                      !.disabled = edit.disabled, !.humanAll = edit.humanAll]]
  BY DEF HandEdit
<1>2. /\ edit.file \in Files /\ edit.class \in FailureClasses /\ ValidOverride(edit.class, edit.override)
      /\ edit.disabled \subseteq Disableable /\ edit.humanAll \in BOOLEAN
  BY OverridesAssumption
<1> DEFINE old == files[edit.file]
           policy == [old.policy EXCEPT !.classes[edit.class] = edit.override,
                                        !.disabled = edit.disabled, !.humanAll = edit.humanAll]
           new == [old EXCEPT !.policy = policy]
<1>3. files' = [files EXCEPT ![edit.file] = new]
  BY <1>1
<1>4. ContentOK(old)
  BY <1>2 DEF FilesTyped
<1>5. /\ DOMAIN policy = {"classes", "disabled", "humanAll"} /\ DOMAIN policy.classes = FailureClasses
      /\ policy.disabled = edit.disabled /\ policy.humanAll = edit.humanAll
      /\ \A k \in FailureClasses :
           policy.classes[k] = IF k = edit.class THEN edit.override ELSE old.policy.classes[k]
  BY <1>2, <1>4 DEF ContentOK, PolicyOK
<1>6. DOMAIN new = {"policy", "history"} /\ new.policy = policy /\ new.history = old.history
  BY <1>4 DEF ContentOK
<1> HIDE DEF policy
<1>7. PolicyOK(policy)
  BY <1>2, <1>4, <1>5 DEF ContentOK, PolicyOK, ValidPolicy
<1> HIDE DEF new, old
<1>8. ContentOK(new)
  BY <1>4, <1>6, <1>7 DEF ContentOK
<1>9. DOMAIN files' = Files /\ \A g \in Files : ContentOK(files'[g]) /\ Len(files'[g].history) <= begun
  BY <1>2, <1>3, <1>6, <1>8 DEF FilesTyped, old
<1>10. UNCHANGED <<registry, draft, begun>>
  BY DEF HandEdit
<1> QED
  BY <1>9, <1>10 DEF FilesTyped, DraftOK

LEMMA ReadFilesTyped ==
  ASSUME FilesTyped, NEW w \in Processes, ReadFiles(w)
  PROVE  FilesTyped'
<1>1. registry' = [registry EXCEPT ![w] = [f \in Files |-> files[f].policy]] /\ UNCHANGED <<files, begun>>
  BY DEF ReadFiles, Read
<1>2. DOMAIN draft' = Clerks /\ \A k \in Clerks : draft'[k] = NoDraft \/ draft'[k] = draft[k]
  BY DEF ReadFiles
<1>3. \A k \in Clerks : DraftOK(draft[k])'
  <2> TAKE k \in Clerks
  <2>1. DraftOK(draft[k]) /\ NoDraft.kind = "none"
    BY DEF FilesTyped, NoDraft
  <2>2. CASE draft'[k] = NoDraft
    BY <2>1, <2>2 DEF DraftOK
  <2>3. CASE draft'[k] = draft[k]
    BY <1>1, <2>1, <2>3 DEF DraftOK
  <2> QED
    BY <1>2, <2>2, <2>3
<1>4. DOMAIN registry' = Processes /\ \A v \in Processes, f \in Files : PolicyOK(registry'[v][f])
  BY <1>1 DEF FilesTyped, ContentOK
<1> QED
  BY <1>1, <1>2, <1>3, <1>4 DEF FilesTyped

LEMMA UnsetValid == ASSUME NEW class \in FailureClasses PROVE ValidOverride(class, Unset)
  BY DEF ValidOverride, Unset, Fields, IsSet

LEMMA FilesInitTyped == ASSUME FInit PROVE FilesTyped
<1>1. PolicyOK(EmptyPolicy)
  BY UnsetValid DEF PolicyOK, ValidPolicy, EmptyPolicy
<1>2. IsSeq(<< >>) /\ Len(<< >>) = 0
  BY DEF IsSeq
<1>3. \A f \in Files : files[f].policy = EmptyPolicy /\ files[f].history = << >> /\ DOMAIN files[f] = {"policy", "history"}
  BY DEF FInit
<1>4. \A f \in Files : ContentOK(files[f])
  BY <1>1, <1>2, <1>3 DEF ContentOK
<1>5. \A c \in Clerks : DraftOK(draft[c])
  BY DEF FInit, DraftOK, NoDraft
<1>6. \A w \in Processes, f \in Files : registry[w][f] = EmptyPolicy
  BY DEF FInit
<1> QED
  BY <1>1, <1>2, <1>3, <1>4, <1>5, <1>6 DEF FilesTyped, FInit

-----------------------------------------------------------------------------
(* The trail of a file.  TrailUndoes is not inductive: a commit replaces the *)
(* file by what the clerk made of its own reading, so every reading at hand  *)
(* must have a trail that undoes, too.                                      *)

Result(write) == LayerFields(write.fields, write.previous)

\* The first write of the class found no entry, each later one what the one
\* before it made, and the entry is what the last one made.
Trail(content, class) ==
  LET history == content.history
      entry == content.policy.classes[class]
      writes == WritesOf(history, class)
  IN  /\ writes = {} => entry = Unset
      /\ \A i \in writes : (\A j \in writes : j <= i) => entry = Result(history[i])
      /\ \A i \in writes : (\A j \in writes : i <= j) => history[i].previous = Unset
      /\ \A i, j \in writes : j < i /\ (\A k \in writes : k <= j \/ i <= k) => history[i].previous = Result(history[j])

TrailsUndo ==
  \A class \in FailureClasses :
    /\ \A f \in Files : ~EditedByHand(f, class) => Trail(files[f], class)
    /\ \A c \in Clerks : draft[c].kind # "none" /\ ~EditedByHand(draft[c].file, class) => Trail(draft[c].seen, class)

LEMMA TrailWritten ==
  ASSUME NEW d, ContentOK(d.seen), d.class \in FailureClasses, NEW class \in FailureClasses, Trail(d.seen, class)
  PROVE  Trail(Written(d), class)
<1> DEFINE old == d.seen.history
           n == Len(old)
           entry == d.seen.policy.classes[class]
           previous == d.seen.policy.classes[d.class]
           made == [class |-> d.class, fields |-> d.fields, previous |-> previous]
           new == Append(old, made)
           W == WritesOf(old, class)
           V == WritesOf(new, class)
           after == Written(d).policy.classes[class]
<1>1. /\ n \in Nat /\ DOMAIN old = 1..n /\ DOMAIN new = 1..(n + 1) /\ new[n + 1] = made
      /\ \A i \in 1..n : new[i] = old[i]
  BY AppendAt DEF ContentOK
<1>2. Written(d).history = new /\ after = IF class = d.class THEN Result(made) ELSE entry
  BY DEF Written, WithEntry, Result, ContentOK, PolicyOK
<1>3. made.class = d.class /\ made.previous = previous
  OBVIOUS
<1>4. W \subseteq 1..n /\ V \subseteq 1..(n + 1) /\ \A i \in 1..n : i \in V <=> i \in W
  BY <1>1 DEF WritesOf
<1>5. n + 1 \in V <=> class = d.class
  BY <1>1, <1>3 DEF WritesOf
<1>6. /\ W = {} => entry = Unset
      /\ \A i \in W : (\A j \in W : j <= i) => entry = Result(old[i])
      /\ \A i \in W : (\A j \in W : i <= j) => old[i].previous = Unset
      /\ \A i, j \in W : j < i /\ (\A k \in W : k <= j \/ i <= k) => old[i].previous = Result(old[j])
  BY DEF Trail
<1> HIDE DEF old, made, new, W, V, after, entry
<1>7. CASE class # d.class
  <2>1. ASSUME NEW i \in 1..(n + 1) PROVE (i \in V <=> i \in W)
    <3>1. i \in 1..n \/ i = n + 1
      BY <1>1
    <3>2. n + 1 \notin 1..n
      BY <1>1
    <3> QED
      BY <1>4, <1>5, <1>7, <3>1, <3>2
  <2>2. V = W
    <3>1. 1..n \subseteq 1..(n + 1)
      BY <1>1
    <3> QED
      BY <1>4, <2>1, <3>1
  <2>3. after = entry /\ \A i \in V : new[i] = old[i]
    BY <1>1, <1>2, <1>4, <1>7, <2>2
  <2>4. /\ V = {} => after = Unset
        /\ \A i \in V : (\A j \in V : j <= i) => after = Result(new[i])
        /\ \A i \in V : (\A j \in V : i <= j) => new[i].previous = Unset
        /\ \A i, j \in V : j < i /\ (\A k \in V : k <= j \/ i <= k) => new[i].previous = Result(new[j])
    BY <1>6, <2>2, <2>3
  <2> QED
    BY <1>2, <2>4 DEF Trail, V, after, new
<1>8. CASE class = d.class
  <2>0. ASSUME NEW i \in 1..(n + 1) PROVE (i \in V <=> i \in W \/ i = n + 1)
    <3>1. i \in 1..n \/ i = n + 1
      BY <1>1
    <3> QED
      BY <1>4, <1>5, <1>8, <3>1
  <2>1. V = W \cup {n + 1} /\ after = Result(made) /\ previous = entry
    <3>1. 1..n \subseteq 1..(n + 1) /\ n + 1 \in 1..(n + 1)
      BY <1>1
    <3>2. V = W \cup {n + 1}
      BY <1>4, <2>0, <3>1
    <3> QED
      BY <1>2, <1>8, <3>2 DEF entry
  <2>2. \A i \in V : (\A j \in V : j <= i) => after = Result(new[i])
    BY <1>1, <1>4, <2>1
  <2>3. \A i \in V : (\A j \in V : i <= j) => new[i].previous = Unset
    BY <1>1, <1>3, <1>4, <1>6, <2>1
  <2>4. ASSUME NEW i \in V, NEW j \in V, j < i, \A k \in V : k <= j \/ i <= k
        PROVE  new[i].previous = Result(new[j])
    <3>1. j \in W /\ new[j] = old[j]
      BY <1>1, <1>4, <2>1, <2>4
    <3>2. CASE i = n + 1
      <4>1. \A k \in W : k <= j
        BY <1>4, <2>1, <2>4, <3>2
      <4> QED
        BY <1>1, <1>3, <1>6, <2>1, <3>1, <3>2, <4>1
    <3>3. CASE i \in W
      BY <1>1, <1>4, <1>6, <2>1, <2>4, <3>1, <3>3
    <3> QED
      BY <2>1, <3>2, <3>3
  <2>5. V # {}
    BY <2>1
  <2> QED
    BY <1>2, <2>2, <2>3, <2>4, <2>5 DEF Trail, V, after, new
<1> QED
  BY <1>7, <1>8

LEMMA TrailRolledBack ==
  ASSUME NEW d, ContentOK(d.seen), d.class \in FailureClasses, WritesOf(d.seen.history, d.class) # {},
         NEW class \in FailureClasses, Trail(d.seen, class)
  PROVE  Trail(RolledBack(d), class)
<1> DEFINE old == d.seen.history
           n == Len(old)
           last == LastWrite(old, d.class)
           entry == d.seen.policy.classes[class]
           new == Without(old, last)
           W == WritesOf(old, class)
           V == WritesOf(new, class)
           after == RolledBack(d).policy.classes[class]
           was(k) == IF k < last THEN k ELSE k + 1
<1>1. last \in DOMAIN old /\ old[last].class = d.class /\ \A j \in WritesOf(old, d.class) : j <= last
  BY LastWriteIsLast DEF ContentOK, WritesOf
<1>2. RolledBack(d).history = new /\ after = IF class = d.class THEN old[last].previous ELSE entry
  BY DEF RolledBack, WithEntry, ContentOK, PolicyOK
<1> HIDE DEF last
<1>3. /\ n \in Nat /\ DOMAIN old = 1..n /\ DOMAIN new = 1..(n - 1) /\ last \in 1..n
      /\ \A k \in 1..(n - 1) : new[k] = old[was(k)]
  BY <1>1, WithoutAt DEF ContentOK
<1>4. W \subseteq 1..n /\ V \subseteq 1..(n - 1) /\ \A k \in 1..(n - 1) : k \in V <=> was(k) \in W
  <2>1. /\ W = {i \in 1..n : old[i].class = class}
        /\ V = {i \in 1..(n - 1) : new[i].class = class}
    BY <1>3 DEF WritesOf
  <2>2. \A k \in 1..(n - 1) : was(k) \in 1..n
    BY <1>3
  <2> HIDE DEF was, old, new, W, V
  <2> QED
    BY <1>3, <2>1, <2>2
<1>5. last \in W <=> class = d.class
  BY <1>1, <1>3 DEF WritesOf
<1>6. /\ W = {} => entry = Unset
      /\ \A i \in W : (\A j \in W : j <= i) => entry = Result(old[i])
      /\ \A i \in W : (\A j \in W : i <= j) => old[i].previous = Unset
      /\ \A i, j \in W : j < i /\ (\A k \in W : k <= j \/ i <= k) => old[i].previous = Result(old[j])
  BY DEF Trail
<1>7. class = d.class => \A j \in W : j <= last
  BY <1>1
<1> HIDE DEF old, new, W, V, after, entry
<1>8. CASE class # d.class
  <2>1. after = entry /\ last \notin W
    BY <1>2, <1>5, <1>8
  <2>2. \A i \in W : \E k \in V : was(k) = i
    <3> TAKE i \in W
    <3>1. CASE i < last
      <4>1. i \in 1..(n - 1) /\ was(i) = i
        BY <1>3, <1>4, <3>1
      <4> QED
        BY <1>4, <4>1
    <3>2. CASE i > last
      <4>1. i - 1 \in 1..(n - 1) /\ was(i - 1) = i
        BY <1>3, <1>4, <3>2
      <4> QED
        BY <1>4, <4>1
    <3> QED
      BY <1>3, <1>4, <2>1, <3>1, <3>2
  <2>3. \A k, l \in V : was(k) \in W /\ (k <= l <=> was(k) <= was(l)) /\ (k < l <=> was(k) < was(l))
    BY <1>3, <1>4
  <2>4. \A k \in V : new[k] = old[was(k)]
    BY <1>3, <1>4
  <2> HIDE DEF was
  <2>5. V = {} => after = Unset
    BY <1>6, <2>1, <2>2
  <2>6. \A k \in V : (\A l \in V : l <= k) => after = Result(new[k])
    BY <1>6, <2>1, <2>2, <2>3, <2>4
  <2>7. \A k \in V : (\A l \in V : k <= l) => new[k].previous = Unset
    BY <1>6, <2>2, <2>3, <2>4
  <2>8. ASSUME NEW k \in V, NEW l \in V, l < k, \A m \in V : m <= l \/ k <= m
        PROVE  new[k].previous = Result(new[l])
    <3>1. was(l) < was(k) /\ \A i \in W : i <= was(l) \/ was(k) <= i
      BY <2>2, <2>3, <2>8
    <3> QED
      BY <1>6, <2>3, <2>4, <2>8, <3>1
  <2> QED
    BY <1>2, <2>5, <2>6, <2>7, <2>8 DEF Trail, V, after, new
<1>9. CASE class = d.class
  <2>0. ASSUME NEW k \in 1..n PROVE k \in V <=> k \in W /\ k # last
    <3>1. CASE k < last
      BY <1>3, <1>4, <3>1
    <3>2. CASE ~(k < last)
      <4>1. k \in V => k + 1 \in W /\ k + 1 > last
        BY <1>3, <1>4, <3>2
      <4>2. k \notin V
        BY <1>3, <1>4, <1>7, <1>9, <3>2, <4>1
      <4>3. k \in W => k = last
        BY <1>3, <1>7, <1>9, <3>2
      <4> QED
        BY <4>2, <4>3
    <3> QED
      BY <3>1, <3>2
  <2>1. V = W \ {last} /\ after = old[last].previous /\ \A k \in V : k < last /\ new[k] = old[k]
    <3>1. V \subseteq 1..n /\ W \subseteq 1..n
      BY <1>3, <1>4
    <3>2. V = W \ {last}
      BY <2>0, <3>1, Zenon
    <3>3. \A k \in V : k < last
      BY <1>3, <1>4, <1>7, <1>9, <3>2
    <3> QED
      BY <1>2, <1>3, <1>4, <1>9, <3>2, <3>3
  <2>2. last \in W /\ \A j \in W : j <= last
    BY <1>5, <1>7, <1>9
  <2>3. V = {} => after = Unset
    BY <1>3, <1>6, <2>1, <2>2
  <2>4. \A k \in V : (\A l \in V : l <= k) => after = Result(new[k])
    <3> TAKE k \in V
    <3> HAVE \A l \in V : l <= k
    <3>1. k \in W /\ k < last /\ \A l \in W : l <= k \/ last <= l
      BY <1>3, <1>4, <2>1, <2>2
    <3> QED
      BY <1>6, <2>1, <2>2, <3>1
  <2>5. \A k \in V : (\A l \in V : k <= l) => new[k].previous = Unset
    BY <1>3, <1>4, <1>6, <2>1, <2>2
  <2>6. ASSUME NEW k \in V, NEW l \in V, l < k, \A m \in V : m <= l \/ k <= m
        PROVE  new[k].previous = Result(new[l])
    <3>1. k \in W /\ l \in W /\ new[k] = old[k] /\ new[l] = old[l] /\ \A m \in W : m <= l \/ k <= m
      BY <1>3, <1>4, <2>1, <2>2, <2>6
    <3> QED
      BY <1>6, <2>6, <3>1
  <2> QED
    BY <1>2, <2>3, <2>4, <2>5, <2>6 DEF Trail, V, after, new
<1> QED
  BY <1>8, <1>9

LEMMA TrailSame ==
  ASSUME NEW content, NEW other, NEW class, Trail(content, class),
         other.history = content.history, other.policy.classes[class] = content.policy.classes[class]
  PROVE  Trail(other, class)
  BY DEF Trail

LEMMA ReplaceUndoes ==
  ASSUME FilesTyped, TrailsUndo, NEW c \in Clerks, draft[c].kind # "none", NEW content,
         \A class \in FailureClasses : Trail(draft[c].seen, class) => Trail(content, class),
         Replace(c, draft[c].file, content), UNCHANGED byHand
  PROVE  TrailsUndo'
<1> DEFINE f == draft[c].file
<1>1. /\ files' = [files EXCEPT ![f] = content] /\ draft' = [draft EXCEPT ![c] = NoDraft]
      /\ DOMAIN files = Files /\ DOMAIN draft = Clerks
  BY DEF Replace, FilesTyped
<1>2. NoDraft.kind = "none"
  BY DEF NoDraft
<1>3. ASSUME NEW class \in FailureClasses, NEW g \in Files, ~EditedByHand(g, class)'
      PROVE  Trail(files'[g], class)
  <2>1. ~EditedByHand(g, class)
    BY <1>3 DEF EditedByHand
  <2>2. Trail(files[g], class) /\ (f = g => Trail(draft[c].seen, class))
    BY <2>1 DEF TrailsUndo
  <2> QED
    BY <1>1, <2>2
<1>4. ASSUME NEW class \in FailureClasses, NEW k \in Clerks, draft'[k].kind # "none", ~EditedByHand(draft[k].file, class)'
      PROVE  Trail(draft'[k].seen, class)
  <2>1. draft'[k] = draft[k]
    BY <1>1, <1>2, <1>4
  <2>2. ~EditedByHand(draft[k].file, class)
    BY <1>4, <2>1 DEF EditedByHand
  <2> QED
    BY <1>4, <2>1, <2>2 DEF TrailsUndo
<1>5. \A class \in FailureClasses, g \in Files : ~EditedByHand(g, class)' => Trail(files[g], class)'
  BY <1>3 DEF Trail
<1>6. \A class \in FailureClasses, k \in Clerks :
        (draft[k].kind # "none" /\ ~EditedByHand(draft[k].file, class))' => Trail(draft[k].seen, class)'
  BY <1>4 DEF Trail, EditedByHand
<1> QED
  BY <1>5, <1>6 DEF TrailsUndo

LEMMA DraftUndoes ==
  ASSUME FilesTyped, TrailsUndo, UNCHANGED <<files, byHand>>, DOMAIN draft' = Clerks,
         \A k \in Clerks : \/ draft'[k] = draft[k]
                           \/ draft'[k].kind = "none"
                           \/ draft'[k].file \in Files /\ draft'[k].seen = files[draft'[k].file]
  PROVE  TrailsUndo'
<1>1. ASSUME NEW class \in FailureClasses, NEW k \in Clerks, draft'[k].kind # "none", ~EditedByHand(draft[k].file, class)'
      PROVE  Trail(draft'[k].seen, class)
  <2>1. ~EditedByHand(draft'[k].file, class)
    BY <1>1 DEF EditedByHand
  <2>2. CASE draft'[k] = draft[k]
    BY <1>1, <2>1, <2>2 DEF TrailsUndo
  <2>3. CASE draft'[k].file \in Files /\ draft'[k].seen = files[draft'[k].file]
    BY <2>1, <2>3 DEF TrailsUndo
  <2> QED
    BY <1>1, <2>2, <2>3
<1>2. \A class \in FailureClasses, k \in Clerks :
        (draft[k].kind # "none" /\ ~EditedByHand(draft[k].file, class))' => Trail(draft[k].seen, class)'
  BY <1>1 DEF Trail, EditedByHand
<1>3. \A class \in FailureClasses, g \in Files : ~EditedByHand(g, class)' => Trail(files[g], class)'
  <2> TAKE class \in FailureClasses, g \in Files
  <2> HAVE ~EditedByHand(g, class)'
  <2>1. ~EditedByHand(g, class)
    BY DEF EditedByHand
  <2>2. Trail(files[g], class) /\ files'[g] = files[g]
    BY <2>1 DEF TrailsUndo
  <2> QED
    BY <2>2 DEF Trail
<1> QED
  BY <1>2, <1>3 DEF TrailsUndo

LEMMA ClerkUndoes ==
  ASSUME FilesTyped, TrailsUndo, NEW c \in Clerks, Clerk(c)
  PROVE  TrailsUndo'
<1>0. DOMAIN draft = Clerks /\ DraftOK(draft[c])
  BY DEF FilesTyped
<1>1. ASSUME NEW f \in Files, BeginApply(c, f) PROVE TrailsUndo'
  <2>1. PICK d : d.file = f /\ d.seen = files[f] /\ draft' = [draft EXCEPT ![c] = d]
    BY <1>1 DEF BeginApply
  <2>2. UNCHANGED <<files, byHand>>
    BY <1>1 DEF BeginApply
  <2> QED
    BY <1>0, <2>1, <2>2, DraftUndoes
<1>2. ASSUME NEW f \in Files, NEW class \in Tuned, BeginRollback(c, f, class) PROVE TrailsUndo'
  <2>1. PICK d : d.file = f /\ d.seen = files[f] /\ draft' = [draft EXCEPT ![c] = d]
    BY <1>2 DEF BeginRollback
  <2>2. UNCHANGED <<files, byHand>>
    BY <1>2 DEF BeginRollback
  <2> QED
    BY <1>0, <2>1, <2>2, DraftUndoes
<1>3. ASSUME CommitApply(c) PROVE TrailsUndo'
  <2>1. draft[c].kind = "apply" /\ UNCHANGED byHand
    BY <1>3 DEF CommitApply
  <2>2. CASE ValidPolicy(Written(draft[c]).policy)
    <3>1. Replace(c, draft[c].file, Written(draft[c]))
      BY <1>3, <2>2 DEF CommitApply
    <3>2. \A class \in FailureClasses : Trail(draft[c].seen, class) => Trail(Written(draft[c]), class)
      BY <1>0, <2>1, TrailWritten DEF DraftOK
    <3> QED
      BY <2>1, <3>1, <3>2, ReplaceUndoes
  <2>3. CASE ~ValidPolicy(Written(draft[c]).policy)
    <3>1. draft' = [draft EXCEPT ![c] = NoDraft] /\ UNCHANGED <<files, byHand>> /\ NoDraft.kind = "none"
      BY <1>3, <2>3 DEF CommitApply, NoDraft
    <3> QED
      BY <1>0, <3>1, DraftUndoes
  <2> QED
    BY <2>2, <2>3
<1>4. ASSUME CommitRollback(c) PROVE TrailsUndo'
  <2>1. draft[c].kind = "rollback" /\ UNCHANGED byHand
    BY <1>4 DEF CommitRollback
  <2>2. Replace(c, draft[c].file, RolledBack(draft[c]))
    BY <1>4 DEF CommitRollback, RolledBack
  <2>3. \A class \in FailureClasses : Trail(draft[c].seen, class) => Trail(RolledBack(draft[c]), class)
    BY <1>0, <2>1, TrailRolledBack DEF DraftOK
  <2> QED
    BY <2>1, <2>2, <2>3, ReplaceUndoes
<1> QED
  BY <1>1, <1>2, <1>3, <1>4 DEF Clerk

\* A class a person edited is no longer spoken of; the others of the file stay.
LEMMA HandEditUndoes ==
  ASSUME FilesTyped, TrailsUndo, HandEdit
  PROVE  TrailsUndo'
<1>1. PICK edit \in HandEdits :
        /\ files' = [files EXCEPT ![edit.file].policy =
             [@ EXCEPT !.classes[edit.class] = edit.override,
                       !.disabled = edit.disabled, !.humanAll = edit.humanAll]]
        /\ byHand' = byHand \cup {edit} /\ UNCHANGED draft
  BY DEF HandEdit
<1>2. edit.file \in Files /\ edit.class \in FailureClasses
  BY OverridesAssumption
<1>3. \A g, class : EditedByHand(g, class)' <=> EditedByHand(g, class) \/ (edit.file = g /\ edit.class = class)
  BY <1>1 DEF EditedByHand
<1>4. ASSUME NEW g \in Files, NEW class \in FailureClasses, ~(edit.file = g /\ edit.class = class)
      PROVE  files'[g].history = files[g].history /\ files'[g].policy.classes[class] = files[g].policy.classes[class]
  <2>1. ContentOK(files[g]) /\ DOMAIN files = Files
    BY DEF FilesTyped
  <2>2. CASE g # edit.file
    BY <1>1, <1>2, <2>1, <2>2
  <2>3. CASE g = edit.file
    <3>1. class # edit.class
      BY <1>4, <2>3
    <3> QED
      BY <1>1, <1>2, <2>1, <2>3, <3>1 DEF ContentOK, PolicyOK
  <2> QED
    BY <2>2, <2>3
<1>5. ASSUME NEW class \in FailureClasses, NEW g \in Files, ~EditedByHand(g, class)'
      PROVE  Trail(files'[g], class)
  <2>1. ~EditedByHand(g, class) /\ ~(edit.file = g /\ edit.class = class)
    BY <1>3, <1>5
  <2>2. Trail(files[g], class)
    BY <2>1 DEF TrailsUndo
  <2>3. files'[g].history = files[g].history /\ files'[g].policy.classes[class] = files[g].policy.classes[class]
    BY <1>4, <2>1
  <2> QED
    BY <2>2, <2>3, TrailSame
<1>6. \A class \in FailureClasses, g \in Files : ~EditedByHand(g, class)' => Trail(files[g], class)'
  BY <1>5 DEF Trail
<1>7. \A class \in FailureClasses, k \in Clerks :
        (draft[k].kind # "none" /\ ~EditedByHand(draft[k].file, class))' => Trail(draft[k].seen, class)'
  <2> TAKE class \in FailureClasses, k \in Clerks
  <2> HAVE (draft[k].kind # "none" /\ ~EditedByHand(draft[k].file, class))'
  <2>1. draft'[k] = draft[k]
    BY <1>1
  <2>2. draft[k].kind # "none" /\ ~EditedByHand(draft[k].file, class)
    BY <1>1, <2>1 DEF EditedByHand
  <2>3. Trail(draft[k].seen, class)
    BY <2>2 DEF TrailsUndo
  <2> QED
    BY <2>1, <2>3 DEF Trail
<1> QED
  BY <1>6, <1>7 DEF TrailsUndo

LEMMA ReadFilesUndoes ==
  ASSUME FilesTyped, TrailsUndo, NEW w \in Processes, ReadFiles(w)
  PROVE  TrailsUndo'
<1>1. DOMAIN draft' = Clerks /\ UNCHANGED <<files, byHand>> /\ NoDraft.kind = "none"
  BY DEF ReadFiles, NoDraft
<1>2. \A k \in Clerks : draft'[k] = NoDraft \/ draft'[k] = draft[k]
  BY DEF ReadFiles
<1> QED
  BY <1>1, <1>2, DraftUndoes

LEMMA UndoesInit == ASSUME FInit PROVE TrailsUndo
<1>1. \A c \in Clerks : draft[c].kind = "none"
  BY DEF FInit, NoDraft
<1>2. \A f \in Files : files[f].history = << >> /\ files[f].policy = EmptyPolicy
  BY DEF FInit
<1>3. ASSUME NEW f \in Files, NEW class \in FailureClasses PROVE Trail(files[f], class)
  <2>1. WritesOf(files[f].history, class) = {}
    BY <1>2 DEF WritesOf
  <2>2. files[f].policy.classes[class] = Unset
    BY <1>2 DEF EmptyPolicy
  <2> QED
    BY <2>1, <2>2 DEF Trail
<1> QED
  BY <1>1, <1>3 DEF TrailsUndo

\* The writes before one of them, read off the trail up to it.
LEMMA WritesBefore ==
  ASSUME NEW history, IsSeq(history), NEW class, NEW i \in WritesOf(history, class)
  PROVE  LET before == SubSeq(history, 1, i - 1) IN
         IsSeq(before) /\ WritesOf(before, class) = {j \in WritesOf(history, class) : j < i}
<1> DEFINE old == {history[k] : k \in DOMAIN history}
           before == SubSeq(history, 1, i - 1)
           W == WritesOf(history, class)
           V == WritesOf(before, class)
<1>1. history \in Seq(old) /\ Len(history) \in Nat /\ DOMAIN history = 1..Len(history) /\ i \in 1..Len(history)
  BY DEF IsSeq, WritesOf
<1> HIDE DEF old
<1>2. before \in Seq(old) /\ Len(before) = i - 1 /\ DOMAIN before = 1..(i - 1) /\ \A k \in 1..(i - 1) : before[k] = history[k]
  BY <1>1
<1>3. IsSeq(before)
  BY <1>2, SomeSeq
<1> HIDE DEF before
<1>4. W \subseteq 1..Len(history) /\ V \subseteq 1..(i - 1) /\ \A k \in 1..(i - 1) : k \in V <=> k \in W
  BY <1>1, <1>2 DEF WritesOf
<1> HIDE DEF V, W
<1>5. \A j \in W : j < i <=> j \in 1..(i - 1)
  BY <1>1, <1>4
<1>6. V = {j \in W : j < i}
  BY <1>4, <1>5, Zenon
<1> QED
  BY <1>3, <1>6 DEF before, V, W

LEMMA TrailsShown == ASSUME FilesTyped, TrailsUndo PROVE TrailUndoes
<1> SUFFICES ASSUME NEW f \in Files, NEW class \in FailureClasses, ~EditedByHand(f, class)
             PROVE  LET history == files[f].history
                        writes == WritesOf(history, class)
                        result(i) == LayerFields(history[i].fields, history[i].previous)
                    IN  /\ files[f].policy.classes[class] =
                             IF writes = {} THEN Unset ELSE result(LastWrite(history, class))
                        /\ \A i \in writes :
                             history[i].previous =
                               IF \E j \in writes : j < i
                               THEN result(LastWrite(SubSeq(history, 1, i - 1), class)) ELSE Unset
  BY DEF TrailUndoes
<1> DEFINE history == files[f].history
           W == WritesOf(history, class)
           entry == files[f].policy.classes[class]
           lastBefore(i) == LastWrite(SubSeq(history, 1, i - 1), class)
<1>1. /\ W = {} => entry = Unset
      /\ \A i \in W : (\A j \in W : j <= i) => entry = Result(history[i])
      /\ \A i \in W : (\A j \in W : i <= j) => history[i].previous = Unset
      /\ \A i, j \in W : j < i /\ (\A k \in W : k <= j \/ i <= k) => history[i].previous = Result(history[j])
  BY DEF TrailsUndo, Trail
<1>2. IsSeq(history) /\ W \subseteq 1..Len(history) /\ Len(history) \in Nat
  BY DEF FilesTyped, ContentOK, IsSeq, WritesOf
<1>3. entry = IF W = {} THEN Unset ELSE Result(history[LastWrite(history, class)])
  <2>1. W # {} => LastWrite(history, class) \in W /\ \A j \in W : j <= LastWrite(history, class)
    BY <1>2, LastWriteIsLast
  <2> HIDE DEF W
  <2> QED
    BY <1>1, <2>1
<1>4. ASSUME NEW i \in W
      PROVE  history[i].previous = IF \E j \in W : j < i THEN Result(history[lastBefore(i)]) ELSE Unset
  <2>1. CASE \E j \in W : j < i
    <3> DEFINE before == SubSeq(history, 1, i - 1)
    <3>1. IsSeq(before) /\ WritesOf(before, class) = {j \in W : j < i}
      BY <1>2, WritesBefore
    <3>2. /\ lastBefore(i) \in WritesOf(before, class)
          /\ \A j \in WritesOf(before, class) : j <= lastBefore(i)
      BY <2>1, <3>1, LastWriteIsLast
    <3> HIDE DEF W, lastBefore, history
    <3>3. lastBefore(i) \in W /\ lastBefore(i) < i /\ \A j \in W : j < i => j <= lastBefore(i)
      BY <3>1, <3>2
    <3>4. \A k \in W : k <= lastBefore(i) \/ i <= k
      BY <1>2, <3>3
    <3> QED
      BY <1>1, <2>1, <3>3, <3>4
  <2>2. CASE ~\E j \in W : j < i
    <3> HIDE DEF W, history
    <3>1. \A j \in W : i <= j
      BY <1>2, <2>2
    <3> QED
      BY <1>1, <2>2, <3>1
  <2> QED
    BY <2>1, <2>2
<1> QED
  BY <1>3, <1>4 DEF Result

-----------------------------------------------------------------------------
(* Evidence.  A delay shorter than the table's has its grant or a person's   *)
(* hand behind it wherever it may come from: a file, the entries its trail  *)
(* would put back, the reading of a clerk, what a process has read.         *)

Behind(f, class, delay) ==
  \/ <<f, class, delay>> \in granted
  \/ \E edit \in byHand : edit.file = f /\ edit.class = class /\ edit.override.delay = delay

Backed(f, class, override) ==
  IsSet(override, "delay") /\ override.delay < POLICY[class].delay => Behind(f, class, override.delay)

ContentBacked(f, content) ==
  /\ \A class \in FailureClasses : Backed(f, class, content.policy.classes[class])
  /\ \A i \in DOMAIN content.history : Backed(f, content.history[i].class, content.history[i].previous)

DraftBacked(d) ==
  /\ d.kind # "none" => ContentBacked(d.file, d.seen)
  /\ d.kind = "apply" => d.backed

FilesBacked ==
  /\ \A f \in Files : ContentBacked(f, files[f])
  /\ \A c \in Clerks : DraftBacked(draft[c])
  /\ \A w \in Processes, f \in Files, class \in FailureClasses : Backed(f, class, registry[w][f].classes[class])

EvidenceGrows == granted \subseteq granted' /\ byHand \subseteq byHand'

LEMMA StaysBehind ==
  ASSUME EvidenceGrows, NEW f, NEW class, NEW delay, Behind(f, class, delay)
  PROVE  Behind(f, class, delay)'
  BY DEF EvidenceGrows, Behind

LEMMA StaysBacked ==
  ASSUME EvidenceGrows, NEW f, NEW class, NEW override, Backed(f, class, override)
  PROVE  Backed(f, class, override)'
  BY StaysBehind DEF Backed

LEMMA ContentStaysBacked ==
  ASSUME EvidenceGrows, NEW f, NEW content, ContentBacked(f, content)
  PROVE  ContentBacked(f, content)'
<1>1. \A class \in FailureClasses : Backed(f, class, content.policy.classes[class])'
  BY StaysBacked DEF ContentBacked
<1>2. \A i \in DOMAIN content.history : Backed(f, content.history[i].class, content.history[i].previous)'
  BY StaysBacked DEF ContentBacked
<1> QED
  BY <1>1, <1>2 DEF ContentBacked

\* A draft that became d.
LEMMA DraftBecomes ==
  ASSUME NEW c \in Clerks, NEW d, draft'[c] = d,
         d.kind # "none" => ContentBacked(d.file, d.seen)',
         d.kind = "apply" => d.backed
  PROVE  DraftBacked(draft[c])'
<1>1. CASE d.kind # "none"
  <2>1. PICK f, content : f = d.file /\ content = d.seen
    OBVIOUS
  <2>2. ContentBacked(f, content)'
    BY <1>1, <2>1
  <2>3. f = draft'[c].file /\ content = draft'[c].seen
    BY <2>1
  <2>4. ContentBacked(draft[c].file, draft[c].seen)'
    BY <2>2, <2>3 DEF ContentBacked, Backed, Behind
  <2> QED
    BY <2>4 DEF DraftBacked
<1>2. CASE d.kind = "none"
  BY <1>2 DEF DraftBacked
<1> QED
  BY <1>1, <1>2

\* A step leaves every file, reading and draft backed if each is an old one,
\* or a new one that is backed.
LEMMA BackedStep ==
  ASSUME FilesBacked, EvidenceGrows,
         \A f \in Files : files'[f] = files[f] \/ ContentBacked(f, files[f])',
         \A c \in Clerks : draft'[c] = draft[c] \/ DraftBacked(draft[c])',
         \A w \in Processes, f \in Files :
           \/ registry'[w][f] = registry[w][f]
           \/ \A class \in FailureClasses : Backed(f, class, registry[w][f].classes[class])'
  PROVE  FilesBacked'
<1>1. \A f \in Files : ContentBacked(f, files[f])'
  <2> TAKE f \in Files
  <2>1. CASE files'[f] = files[f]
    <3>1. PICK content : content = files[f]
      OBVIOUS
    <3>2. ContentBacked(f, content)'
      BY <3>1, ContentStaysBacked DEF FilesBacked
    <3>3. files'[f] = content
      BY <2>1, <3>1
    <3> QED
      BY ONLY <3>2, <3>3 DEF ContentBacked, Backed, Behind
  <2> QED
    BY <2>1 DEF ContentBacked
<1>2. \A c \in Clerks : DraftBacked(draft[c])'
  <2> TAKE c \in Clerks
  <2>1. CASE draft'[c] = draft[c]
    <3>1. PICK d : d = draft[c]
      OBVIOUS
    <3>2. DraftBacked(d)
      BY <3>1 DEF FilesBacked
    <3>3. d.kind # "none" => ContentBacked(d.file, d.seen)'
      BY <3>2, ContentStaysBacked DEF DraftBacked
    <3> QED
      BY <2>1, <3>1, <3>2, <3>3, DraftBecomes DEF DraftBacked
  <2> QED
    BY <2>1
<1>3. \A w \in Processes, f \in Files, class \in FailureClasses : Backed(f, class, registry[w][f].classes[class])'
  <2> TAKE w \in Processes, f \in Files, class \in FailureClasses
  <2>1. CASE registry'[w][f] = registry[w][f]
    <3>1. PICK override : override = registry[w][f].classes[class]
      OBVIOUS
    <3>2. Backed(f, class, override)'
      BY <3>1, StaysBacked DEF FilesBacked
    <3> QED
      BY <2>1, <3>1, <3>2 DEF Backed, Behind
  <2> QED
    BY <2>1
<1> QED
  BY <1>1, <1>2, <1>3 DEF FilesBacked

\* The rule that makes a proposal and the check of a write, on the same samples.
LEMMA ProposalHasEvidence ==
  ASSUME NEW class \in Tuned, NEW rates \in Evidence, NEW min \in Thresholds,
         NEW proposal \in Reported[class][rates][min]
  PROVE  Enough(rates[proposal.from], MIN_SAMPLES) /\ Enough(rates[proposal.to], MIN_SAMPLES)
<1>1. proposal \in Proposals(class, rates, min) /\ HasEvidence(proposal.n)
  BY DEF Reported, Allowed
<1>2. PICK b \in BucketNames :
        proposal = [class |-> class, from |-> PolicyBucket(class), to |-> b,
                    n |-> {rates[PolicyBucket(class)].n, rates[b].n}]
  BY <1>1 DEF Proposals
<1>3. /\ proposal.from = PolicyBucket(class) /\ proposal.to = b
      /\ proposal.n = {rates[PolicyBucket(class)].n, rates[b].n}
  BY <1>2
<1>4. rates[PolicyBucket(class)].n \in proposal.n /\ rates[b].n \in proposal.n
  BY <1>3
<1> QED
  BY <1>1, <1>3, <1>4 DEF HasEvidence, Enough

\* An entry and its trail replaced by backed ones.
LEMMA EntryBacked ==
  ASSUME NEW f, NEW content, ContentOK(content), ContentBacked(f, content), EvidenceGrows,
         NEW class \in FailureClasses, NEW override, Backed(f, class, override)', NEW history,
         \A i \in DOMAIN history : Backed(f, history[i].class, history[i].previous)
  PROVE  ContentBacked(f, WithEntry(content, class, override, history))'
<1> DEFINE new == WithEntry(content, class, override, history)
<1>1. /\ new.history = history
      /\ \A k \in FailureClasses :
           new.policy.classes[k] = IF k = class THEN override ELSE content.policy.classes[k]
  BY DEF WithEntry, ContentOK, PolicyOK
<1> HIDE DEF new
<1>2. ASSUME NEW k \in FailureClasses PROVE Backed(f, k, new.policy.classes[k])'
  <2>1. CASE k = class
    BY <1>1, <2>1
  <2>2. CASE k # class
    <3>1. PICK o : o = content.policy.classes[k] /\ o = new.policy.classes[k]
      BY <1>1, <2>2
    <3>2. Backed(f, k, o)'
      BY <3>1, StaysBacked DEF ContentBacked
    <3> QED
      BY <3>1, <3>2
  <2> QED
    BY <2>1, <2>2
<1>3. ASSUME NEW i \in DOMAIN new.history PROVE Backed(f, new.history[i].class, new.history[i].previous)'
  <2>1. PICK k, o : k = history[i].class /\ o = history[i].previous
    OBVIOUS
  <2>2. Backed(f, k, o)'
    BY <1>1, <2>1, StaysBacked
  <2> QED
    BY <1>1, <2>1, <2>2
<1>4. ContentBacked(f, new)'
  BY <1>2, <1>3 DEF ContentBacked
<1> QED
  BY <1>4 DEF new

LEMMA ReplaceBacked ==
  ASSUME FilesTyped, FilesBacked, EvidenceGrows, NEW c \in Clerks, NEW f \in Files, NEW content,
         ContentBacked(f, content)', Replace(c, f, content)
  PROVE  FilesBacked'
<1>1. /\ files' = [files EXCEPT ![f] = content] /\ draft' = [draft EXCEPT ![c] = NoDraft]
      /\ registry' = [registry EXCEPT ![Host[c]] = [g \in Files |-> IF g = f THEN content.policy ELSE Read[g]]]
      /\ DOMAIN files = Files /\ DOMAIN registry = Processes /\ DOMAIN draft = Clerks
  BY DEF Replace, FilesTyped
<1>2. \A g \in Files : files'[g] = files[g] \/ ContentBacked(g, files[g])'
  <2> TAKE g \in Files
  <2>1. CASE g = f
    <3>1. files'[g] = content
      BY <1>1, <2>1
    <3> QED
      BY <2>1, <3>1 DEF ContentBacked, Backed, Behind
  <2> QED
    BY <1>1, <2>1
<1>3. \A k \in Clerks : draft'[k] = draft[k] \/ DraftBacked(draft[k])'
  BY <1>1 DEF DraftBacked, NoDraft
<1>4. ASSUME NEW w \in Processes, NEW g \in Files, NEW class \in FailureClasses, registry'[w][g] # registry[w][g]
      PROVE  Backed(g, class, registry[w][g].classes[class])'
  <2>1. w = Host[c] /\ registry'[w][g] = IF g = f THEN content.policy ELSE files[g].policy
    BY <1>1, <1>4 DEF Read
  <2>2. PICK override : override = registry'[w][g].classes[class]
    OBVIOUS
  <2>3. Backed(g, class, override)'
    <3>1. CASE g = f
      BY <2>1, <2>2, <3>1 DEF ContentBacked
    <3>2. CASE g # f
      <4>1. override = files[g].policy.classes[class]
        BY <2>1, <2>2, <3>2
      <4>2. Backed(g, class, override)
        BY <4>1 DEF FilesBacked, ContentBacked
      <4> QED
        BY <4>2, StaysBacked
    <3> QED
      BY <3>1, <3>2
  <2> QED
    BY <2>2, <2>3 DEF Backed, Behind
<1> QED
  BY <1>2, <1>3, <1>4, BackedStep

\* Nothing but a clerk's reading changes, into nothing or the file as it is.
LEMMA BeginBacked ==
  ASSUME FilesTyped, FilesBacked, NEW c \in Clerks, NEW f \in Files, NEW d, d.file = f, d.seen = files[f],
         d.kind = "apply" => d.backed, draft' = [draft EXCEPT ![c] = d],
         UNCHANGED <<files, registry, granted, byHand>>
  PROVE  FilesBacked'
<1>1. EvidenceGrows /\ DOMAIN draft = Clerks
  BY DEF EvidenceGrows, FilesTyped
<1>2. PICK content : content = files[f]
  OBVIOUS
<1>3. ContentBacked(f, content)'
  BY <1>1, <1>2, ContentStaysBacked DEF FilesBacked
<1>4. d.kind # "none" => ContentBacked(d.file, d.seen)'
  BY <1>2, <1>3
<1>5. \A k \in Clerks : draft'[k] = draft[k] \/ DraftBacked(draft[k])'
  <2> TAKE k \in Clerks
  <2>1. CASE k = c
    <3>1. draft'[k] = d
      BY <1>1, <2>1
    <3> QED
      BY <1>4, <2>1, <3>1, DraftBecomes
  <2> QED
    BY <1>1, <2>1
<1> QED
  BY <1>1, <1>5, BackedStep

\* A proposal that was applied grants its delay; the other fields are layered
\* over an entry that is backed.
LEMMA WrittenBacked ==
  ASSUME NEW d, ContentOK(d.seen), d.class \in FailureClasses, ContentBacked(d.file, d.seen), EvidenceGrows,
         <<d.file, d.class, d.fields.delay>> \in granted'
  PROVE  ContentBacked(d.file, Written(d))'
<1> DEFINE previous == d.seen.policy.classes[d.class]
           override == LayerFields(d.fields, previous)
           entry == [class |-> d.class, fields |-> d.fields, previous |-> previous]
           old == d.seen.history
           history == Append(old, entry)
<1>1. Written(d) = WithEntry(d.seen, d.class, override, history)
  BY DEF Written
<1>2. Backed(d.file, d.class, previous)
  BY DEF ContentBacked
<1>3. override.delay = IF IsSet(d.fields, "delay") THEN d.fields.delay ELSE previous.delay
  BY DEF LayerFields, Fields
<1>4. entry.class = d.class /\ entry.previous = previous
  OBVIOUS
<1>5. /\ DOMAIN old = 1..Len(old) /\ Len(old) \in Nat /\ DOMAIN history = 1..(Len(old) + 1)
      /\ history[Len(old) + 1] = entry /\ \A i \in 1..Len(old) : history[i] = old[i]
  BY AppendAt DEF ContentOK
<1> HIDE DEF override, entry, history
<1>6. Backed(d.file, d.class, override)'
  <2>1. CASE IsSet(d.fields, "delay")
    BY <1>3, <2>1 DEF Backed, Behind
  <2>2. CASE ~IsSet(d.fields, "delay")
    <3>1. override.delay = previous.delay
      BY <1>3, <2>2
    <3>2. Backed(d.file, d.class, override)
      BY <1>2, <3>1 DEF Backed, IsSet
    <3> QED
      BY <3>2, StaysBacked
  <2> QED
    BY <2>1, <2>2
<1>7. \A i \in DOMAIN history : Backed(d.file, history[i].class, history[i].previous)
  <2> TAKE i \in DOMAIN history
  <2>1. CASE i = Len(old) + 1
    BY <1>2, <1>4, <1>5, <2>1
  <2>2. CASE i \in 1..Len(old)
    BY <1>5, <2>2 DEF ContentBacked
  <2> QED
    BY <1>5, <2>1, <2>2
<1> HIDE DEF previous
<1>8. ContentBacked(d.file, WithEntry(d.seen, d.class, override, history))'
  BY <1>6, <1>7, EntryBacked
<1> QED
  BY <1>1, <1>8

LEMMA RolledBackBacked ==
  ASSUME NEW d, ContentOK(d.seen), d.class \in FailureClasses, ContentBacked(d.file, d.seen), EvidenceGrows,
         WritesOf(d.seen.history, d.class) # {}
  PROVE  ContentBacked(d.file, RolledBack(d))'
<1> DEFINE old == d.seen.history
           last == LastWrite(old, d.class)
           history == Without(old, last)
           override == old[last].previous
<1>1. last \in DOMAIN old /\ old[last].class = d.class
  BY LastWriteIsLast DEF ContentOK, WritesOf
<1>2. Backed(d.file, d.class, override)
  BY <1>1 DEF ContentBacked
<1> HIDE DEF last
<1>3. /\ Len(old) \in Nat /\ DOMAIN old = 1..Len(old) /\ DOMAIN history = 1..(Len(old) - 1)
      /\ \A k \in 1..(Len(old) - 1) : history[k] = old[IF k < last THEN k ELSE k + 1]
  BY <1>1, WithoutAt DEF ContentOK
<1>4. \A i \in DOMAIN history : Backed(d.file, history[i].class, history[i].previous)
  <2> TAKE i \in DOMAIN history
  <2>1. PICK k \in 1..Len(old) : history[i] = old[k]
    BY <1>3
  <2> QED
    BY <1>3, <2>1 DEF ContentBacked
<1> HIDE DEF override, history
<1>5. Backed(d.file, d.class, override)'
  BY <1>2, StaysBacked
<1>6. ContentBacked(d.file, WithEntry(d.seen, d.class, override, history))'
  BY <1>4, <1>5, EntryBacked
<1>7. RolledBack(d) = WithEntry(d.seen, d.class, override, history)
  BY DEF RolledBack, override, history, last
<1> QED
  BY <1>6, <1>7

LEMMA ClerkBacked ==
  ASSUME FilesTyped, FilesBacked, NEW c \in Clerks, Clerk(c)
  PROVE  FilesBacked'
<1>0. DOMAIN draft = Clerks /\ DraftOK(draft[c]) /\ DraftBacked(draft[c])
  BY DEF FilesTyped, FilesBacked
<1>1. ASSUME NEW f \in Files, BeginApply(c, f) PROVE FilesBacked'
  <2>0. PICK class \in Tuned, rates \in Evidence, min \in Thresholds :
          \E proposal \in Reported[class][rates][min] :
            draft' = [draft EXCEPT ![c] =
              [kind |-> "apply", file |-> f, class |-> class, seen |-> files[f],
               fields |-> Delaying(BucketDelay[proposal.to]),
               backed |-> Enough(rates[proposal.from], MIN_SAMPLES) /\ Enough(rates[proposal.to], MIN_SAMPLES)]]
    BY <1>1 DEF BeginApply
  <2>1. PICK proposal \in Reported[class][rates][min] :
          draft' = [draft EXCEPT ![c] =
              [kind |-> "apply", file |-> f, class |-> class, seen |-> files[f],
               fields |-> Delaying(BucketDelay[proposal.to]),
               backed |-> Enough(rates[proposal.from], MIN_SAMPLES) /\ Enough(rates[proposal.to], MIN_SAMPLES)]]
    BY <2>0
  <2>2. Enough(rates[proposal.from], MIN_SAMPLES) /\ Enough(rates[proposal.to], MIN_SAMPLES)
    BY ProposalHasEvidence
  <2>3. PICK d : /\ d = [kind |-> "apply", file |-> f, class |-> class, seen |-> files[f],
                         fields |-> Delaying(BucketDelay[proposal.to]),
                         backed |-> Enough(rates[proposal.from], MIN_SAMPLES) /\ Enough(rates[proposal.to], MIN_SAMPLES)]
                 /\ draft' = [draft EXCEPT ![c] = d]
    BY <2>1
  <2>4. d.file = f /\ d.seen = files[f]
    BY <2>3
  <2>5. d.backed = (Enough(rates[proposal.from], MIN_SAMPLES) /\ Enough(rates[proposal.to], MIN_SAMPLES))
    BY <2>3
  <2>6. UNCHANGED <<files, registry, granted, byHand>>
    BY <1>1 DEF BeginApply
  <2> QED
    BY <2>2, <2>3, <2>4, <2>5, <2>6, BeginBacked
<1>2. ASSUME NEW f \in Files, NEW class \in Tuned, BeginRollback(c, f, class) PROVE FilesBacked'
  <2>1. PICK d : d.kind = "rollback" /\ d.file = f /\ d.seen = files[f] /\ draft' = [draft EXCEPT ![c] = d]
    BY <1>2 DEF BeginRollback
  <2>2. UNCHANGED <<files, registry, granted, byHand>>
    BY <1>2 DEF BeginRollback
  <2> QED
    BY <2>1, <2>2, BeginBacked
<1>3. ASSUME CommitApply(c) PROVE FilesBacked'
  <2> DEFINE d == draft[c]
  <2>1. /\ d.kind = "apply" /\ d.file \in Files /\ d.class \in FailureClasses /\ ContentOK(d.seen)
        /\ ContentBacked(d.file, d.seen) /\ d.backed
    BY <1>0, <1>3 DEF CommitApply, DraftOK, DraftBacked
  <2>2. granted' = granted \cup {<<d.file, d.class, d.fields.delay>>} /\ UNCHANGED byHand
    BY <1>3, <2>1 DEF CommitApply
  <2>3. EvidenceGrows /\ <<d.file, d.class, d.fields.delay>> \in granted'
    BY <2>2 DEF EvidenceGrows
  <2>4. CASE ValidPolicy(Written(d).policy)
    <3>1. Replace(c, d.file, Written(d))
      BY <1>3, <2>4 DEF CommitApply
    <3>2. PICK e : e = d
      OBVIOUS
    <3>3. ContentBacked(e.file, Written(e))'
      BY <2>1, <2>3, <3>2, WrittenBacked
    <3>4. PICK f, content : f = e.file /\ content = Written(e) /\ ContentBacked(f, content)'
      BY <3>3
    <3> QED
      BY <2>1, <2>3, <3>1, <3>2, <3>4, ReplaceBacked
  <2>5. CASE ~ValidPolicy(Written(d).policy)
    <3>1. draft' = [draft EXCEPT ![c] = NoDraft] /\ UNCHANGED <<files, registry>>
      BY <1>3, <2>5 DEF CommitApply
    <3>2. \A k \in Clerks : draft'[k] = draft[k] \/ DraftBacked(draft[k])'
      BY <1>0, <3>1 DEF DraftBacked, NoDraft
    <3> QED
      BY <2>3, <3>1, <3>2, BackedStep
  <2> QED
    BY <2>4, <2>5
<1>4. ASSUME CommitRollback(c) PROVE FilesBacked'
  <2> DEFINE d == draft[c]
  <2>1. /\ d.kind = "rollback" /\ d.file \in Files /\ d.class \in FailureClasses /\ ContentOK(d.seen)
        /\ ContentBacked(d.file, d.seen) /\ WritesOf(d.seen.history, d.class) # {} /\ EvidenceGrows
    BY <1>0, <1>4 DEF CommitRollback, DraftOK, DraftBacked, EvidenceGrows
  <2>2. Replace(c, d.file, RolledBack(d))
    BY <1>4 DEF CommitRollback, RolledBack
  <2>3. PICK e : e = d
    OBVIOUS
  <2>4. ContentBacked(e.file, RolledBack(e))'
    BY <2>1, <2>3, RolledBackBacked
  <2>5. PICK f, content : f = e.file /\ content = RolledBack(e) /\ ContentBacked(f, content)'
    BY <2>4
  <2> QED
    BY <2>1, <2>2, <2>3, <2>5, ReplaceBacked
<1> QED
  BY <1>1, <1>2, <1>3, <1>4 DEF Clerk

LEMMA HandEditBacked ==
  ASSUME FilesTyped, FilesBacked, HandEdit
  PROVE  FilesBacked'
<1>1. PICK edit \in HandEdits :
        /\ files' = [files EXCEPT ![edit.file].policy =
             [@ EXCEPT !.classes[edit.class] = edit.override,
                       !.disabled = edit.disabled, !.humanAll = edit.humanAll]]
        /\ byHand' = byHand \cup {edit} /\ UNCHANGED <<registry, draft, granted>>
  BY DEF HandEdit
<1>2. edit.file \in Files /\ edit.class \in FailureClasses
  BY OverridesAssumption
<1>3. EvidenceGrows
  BY <1>1 DEF EvidenceGrows
<1>4. Backed(edit.file, edit.class, edit.override)'
  BY <1>1 DEF Backed, Behind
<1>5. DOMAIN files = Files /\ ContentOK(files[edit.file])
  BY <1>2 DEF FilesTyped
<1>6. /\ \A f \in Files \ {edit.file} : files'[f] = files[f]
      /\ files'[edit.file].history = files[edit.file].history
      /\ \A k \in FailureClasses : files'[edit.file].policy.classes[k] =
           IF k = edit.class THEN edit.override ELSE files[edit.file].policy.classes[k]
  BY <1>1, <1>2, <1>5 DEF ContentOK, PolicyOK
<1>7. ASSUME NEW class \in FailureClasses PROVE Backed(edit.file, class, files[edit.file].policy.classes[class])'
  <2>1. PICK o : o = files'[edit.file].policy.classes[class]
    OBVIOUS
  <2>2. Backed(edit.file, class, o)'
    <3>1. CASE class = edit.class
      BY <1>4, <1>6, <2>1, <3>1
    <3>2. CASE class # edit.class
      <4>1. o = files[edit.file].policy.classes[class]
        BY <1>6, <2>1, <3>2
      <4>2. Backed(edit.file, class, o)
        BY <1>2, <4>1 DEF FilesBacked, ContentBacked
      <4> QED
        BY <1>3, <4>2, StaysBacked
    <3> QED
      BY <3>1, <3>2
  <2> QED
    BY <2>1, <2>2 DEF Backed, Behind
<1>8. \A i \in DOMAIN files'[edit.file].history :
        Backed(edit.file, files[edit.file].history[i].class, files[edit.file].history[i].previous)'
  <2> TAKE i \in DOMAIN files'[edit.file].history
  <2>1. PICK k, o : k = files[edit.file].history[i].class /\ o = files[edit.file].history[i].previous
    OBVIOUS
  <2>2. Backed(edit.file, k, o)
    BY <1>2, <1>6, <2>1 DEF FilesBacked, ContentBacked
  <2>3. Backed(edit.file, k, o)'
    BY <1>3, <2>2, StaysBacked
  <2>4. k = files'[edit.file].history[i].class /\ o = files'[edit.file].history[i].previous
    BY <1>6, <2>1
  <2> QED
    BY <2>3, <2>4 DEF Backed, Behind
<1>9. ContentBacked(edit.file, files[edit.file])'
  BY <1>7, <1>8 DEF ContentBacked
<1>10. \A f \in Files : files'[f] = files[f] \/ ContentBacked(f, files[f])'
  <2> TAKE f \in Files
  <2>1. CASE f = edit.file
    BY <1>9, <2>1
  <2> QED
    BY <1>6, <2>1
<1> QED
  BY <1>1, <1>3, <1>10, BackedStep

LEMMA ReadFilesBacked ==
  ASSUME FilesTyped, FilesBacked, NEW w \in Processes, ReadFiles(w)
  PROVE  FilesBacked'
<1>1. /\ registry' = [registry EXCEPT ![w] = [f \in Files |-> files[f].policy]] /\ UNCHANGED <<files, granted, byHand>>
      /\ DOMAIN registry = Processes
  BY DEF ReadFiles, Read, FilesTyped
<1>2. EvidenceGrows
  BY <1>1 DEF EvidenceGrows
<1>3. \A k \in Clerks : draft'[k] = draft[k] \/ DraftBacked(draft[k])'
  BY DEF ReadFiles, DraftBacked, NoDraft
<1>4. ASSUME NEW v \in Processes, NEW f \in Files, NEW class \in FailureClasses, registry'[v][f] # registry[v][f]
      PROVE  Backed(f, class, registry[v][f].classes[class])'
  <2>1. PICK o : o = files[f].policy.classes[class]
    OBVIOUS
  <2>2. Backed(f, class, o)'
    BY <1>2, <2>1, StaysBacked DEF FilesBacked, ContentBacked
  <2>3. o = registry'[v][f].classes[class]
    BY <1>1, <1>4, <2>1
  <2> QED
    BY <2>2, <2>3 DEF Backed, Behind
<1> QED
  BY <1>1, <1>2, <1>3, <1>4, BackedStep

LEMMA BackedInit == ASSUME FInit PROVE FilesBacked
<1>1. \A class \in FailureClasses : EmptyPolicy.classes[class].delay = None
  BY DEF EmptyPolicy, Unset, Fields
<1>2. \A f, class : class \in FailureClasses => Backed(f, class, EmptyPolicy.classes[class])
  BY <1>1 DEF Backed, IsSet
<1>3. /\ \A f \in Files : files[f].history = << >> /\ files[f].policy = EmptyPolicy
      /\ \A w \in Processes, f \in Files : registry[w][f] = EmptyPolicy
      /\ \A c \in Clerks : draft[c].kind = "none"
  BY DEF FInit, NoDraft
<1> QED
  BY <1>2, <1>3 DEF FilesBacked, ContentBacked, DraftBacked

-----------------------------------------------------------------------------
(* The override files under the whole of INext: whatever the receiver does   *)
(* leaves them alone, but for a restart.                                    *)

LEMMA FilesSame == ASSUME UNCHANGED fvars, FilesTyped, TrailsUndo, FilesBacked PROVE FilesTyped' /\ TrailsUndo' /\ FilesBacked'
<1>1. UNCHANGED <<files, registry, draft, begun, granted, byHand>>
  BY DEF fvars
<1>2. FilesTyped'
  BY <1>1 DEF FilesTyped, DraftOK
<1>3. TrailsUndo'
  BY <1>1, DraftUndoes DEF FilesTyped
<1>4. EvidenceGrows
  BY <1>1 DEF EvidenceGrows
<1>5. FilesBacked'
  BY <1>1, <1>4, BackedStep
<1> QED
  BY <1>2, <1>3, <1>5

\* What each step does to the files.
LEMMA FilesStep ==
  ASSUME [INext]_ivars
  PROVE  \/ UNCHANGED fvars
         \/ \E c \in Clerks : Clerk(c)
         \/ HandEdit
         \/ \E w \in Processes : ReadFiles(w)
<1>1. CASE UNCHANGED ivars
  BY <1>1 DEF ivars
<1>2. ASSUME NEW w \in Processes, (\E e \in Events : Receive(w, e)) \/ Process(w) PROVE UNCHANGED fvars
  BY <1>2 DEF Receive, Process, AskModel, RecordDecision, CreateJob
<1>3. ASSUME NEW w \in Processes, Refuse(w) \/ Restart(w) PROVE UNCHANGED fvars \/ ReadFiles(w)
  BY <1>3 DEF Refuse, Restart
<1> QED
  BY <1>1, <1>2, <1>3 DEF INext, Tick

FilesInv == FilesTyped /\ TrailsUndo /\ FilesBacked

LEMMA FilesInvariant == ISpec => []FilesInv
<1>1. IInit => FilesInv
  BY FilesInitTyped, UndoesInit, BackedInit DEF IInit, FilesInv
<1>2. FilesInv /\ [INext]_ivars => FilesInv'
  <2> SUFFICES ASSUME FilesInv, [INext]_ivars PROVE FilesInv'
    OBVIOUS
  <2>0. FilesTyped /\ TrailsUndo /\ FilesBacked
    BY DEF FilesInv
  <2>1. CASE UNCHANGED fvars
    BY <2>0, <2>1, FilesSame DEF FilesInv
  <2>2. ASSUME NEW c \in Clerks, Clerk(c) PROVE FilesInv'
    BY <2>0, <2>2, ClerkTyped, ClerkUndoes, ClerkBacked DEF FilesInv
  <2>3. CASE HandEdit
    BY <2>0, <2>3, HandEditTyped, HandEditUndoes, HandEditBacked DEF FilesInv
  <2>4. ASSUME NEW w \in Processes, ReadFiles(w) PROVE FilesInv'
    BY <2>0, <2>4, ReadFilesTyped, ReadFilesUndoes, ReadFilesBacked DEF FilesInv
  <2> QED
    BY <2>1, <2>2, <2>3, <2>4, FilesStep
<1> QED
  BY <1>1, <1>2, PTL DEF ISpec

\* Whatever clerks that take no lock read, overwrite and roll back, in whatever
\* processes, the trail of a class nobody edited by hand undoes, write by write,
\* to the empty override it began with (write_override and rollback_override).
THEOREM TrailsAlwaysUndo == ISpec => []TrailUndoes
<1>1. FilesInv => TrailUndoes
  BY TrailsShown DEF FilesInv
<1> QED
  BY <1>1, FilesInvariant, PTL

-----------------------------------------------------------------------------
(* Sooner than the table. *)

LEMMA DelayRows ==
  ASSUME NEW class \in FailureClasses \ PinnedToHuman
  PROVE  POLICY[class].delay \in Nat /\ POLICY[class].backoff \in {1, 2, 3}
<1>1. \/ class = "INSUFFICIENT_FUNDS" \/ class = "ISSUER_DOWN" \/ class = "AUTH_ABANDONED"
      \/ class = "HARD_DECLINE" \/ class = "NETWORK_TIMEOUT" \/ class = "LIMIT_EXCEEDED"
  BY DEF FailureClasses, PinnedToHuman
<1>2. CASE class = "INSUFFICIENT_FUNDS"
  BY <1>2 DEF POLICY, Entry
<1>3. CASE class = "ISSUER_DOWN"
  BY <1>3 DEF POLICY, Entry
<1>4. CASE class = "AUTH_ABANDONED"
  BY <1>4 DEF POLICY, Entry
<1>5. CASE class = "HARD_DECLINE"
  BY <1>5 DEF POLICY, Entry
<1>6. CASE class = "NETWORK_TIMEOUT"
  BY <1>6 DEF POLICY, Entry
<1>7. CASE class = "LIMIT_EXCEEDED"
  BY <1>7 DEF POLICY, Entry
<1> QED
  BY <1>1, <1>2, <1>3, <1>4, <1>5, <1>6, <1>7

LEMMA FirstDelay ==
  ASSUME NEW entry, entry.delay \in Nat, entry.backoff \in {1, 2, 3}
  PROVE  DelayFor(entry, 1) = entry.delay
<1>1. 1 ^ (1 - 1) = 1 /\ 2 ^ (1 - 1) = 1 /\ 3 ^ (1 - 1) = 1
  OBVIOUS
<1>2. entry.backoff ^ (1 - 1) = 1
  BY <1>1
<1>3. entry.delay * 1 = entry.delay
  OBVIOUS
<1> QED
  BY <1>2, <1>3 DEF DelayFor

\* The row's delay, or the one the merchant's files set.
LEMMA EffectiveDelay ==
  ASSUME NEW class \in FailureClasses \ PinnedToHuman, NEW overrides,
         EffectiveEntry(class, overrides).action \notin TerminalActions
  PROVE  LET entry == EffectiveEntry(class, overrides)
             own == overrides.classes[class]
         IN  /\ entry.delay = IF IsSet(own, "delay") THEN own.delay ELSE POLICY[class].delay
             /\ entry.backoff = POLICY[class].backoff
<1> DEFINE row0 == POLICY[class]
           own == overrides.classes[class]
           token == IF row0.token \in overrides.disabled THEN None ELSE row0.token
           disabled == row0.action \in overrides.disabled
           delay == IF IsSet(own, "delay") THEN own.delay ELSE row0.delay
           max == IF IsSet(own, "max") THEN own.max ELSE row0.max
           nudge == IF IsSet(own, "nudge") THEN own.nudge ELSE row0.nudge
<1>1. row0.action \notin TerminalActions /\ HumanEntry.action \in TerminalActions
  BY PolicyRows DEF LinkActions, TerminalActions, HumanEntry, Entry
<1>2. EffectiveEntry(class, overrides) =
        [row0 EXCEPT !.token = token, !.tokenOnly = disabled, !.delay = delay, !.max = max, !.nudge = nudge]
  BY <1>1 DEF EffectiveEntry
<1>3. ASSUME NEW t, NEW o, NEW d, NEW m, NEW n
      PROVE  LET e == [row0 EXCEPT !.token = t, !.tokenOnly = o, !.delay = d, !.max = m, !.nudge = n]
             IN  e.delay = d /\ e.backoff = row0.backoff
  BY PolicyRows
<1> HIDE DEF token, disabled, max, nudge, delay
<1>4. EffectiveEntry(class, overrides).delay = delay /\ EffectiveEntry(class, overrides).backoff = row0.backoff
  BY <1>2, <1>3
<1> QED
  BY <1>4 DEF delay

\* An automatic decision of the table waits for the delay of the row, or for the
\* one the files set.
LEMMA DecidedDelay ==
  ASSUME NEW cls, cls.class \in FailureClasses, NEW token, NEW reachable, NEW overrides,
         LET own == overrides.classes[cls.class] IN IsSet(own, "delay") => own.delay \in Nat,
         Decide(cls, 1, token, reachable, overrides).action \notin TerminalActions
  PROVE  LET own == overrides.classes[cls.class] IN
         /\ cls.class \notin PinnedToHuman
         /\ Decide(cls, 1, token, reachable, overrides).delay =
              IF IsSet(own, "delay") THEN own.delay ELSE POLICY[cls.class].delay
<1> DEFINE made == Decide(cls, 1, token, reachable, overrides)
           e == EffectiveEntry(cls.class, overrides)
           own == overrides.classes[cls.class]
<1>1. cls.class \notin PinnedToHuman /\ ~Uncertain(cls)
  BY DecidedByAPerson DEF TerminalActions
<1>2. e.action \notin TerminalActions /\ made.delay = DelayFor(e, 1)
  BY <1>1 DEF Decide, Decision, ToAPerson, TerminalActions
<1>3. e.delay = (IF IsSet(own, "delay") THEN own.delay ELSE POLICY[cls.class].delay) /\ e.backoff = POLICY[cls.class].backoff
  BY <1>1, <1>2, EffectiveDelay
<1>4. e.delay \in Nat /\ e.backoff \in {1, 2, 3}
  BY <1>1, <1>3, DelayRows
<1>5. DelayFor(e, 1) = e.delay
  BY <1>4, FirstDelay
<1> QED
  BY <1>1, <1>2, <1>3, <1>5

\* What comes after the table only takes an automatic decision away, but for the
\* page of a halted subscription.
LEMMA LaterDelay ==
  ASSUME NEW status, status # "halted", NEW class, NEW counts, NEW threshold,
         NEW decision, DOMAIN decision = {"action", "delay", "max", "nudge"},
         HistoryOverride(class, counts, threshold, SubscriptionOverride(status, class, decision)).action \notin TerminalActions
  PROVE  HistoryOverride(class, counts, threshold, SubscriptionOverride(status, class, decision)) = decision
<1> DEFINE subscribed == SubscriptionOverride(status, class, decision)
           judged == HistoryOverride(class, counts, threshold, subscribed)
<1>1. subscribed.action \notin TerminalActions => subscribed = decision
  BY DEF SubscriptionOverride, TerminalActions
<1>2. DOMAIN subscribed = {"action", "delay", "max", "nudge"}
  BY DEF SubscriptionOverride
<1>3. judged = subscribed
  <2> HIDE DEF subscribed
  <2> QED
    BY <1>2 DEF HistoryOverride, TerminalActions
<1> QED
  BY <1>1, <1>3

\* What a process knows of a merchant is backed in one of its two files.
LEMMA KnownIsBacked ==
  ASSUME FilesTyped, FilesBacked, NEW w \in Processes, NEW merchant \in Merchants, NEW class \in FailureClasses
  PROVE  LET own == OverridesFor(w, merchant).classes[class] IN
         IsSet(own, "delay") =>
           /\ own.delay \in Nat
           /\ own.delay < POLICY[class].delay => \E f \in {merchant, Default} : Behind(f, class, own.delay)
<1> DEFINE mine == registry[w][merchant].classes[class]
           base == registry[w][Default].classes[class]
           own == OverridesFor(w, merchant).classes[class]
<1>1. own = LayerFields(mine, base)
  BY DEF OverridesFor, MergedOver
<1>2. own.delay = IF IsSet(mine, "delay") THEN mine.delay ELSE base.delay
  BY <1>1 DEF LayerFields, Fields
<1>3. merchant \in Files /\ Default \in Files
  BY DEF Files
<1>4. ValidOverride(class, mine) /\ ValidOverride(class, base)
  BY <1>3 DEF FilesTyped, PolicyOK, ValidPolicy
<1>5. Backed(merchant, class, mine) /\ Backed(Default, class, base)
  BY <1>3 DEF FilesBacked
<1> HIDE DEF own, mine, base
<1>6. CASE IsSet(mine, "delay")
  BY <1>2, <1>4, <1>5, <1>6 DEF Backed, ValidOverride, IsSet, own
<1>7. CASE ~IsSet(mine, "delay")
  BY <1>2, <1>4, <1>5, <1>7 DEF Backed, ValidOverride, IsSet, own
<1> QED
  BY <1>6, <1>7

\* A decision on record that acts sooner than the table, and what is behind it.
SoonerIsBehind(d) ==
  d.action \notin TerminalActions /\ d.delay < POLICY[d.class].delay /\ row[d.payment].status # "halted"
  => \E f \in {Merchant[d.payment], Default} : Behind(f, d.class, d.delay)

SoonerInv == \A i \in DOMAIN decisions : SoonerIsBehind(decisions[i])

LEMMA SoonerStays ==
  ASSUME NEW d, Stored(d.payment), SoonerIsBehind(d), RowsStay, EvidenceGrows
  PROVE  SoonerIsBehind(d)'
<1>1. row'[d.payment] = row[d.payment]
  BY DEF RowsStay, Stored
<1>2. \A f : Behind(f, d.class, d.delay) => Behind(f, d.class, d.delay)'
  BY StaysBehind
<1> QED
  BY <1>1, <1>2 DEF SoonerIsBehind

LEMMA SoonerKept ==
  ASSUME TightInv, SoonerInv, RowsStay, EvidenceGrows, UNCHANGED decisions
  PROVE  SoonerInv'
<1> SUFFICES ASSUME NEW i \in DOMAIN decisions
             PROVE  SoonerIsBehind(decisions[i])'
  BY DEF SoonerInv
<1>1. PICK d : d = decisions[i]
  OBVIOUS
<1>2. Stored(d.payment) /\ SoonerIsBehind(d)
  BY <1>1 DEF TightInv, SoonerInv
<1>3. SoonerIsBehind(d)'
  BY <1>2, SoonerStays
<1> QED
  BY <1>1, <1>3 DEF SoonerIsBehind, Behind

LEMMA RecordSooner ==
  ASSUME TightInv, FilesTyped, FilesBacked, SoonerInv, NEW w \in Processes, RecordDecision(w)
  PROVE  SoonerInv'
<1> DEFINE p == wk[w].event[1]
           cls == wk[w].cls
           now == wk[w].now
           n == Len(decisions)
<1>1. /\ Stored(p) /\ cls.class \in FailureClasses /\ UNCHANGED <<row, fvars>>
      /\ p \in Payments /\ Merchant[p] \in Merchants
  BY IntakeAssumption DEF RecordDecision, TightInv, InHand, IInv, Handling, Named, Stored
<1>2. RowsStay /\ EvidenceGrows
  BY <1>1 DEF RowsStay, EvidenceGrows, fvars, TightInv
<1>3. PICK overrides, table, subscribed, judged :
        /\ overrides = OverridesFor(w, Merchant[p])
        /\ table = Decide(cls, 1, HasToken(p), Reachable(p), overrides)
        /\ subscribed = SubscriptionOverride(row[p].status, cls.class, table)
        /\ judged = HistoryOverride(cls.class, History(p, now), Threshold, subscribed)
        /\ decisions' = Append(decisions,
             [payment |-> p, now |-> now, class |-> cls.class, source |-> cls.source, sure |-> cls.sure,
              action |-> judged.action, delay |-> judged.delay, max |-> judged.max,
              offer |-> FirstOffer(cls.class, History(p, now), Threshold, p \in Large, judged.action)])
  BY DEF RecordDecision
<1>4. PICK made :
        /\ made.payment = p /\ made.class = cls.class /\ made.action = judged.action /\ made.delay = judged.delay
        /\ decisions' = Append(decisions, made)
  BY <1>3
<1>5. PICK action, delay, max, nudge : table = Decision(action, delay, max, nudge)
  <2>1. \E action, delay, max, nudge :
          Decide(cls, 1, HasToken(p), Reachable(p), overrides) = Decision(action, delay, max, nudge)
    BY DecideIsDecision
  <2> QED
    BY <1>3, <2>1
<1>6. SoonerIsBehind(made)
  <2> SUFFICES ASSUME judged.action \notin TerminalActions, judged.delay < POLICY[cls.class].delay,
                      row[p].status # "halted"
               PROVE  \E f \in {Merchant[p], Default} : Behind(f, cls.class, judged.delay)
    BY <1>4 DEF SoonerIsBehind
  <2>1. judged = table
    <3>1. judged = HistoryOverride(cls.class, History(p, now), Threshold, SubscriptionOverride(row[p].status, cls.class, table))
      BY <1>3
    <3>2. DOMAIN table = {"action", "delay", "max", "nudge"}
      BY <1>5 DEF Decision
    <3>3. PICK counts : counts = History(p, now)
      OBVIOUS
    <3> QED
      BY <3>1, <3>2, <3>3, LaterDelay
  <2>2. /\ IsSet(overrides.classes[cls.class], "delay") =>
             /\ overrides.classes[cls.class].delay \in Nat
             /\ overrides.classes[cls.class].delay < POLICY[cls.class].delay =>
                  \E f \in {Merchant[p], Default} : Behind(f, cls.class, overrides.classes[cls.class].delay)
    BY <1>1, <1>3, KnownIsBacked
  <2>3. Decide(cls, 1, HasToken(p), Reachable(p), overrides).action \notin TerminalActions
    BY <1>3, <2>1
  <2>4. /\ cls.class \notin PinnedToHuman
        /\ Decide(cls, 1, HasToken(p), Reachable(p), overrides).delay =
             IF IsSet(overrides.classes[cls.class], "delay") THEN overrides.classes[cls.class].delay
             ELSE POLICY[cls.class].delay
    BY <1>1, <2>2, <2>3, DecidedDelay
  <2>5. POLICY[cls.class].delay \in Nat
    BY <1>1, <2>4, DelayRows
  <2>6. ~(POLICY[cls.class].delay < POLICY[cls.class].delay)
    BY <2>5
  <2> QED
    BY <1>3, <2>1, <2>2, <2>4, <2>6
<1>7. /\ n \in Nat /\ DOMAIN decisions = 1..n /\ DOMAIN decisions' = 1..(n + 1)
      /\ decisions'[n + 1] = made /\ \A i \in 1..n : decisions'[i] = decisions[i]
  <2>1. decisions \in Seq({decisions[i] : i \in DOMAIN decisions})
    BY DEF TightInv, IInv, Recorded
  <2> QED
    BY <1>4, <2>1
<1>8. ASSUME NEW i \in DOMAIN decisions' PROVE SoonerIsBehind(decisions[i])'
  <2>1. PICK d : d = decisions'[i]
    OBVIOUS
  <2>2. Stored(d.payment) /\ SoonerIsBehind(d)
    <3>1. CASE i = n + 1
      BY <1>1, <1>4, <1>6, <1>7, <2>1, <3>1
    <3>2. CASE i \in 1..n
      BY <1>7, <2>1, <3>2 DEF TightInv, SoonerInv
    <3> QED
      BY <1>7, <3>1, <3>2
  <2>3. SoonerIsBehind(d)'
    BY <1>2, <2>2, SoonerStays
  <2> QED
    BY <2>1, <2>3 DEF SoonerIsBehind, Behind
<1> QED
  BY <1>8 DEF SoonerInv

\* A grant and a hand edit are for good.
LEMMA EvidenceKept == ASSUME [INext]_ivars PROVE EvidenceGrows
<1>1. ASSUME NEW c \in Clerks, Clerk(c) PROVE EvidenceGrows
  BY <1>1 DEF Clerk, BeginApply, CommitApply, BeginRollback, CommitRollback, EvidenceGrows
<1>2. CASE HandEdit
  BY <1>2 DEF HandEdit, EvidenceGrows
<1>3. ASSUME NEW w \in Processes, ReadFiles(w) PROVE EvidenceGrows
  BY <1>3 DEF ReadFiles, EvidenceGrows
<1>4. CASE UNCHANGED fvars
  BY <1>4 DEF fvars, EvidenceGrows
<1> QED
  BY <1>1, <1>2, <1>3, <1>4, FilesStep

\* A stored row is never written again.
LEMMA RowsKept == ASSUME TightInv, [INext]_ivars PROVE RowsStay
<1>1. ASSUME UNCHANGED row PROVE RowsStay
  BY <1>1 DEF RowsStay, TightInv
<1>2. ASSUME NEW w \in Processes, NEW e \in Events, Receive(w, e) PROVE RowsStay
  BY <1>2 DEF Receive, RowsStay, TightInv, Stored
<1>3. ASSUME NEW w \in Processes, Process(w) \/ Refuse(w) \/ Restart(w) PROVE UNCHANGED row
  BY <1>3 DEF Process, AskModel, RecordDecision, CreateJob, Refuse, Restart, pvars
<1>4. UNCHANGED pvars \/ UNCHANGED ivars \/ Tick => UNCHANGED row
  BY DEF pvars, ivars, Tick
<1> QED
  BY <1>1, <1>2, <1>3, <1>4 DEF INext

LEMMA DecisionsKept ==
  ASSUME [INext]_ivars
  PROVE  UNCHANGED decisions \/ \E w \in Processes : RecordDecision(w)
<1>1. ASSUME NEW w \in Processes, (\E e \in Events : Receive(w, e)) \/ AskModel(w) \/ CreateJob(w) \/ Refuse(w) \/ Restart(w)
      PROVE  UNCHANGED decisions
  BY <1>1 DEF Receive, AskModel, CreateJob, Refuse, Restart, pvars
<1>2. UNCHANGED pvars \/ UNCHANGED ivars \/ Tick => UNCHANGED decisions
  BY DEF pvars, ivars, Tick
<1> QED
  BY <1>1, <1>2 DEF INext, Process

\* Whichever process decided, and however old its reading of the files is: an
\* automatic decision waits less than the table only where a write with thirty
\* samples in both buckets, or a person's hand, put that delay in a file of the
\* merchant (apply_proposal of actions.py, Registry.get of merchants.py, decide).
THEOREM SoonerIsBacked == ISpec => []SoonerDecisionIsBacked
<1>1. IInit => SoonerInv
  BY DEF IInit, SoonerInv
<1>2. TightInv /\ FilesInv /\ SoonerInv /\ [INext]_ivars => SoonerInv'
  <2> SUFFICES ASSUME TightInv, FilesInv, SoonerInv, [INext]_ivars PROVE SoonerInv'
    OBVIOUS
  <2>1. RowsStay /\ EvidenceGrows
    BY RowsKept, EvidenceKept
  <2>2. CASE UNCHANGED decisions
    BY <2>1, <2>2, SoonerKept
  <2>3. ASSUME NEW w \in Processes, RecordDecision(w) PROVE SoonerInv'
    BY <2>3, RecordSooner DEF FilesInv
  <2> QED
    BY <2>2, <2>3, DecisionsKept
<1>3. SoonerInv => SoonerDecisionIsBacked
  BY DEF SoonerInv, SoonerIsBehind, Behind, SoonerDecisionIsBacked
<1> QED
  BY <1>1, <1>2, <1>3, TightInvariant, FilesInvariant, PTL DEF ISpec

-----------------------------------------------------------------------------
(* Every variable holds a value of its kind.  A job is about its payment     *)
(* because the decision a process is to schedule is.                        *)

OfItsPayment(position) == position.pc = "schedule" => decisions[position.decision].payment = position.event[1]

HandsTyped == DOMAIN wk = Processes /\ \A w \in Processes : wk[w] \in Positions /\ OfItsPayment(wk[w])

DecisionsTyped ==
  /\ decisions \in Seq({decisions[i] : i \in DOMAIN decisions})
  /\ \A i \in DOMAIN decisions : decisions[i].payment \in Payments /\ decisions[i].action \in Actions

JobsTyped ==
  /\ DOMAIN job = Payments
  /\ \A p \in Payments :
       job[p] # None => job[p].decision \in DOMAIN decisions /\ decisions[job[p].decision].payment = p

CountsTyped == deliveries \in [Events -> Nat] /\ acked \subseteq Events /\ failures \in 0..MaxFailures

RowsTyped ==
  /\ clock \in 0..MaxTime
  /\ row \in [Payments -> [status : Kinds, token : BOOLEAN, failedAt : 0..clock] \cup {None}]

IntakeTyped == RowsTyped /\ HandsTyped /\ DecisionsTyped /\ JobsTyped /\ CountsTyped

\* The decisions on record are only added to, and the clock goes on.
DecisionsStay ==
  /\ {clock, clock'} \subseteq Nat /\ clock <= clock'
  /\ DOMAIN decisions \subseteq DOMAIN decisions'
  /\ \A i \in DOMAIN decisions : decisions'[i] = decisions[i]

LEMMA PositionStays ==
  ASSUME DecisionsStay, NEW position \in Positions, OfItsPayment(position)
  PROVE  (position \in Positions /\ OfItsPayment(position))'
<1>1. position.pc = "schedule" => position.decision \in DOMAIN decisions
  BY DEF Positions, Idle
<1>2. OfItsPayment(position)'
  BY <1>1 DEF OfItsPayment, DecisionsStay
<1>3. (position \in Positions)'
  BY DEF Positions, DecisionsStay
<1> QED
  BY <1>2, <1>3

LEMMA HandMoved ==
  ASSUME HandsTyped, DecisionsStay, NEW w \in Processes, NEW position, Goto(w, position),
         (position \in Positions)', OfItsPayment(position)'
  PROVE  HandsTyped'
<1>1. DOMAIN wk' = Processes /\ wk'[w] = position /\ \A v \in Processes \ {w} : wk'[v] = wk[v]
  BY DEF Goto, HandsTyped
<1>2. ASSUME NEW v \in Processes PROVE (wk[v] \in Positions /\ OfItsPayment(wk[v]))'
  <2>1. PICK x : x = wk'[v]
    OBVIOUS
  <2>2. (x \in Positions /\ OfItsPayment(x))'
    <3>1. CASE v = w
      BY <1>1, <2>1, <3>1
    <3>2. CASE v # w
      BY <1>1, <2>1, <3>2, PositionStays DEF HandsTyped
    <3> QED
      BY <3>1, <3>2
  <2> QED
    BY <2>1, <2>2 DEF OfItsPayment
<1> QED
  BY <1>1, <1>2 DEF HandsTyped

LEMMA HandsStay ==
  ASSUME HandsTyped, DecisionsStay, UNCHANGED wk
  PROVE  HandsTyped'
<1>1. ASSUME NEW v \in Processes PROVE (wk[v] \in Positions /\ OfItsPayment(wk[v]))'
  <2>1. PICK x : x = wk[v]
    OBVIOUS
  <2>2. (x \in Positions /\ OfItsPayment(x))'
    BY <2>1, PositionStays DEF HandsTyped
  <2> QED
    BY <2>1, <2>2 DEF OfItsPayment
<1> QED
  BY <1>1 DEF HandsTyped

\* The step changes nothing but what its lemma looks at.
LEMMA SameDecisions ==
  ASSUME RowsTyped, UNCHANGED <<decisions, clock>>
  PROVE  DecisionsStay /\ (DecisionsTyped => DecisionsTyped') /\ (UNCHANGED job /\ JobsTyped => JobsTyped')
  BY IntakeAssumption DEF DecisionsStay, DecisionsTyped, JobsTyped, RowsTyped

LEMMA IdlePosition == Idle \in Positions /\ OfItsPayment(Idle)
  BY DEF Positions, OfItsPayment, Idle

LEMMA ReceiveTyped ==
  ASSUME IntakeTyped, NEW w \in Processes, NEW e \in Events, Receive(w, e)
  PROVE  IntakeTyped'
<1> DEFINE p == e[1]
           asking == [pc |-> "ask", event |-> e, now |-> clock, asked |-> 0]
           deciding == [pc |-> "decide", event |-> e, now |-> clock, cls |-> Classified(ClassOf[p], "rules", TRUE)]
<1>1. p \in Payments /\ e[2] \in Kinds /\ ClassOf[p] \in FailureClasses
  BY IntakeAssumption, ClassIsKnown
<1>2. RowsTyped'
  <2>2. PICK at \in 0..clock : row' = [row EXCEPT ![p] = IF @ = None THEN Parsed(e, at) ELSE @] /\ UNCHANGED clock
    BY DEF Receive
  <2>1. Parsed(e, at) \in [status : Kinds, token : BOOLEAN, failedAt : 0..clock]
    BY <1>1 DEF Parsed, ParsedFailure, ParsedSubscription, Kinds
  <2> QED
    BY <1>1, <2>1, <2>2 DEF RowsTyped, IntakeTyped
<1>3. UNCHANGED <<decisions, job, acked, failures, clock>> /\ deliveries' = [deliveries EXCEPT ![e] = @ + 1]
  BY DEF Receive
<1>0. clock \in 0..clock /\ clock' = clock
  BY <1>3, IntakeAssumption DEF IntakeTyped, RowsTyped
<1>4. CountsTyped'
  BY <1>3 DEF CountsTyped, IntakeTyped
<1>5. DecisionsStay /\ DecisionsTyped' /\ JobsTyped'
  BY <1>3, SameDecisions DEF IntakeTyped
<1>6. HandsTyped'
  <2>1. CASE ClassOf[p] = "UNKNOWN"
    <3>1. Goto(w, asking)
      BY <2>1 DEF Receive
    <3>2. asking \in [pc : {"ask"}, event : Events, now : 0..clock, asked : 0..1] /\ asking.pc = "ask"
      BY <1>0
    <3>3. PICK x : x = asking
      OBVIOUS
    <3>4. (x \in Positions)' /\ OfItsPayment(x)'
      BY <1>0, <3>2, <3>3 DEF Positions, OfItsPayment
    <3> HIDE DEF asking
    <3> QED
      BY <1>5, <3>1, <3>3, <3>4, HandMoved DEF IntakeTyped
  <2>2. CASE ClassOf[p] # "UNKNOWN"
    <3>1. Goto(w, deciding)
      BY <2>2 DEF Receive
    <3>2. /\ deciding \in [pc : {"decide"}, event : Events, now : 0..clock,
                           cls : [class : FailureClasses, source : {"rules", "llm", "fallback"}, sure : BOOLEAN]]
          /\ deciding.pc = "decide"
      BY <1>0, <1>1 DEF Classified
    <3>3. PICK x : x = deciding
      OBVIOUS
    <3>4. (x \in Positions)' /\ OfItsPayment(x)'
      BY <1>0, <3>2, <3>3 DEF Positions, OfItsPayment
    <3> HIDE DEF deciding
    <3> QED
      BY <1>5, <3>1, <3>3, <3>4, HandMoved DEF IntakeTyped
  <2> QED
    BY <2>1, <2>2
<1> QED
  BY <1>2, <1>4, <1>5, <1>6 DEF IntakeTyped

LEMMA AskTyped ==
  ASSUME IntakeTyped, NEW w \in Processes, AskModel(w)
  PROVE  IntakeTyped'
<1> DEFINE e == wk[w].event
           answered(cls) == [pc |-> "decide", event |-> e, now |-> wk[w].now, cls |-> cls]
           Answers == [class : FailureClasses, source : {"rules", "llm", "fallback"}, sure : BOOLEAN]
<1>1. wk[w].pc = "ask" /\ UNCHANGED <<row, decisions, job, deliveries, acked, failures, clock>>
  BY DEF AskModel
<1>2. wk[w] \in [pc : {"ask"}, event : Events, now : 0..clock, asked : 0..1]
  BY <1>1 DEF IntakeTyped, HandsTyped, Positions, Idle
<1>3. DecisionsStay /\ DecisionsTyped' /\ JobsTyped'
  BY <1>1, SameDecisions DEF IntakeTyped
<1>4. ASSUME NEW cls \in Answers, Goto(w, answered(cls)) PROVE HandsTyped'
  <2>0. PICK x : x = answered(cls)
    OBVIOUS
  <2>1. x \in [pc : {"decide"}, event : Events, now : 0..clock, cls : Answers] /\ x.pc = "decide"
    BY <1>2, <2>0
  <2>2. (x \in Positions)' /\ OfItsPayment(x)'
    BY <1>1, <2>1 DEF Positions, OfItsPayment
  <2>3. Goto(w, x)
    BY <1>4, <2>0
  <2> QED
    BY <1>3, <2>2, <2>3, HandMoved DEF IntakeTyped
<1>5. ASSUME Goto(w, [wk[w] EXCEPT !.asked = 1]) PROVE HandsTyped'
  <2>0. PICK x : x = [wk[w] EXCEPT !.asked = 1]
    OBVIOUS
  <2>1. x \in [pc : {"ask"}, event : Events, now : 0..clock, asked : 0..1] /\ x.pc = "ask"
    BY <1>2, <2>0
  <2>2. (x \in Positions)' /\ OfItsPayment(x)'
    BY <1>1, <2>1 DEF Positions, OfItsPayment
  <2>3. Goto(w, x)
    BY <1>5, <2>0
  <2> QED
    BY <1>3, <2>2, <2>3, HandMoved DEF IntakeTyped
<1>6. \A guess \in Guesses : Classified(guess.class, "llm", guess.sure) \in Answers
  BY IntakeAssumption DEF Classified
<1>7. Fallback \in Answers
  BY DEF Fallback, Classified, FailureClasses
<1>8. HandsTyped'
  <2>1. \/ \E guess \in Guesses : Goto(w, answered(Classified(guess.class, "llm", guess.sure)))
        \/ Goto(w, [wk[w] EXCEPT !.asked = 1])
        \/ Goto(w, answered(Fallback))
    BY DEF AskModel
  <2> QED
    BY <1>4, <1>5, <1>6, <1>7, <2>1
<1>9. RowsTyped' /\ CountsTyped'
  BY <1>1 DEF IntakeTyped, RowsTyped, CountsTyped
<1> QED
  BY <1>3, <1>8, <1>9 DEF IntakeTyped

LEMMA DecidedAction ==
  ASSUME NEW cls, cls.class \in FailureClasses, NEW token, NEW reachable, NEW overrides
  PROVE  Decide(cls, 1, token, reachable, overrides).action \in Actions
<1> DEFINE e == EffectiveEntry(cls.class, overrides)
           made == Decide(cls, 1, token, reachable, overrides)
<1>1. CASE Uncertain(cls) \/ cls.class \in PinnedToHuman
  BY <1>1, DecidedByAPerson DEF Actions
<1>2. CASE ~Uncertain(cls) /\ cls.class \notin PinnedToHuman
  <2>1. e.action = "human_queue" \/ (e.action \in LinkActions /\ e.token \in {None, "token_retry"})
    <3>1. e.action = "human_queue" \/ (e.action = POLICY[cls.class].action /\ e.token \in {None, POLICY[cls.class].token})
      BY <1>2, EffectiveRow
    <3>2. POLICY[cls.class].action \in LinkActions /\ POLICY[cls.class].token \in {None, "token_retry"}
      BY <1>2, PolicyRows
    <3> QED
      BY <3>1, <3>2
  <2> HIDE DEF e
  <2>2. \/ made.action \in {"human_queue", "no_action"}
        \/ made.action = e.action /\ e.action \in LinkActions
        \/ made.action = e.token /\ e.token = "token_retry"
    BY <1>2, <2>1 DEF Decide, Decision, ToAPerson, TerminalActions, LinkActions, e
  <2> QED
    BY <2>2 DEF LinkActions, Actions
<1> QED
  BY <1>1, <1>2

LEMMA LaterAction ==
  ASSUME NEW status, NEW class, NEW counts, NEW threshold, NEW decision,
         DOMAIN decision = {"action", "delay", "max", "nudge"}, decision.action \in Actions
  PROVE  HistoryOverride(class, counts, threshold, SubscriptionOverride(status, class, decision)).action \in Actions
<1> DEFINE subscribed == SubscriptionOverride(status, class, decision)
<1>1. subscribed.action \in Actions /\ DOMAIN subscribed = {"action", "delay", "max", "nudge"}
  BY DEF SubscriptionOverride, Actions
<1> HIDE DEF subscribed
<1>2. HistoryOverride(class, counts, threshold, subscribed).action \in Actions
  BY <1>1 DEF HistoryOverride, Actions
<1> QED
  BY <1>2 DEF subscribed

LEMMA RecordTyped ==
  ASSUME IntakeTyped, NEW w \in Processes, RecordDecision(w)
  PROVE  IntakeTyped'
<1> DEFINE p == wk[w].event[1]
           cls == wk[w].cls
           now == wk[w].now
           n == Len(decisions)
           position == [pc |-> "schedule", event |-> wk[w].event, decision |-> n + 1]
<1>1. wk[w].pc = "decide" /\ UNCHANGED <<row, job, deliveries, acked, failures, clock>> /\ Goto(w, position)
  BY DEF RecordDecision
<1>2. wk[w].event \in Events /\ cls.class \in FailureClasses /\ p \in Payments
  <2>1. wk[w] \in [pc : {"decide"}, event : Events, now : 0..clock,
                   cls : [class : FailureClasses, source : {"rules", "llm", "fallback"}, sure : BOOLEAN]]
    BY <1>1 DEF IntakeTyped, HandsTyped, Positions, Idle
  <2> QED
    BY <2>1, IntakeAssumption
<1>3. PICK overrides, table, subscribed, judged :
        /\ table = Decide(cls, 1, HasToken(p), Reachable(p), overrides)
        /\ subscribed = SubscriptionOverride(row[p].status, cls.class, table)
        /\ judged = HistoryOverride(cls.class, History(p, now), Threshold, subscribed)
        /\ decisions' = Append(decisions,
             [payment |-> p, now |-> now, class |-> cls.class, source |-> cls.source, sure |-> cls.sure,
              action |-> judged.action, delay |-> judged.delay, max |-> judged.max,
              offer |-> FirstOffer(cls.class, History(p, now), Threshold, p \in Large, judged.action)])
  BY DEF RecordDecision
<1>4. PICK made : made.payment = p /\ made.action = judged.action /\ decisions' = Append(decisions, made)
  BY <1>3
<1>5. made.action \in Actions
  <2>1. table.action \in Actions /\ DOMAIN table = {"action", "delay", "max", "nudge"}
    <3>1. Decide(cls, 1, HasToken(p), Reachable(p), overrides).action \in Actions
      BY <1>2, DecidedAction
    <3>2. PICK action, delay, max, nudge :
            Decide(cls, 1, HasToken(p), Reachable(p), overrides) = Decision(action, delay, max, nudge)
      BY DecideIsDecision
    <3> QED
      BY <1>3, <3>1, <3>2 DEF Decision
  <2>2. PICK counts : counts = History(p, now)
    OBVIOUS
  <2>3. judged = HistoryOverride(cls.class, counts, Threshold, SubscriptionOverride(row[p].status, cls.class, table))
    BY <1>3, <2>2
  <2> QED
    BY <1>4, <2>1, <2>3, LaterAction
<1>6. /\ n \in Nat /\ DOMAIN decisions = 1..n /\ DOMAIN decisions' = 1..(n + 1)
      /\ decisions'[n + 1] = made /\ \A i \in 1..n : decisions'[i] = decisions[i]
      /\ decisions' \in Seq({decisions'[i] : i \in DOMAIN decisions'})
  <2> DEFINE old == {decisions[i] : i \in DOMAIN decisions}
  <2>1. decisions \in Seq(old)
    BY DEF IntakeTyped, DecisionsTyped
  <2> HIDE DEF old
  <2>2. /\ n \in Nat /\ DOMAIN decisions = 1..n /\ DOMAIN decisions' = 1..(n + 1)
        /\ decisions'[n + 1] = made /\ \A i \in 1..n : decisions'[i] = decisions[i]
        /\ decisions' \in Seq(old \cup {made})
    BY <1>4, <2>1
  <2>3. IsSeq(decisions')
    BY <2>2, SomeSeq
  <2> QED
    BY <2>2, <2>3 DEF IsSeq
<1>7. DecisionsStay
  BY <1>1, <1>6, IntakeAssumption DEF DecisionsStay, IntakeTyped, RowsTyped
<1>8. DecisionsTyped'
  BY <1>2, <1>4, <1>5, <1>6 DEF DecisionsTyped, IntakeTyped
<1>9. JobsTyped'
  BY <1>1, <1>7 DEF JobsTyped, IntakeTyped, DecisionsStay
<1>10. HandsTyped'
  <2>0. PICK x : x = position
    OBVIOUS
  <2>1. /\ x.pc = "schedule" /\ x.event = wk[w].event /\ x.decision = n + 1
        /\ x \in [pc : {"schedule"}, event : Events, decision : DOMAIN decisions']
    BY <1>2, <1>6, <2>0
  <2>2. (x \in Positions)'
    BY <2>1 DEF Positions
  <2>3. OfItsPayment(x)'
    BY <1>4, <1>6, <2>1 DEF OfItsPayment
  <2> QED
    BY <1>1, <1>7, <2>0, <2>2, <2>3, HandMoved DEF IntakeTyped
<1>11. RowsTyped' /\ CountsTyped'
  BY <1>1 DEF IntakeTyped, RowsTyped, CountsTyped
<1> QED
  BY <1>8, <1>9, <1>10, <1>11 DEF IntakeTyped

LEMMA CreateTyped ==
  ASSUME IntakeTyped, NEW w \in Processes, CreateJob(w)
  PROVE  IntakeTyped'
<1> DEFINE p == wk[w].event[1]
<1>1. /\ wk[w].pc = "schedule" /\ UNCHANGED <<row, decisions, deliveries, failures, clock>> /\ Goto(w, Idle)
      /\ acked' = acked \cup {wk[w].event}
  BY DEF CreateJob
<1>2. /\ wk[w].event \in Events /\ wk[w].decision \in DOMAIN decisions /\ p \in Payments
      /\ decisions[wk[w].decision].payment = p
  <2>1. wk[w] \in [pc : {"schedule"}, event : Events, decision : DOMAIN decisions] /\ OfItsPayment(wk[w])
    BY <1>1 DEF IntakeTyped, HandsTyped, Positions, Idle
  <2> QED
    BY <1>1, <2>1, IntakeAssumption DEF OfItsPayment
<1>3. DecisionsStay /\ DecisionsTyped'
  BY <1>1, SameDecisions DEF IntakeTyped
<1>4. JobsTyped'
  <2>1. CASE UNCHANGED job
    BY <1>1, <2>1, SameDecisions DEF IntakeTyped
  <2>2. CASE job[p] = None
    <3>1. PICK new : new.decision = wk[w].decision /\ job' = [job EXCEPT ![p] = new]
      BY <2>2 DEF CreateJob
    <3> QED
      BY <1>1, <1>2, <3>1 DEF JobsTyped, IntakeTyped
  <2> QED
    BY <2>1, <2>2 DEF CreateJob
<1>5. HandsTyped'
  <2>1. (Idle \in Positions /\ OfItsPayment(Idle))'
    BY <1>3, IdlePosition, PositionStays
  <2> QED
    BY <1>1, <1>3, <2>1, HandMoved DEF IntakeTyped
<1>6. RowsTyped' /\ CountsTyped'
  BY <1>1, <1>2 DEF IntakeTyped, RowsTyped, CountsTyped
<1> QED
  BY <1>3, <1>4, <1>5, <1>6 DEF IntakeTyped

LEMMA RefuseTyped ==
  ASSUME IntakeTyped, NEW w \in Processes, Refuse(w)
  PROVE  IntakeTyped'
<1>1. /\ UNCHANGED <<row, decisions, job, deliveries, acked, clock>> /\ Goto(w, Idle)
      /\ failures < MaxFailures /\ failures' = failures + 1
  BY DEF Refuse
<1>2. DecisionsStay /\ DecisionsTyped' /\ JobsTyped'
  BY <1>1, SameDecisions DEF IntakeTyped
<1>3. HandsTyped'
  <2>1. (Idle \in Positions /\ OfItsPayment(Idle))'
    BY <1>2, IdlePosition, PositionStays
  <2> QED
    BY <1>1, <1>2, <2>1, HandMoved DEF IntakeTyped
<1>4. MaxFailures \in Nat
  BY IntakeAssumption
<1>5. RowsTyped' /\ CountsTyped'
  BY <1>1, <1>4 DEF IntakeTyped, RowsTyped, CountsTyped
<1> QED
  BY <1>2, <1>3, <1>5 DEF IntakeTyped

LEMMA IntakeStays == ASSUME IntakeTyped, UNCHANGED pvars PROVE IntakeTyped'
<1>1. UNCHANGED <<row, decisions, job, wk, deliveries, acked, failures, clock>>
  BY DEF pvars
<1>2. DecisionsStay /\ DecisionsTyped' /\ JobsTyped'
  BY <1>1, SameDecisions DEF IntakeTyped
<1>3. HandsTyped'
  BY <1>1, <1>2, HandsStay DEF IntakeTyped
<1>4. RowsTyped' /\ CountsTyped'
  BY <1>1 DEF IntakeTyped, RowsTyped, CountsTyped
<1> QED
  BY <1>2, <1>3, <1>4 DEF IntakeTyped

LEMMA TickTyped == ASSUME IntakeTyped, Tick PROVE IntakeTyped'
<1>1. clock \in 0..MaxTime /\ clock' = clock + 1 /\ clock' \in 0..MaxTime
  BY IntakeAssumption DEF Tick, IntakeTyped, RowsTyped
<1>2. UNCHANGED <<row, decisions, job, wk, deliveries, acked, failures>>
  BY DEF Tick
<1>3. DecisionsStay
  BY <1>1, <1>2, IntakeAssumption DEF DecisionsStay
<1>4. HandsTyped'
  BY <1>2, <1>3, HandsStay DEF IntakeTyped
<1>5. RowsTyped'
  BY <1>1, <1>2, IntakeAssumption DEF IntakeTyped, RowsTyped
<1> QED
  BY <1>2, <1>4, <1>5 DEF IntakeTyped, DecisionsTyped, JobsTyped, CountsTyped

LEMMA IntakeTypedInit == ASSUME IInit PROVE IntakeTyped
<1>1. DOMAIN wk = Processes /\ \A w \in Processes : wk[w] = Idle
  BY DEF IInit
<1>2. HandsTyped
  BY <1>1, IdlePosition DEF HandsTyped
<1>3. DecisionsTyped
  BY DEF IInit, DecisionsTyped
<1>4. MaxFailures \in Nat
  BY IntakeAssumption
<1>5. RowsTyped /\ JobsTyped /\ CountsTyped
  BY <1>4, IntakeAssumption DEF IInit, RowsTyped, JobsTyped, CountsTyped
<1> QED
  BY <1>2, <1>3, <1>5 DEF IntakeTyped

\* Whatever a process has read of a file the schema accepts, an event is put to
\* the model at most twice, a job's decision is on record and about its payment
\* (Registry.load of merchants.py, classify_unmapped of llm.py, the stages of
\* pipeline.py).
THEOREM IntakeTypeCorrect == ISpec => []IntakeTypeOK
<1>1. IInit => IntakeTyped
  BY IntakeTypedInit
<1>2. IntakeTyped /\ [INext]_ivars => IntakeTyped'
  <2> SUFFICES ASSUME IntakeTyped, [INext]_ivars PROVE IntakeTyped'
    OBVIOUS
  <2>1. ASSUME NEW w \in Processes, NEW e \in Events, Receive(w, e) PROVE IntakeTyped'
    BY <2>1, ReceiveTyped
  <2>2. ASSUME NEW w \in Processes, Process(w) PROVE IntakeTyped'
    BY <2>2, AskTyped, RecordTyped, CreateTyped DEF Process
  <2>3. ASSUME NEW w \in Processes, Refuse(w) \/ Restart(w) PROVE IntakeTyped'
    BY <2>3, RefuseTyped, IntakeStays DEF Restart
  <2>4. CASE UNCHANGED pvars
    BY <2>4, IntakeStays
  <2>5. UNCHANGED ivars => UNCHANGED pvars
    BY DEF ivars
  <2> QED
    BY <2>1, <2>2, <2>3, <2>4, <2>5, TickTyped DEF INext
<1>3. IntakeTyped /\ FilesInv => IntakeTypeOK
  <2> SUFFICES ASSUME IntakeTyped, FilesInv PROVE IntakeTypeOK
    OBVIOUS
  <2>1. /\ \A f \in Files : ValidPolicy(files[f].policy) /\ Len(files[f].history) <= begun
        /\ \A w \in Processes, f \in Files : ValidPolicy(registry[w][f])
    BY DEF FilesInv, FilesTyped, ContentOK, PolicyOK
  <2>2. \A policy \in {files[f].policy : f \in Files} \cup UNION {{registry[w][f] : f \in Files} : w \in Processes} :
          ValidPolicy(policy)
    BY <2>1
  <2> QED
    BY <2>1, <2>2 DEF IntakeTyped, RowsTyped, HandsTyped, DecisionsTyped, JobsTyped, CountsTyped, IntakeTypeOK
<1> QED
  BY <1>1, <1>2, <1>3, FilesInvariant, PTL DEF ISpec
=============================================================================
