------------------------------- MODULE Intake -------------------------------
(***************************************************************************)
(* A failed payment from its webhook to its first job: app/ingest.py, the   *)
(* stages of app/pipeline.py, the class of Classify or of the model of      *)
(* app/llm.py, the decision of Policy under the override files a process    *)
(* has read.                                                               *)
(*                                                                         *)
(* A step is at most one commit or one call to the model.  The receiver of  *)
(* serve handles one event at a time, under its lock; a command handles     *)
(* events in a process of its own.  What becomes of the job is the subject  *)
(* of Executor and Settlement.                                              *)
(***************************************************************************)
EXTENDS Overrides, Classify

CONSTANTS
  Payments,
  Events,        (* <<payment, kind>>: the webhooks that carry each payment *)
  Error,         (* each payment's error object                             *)
  Merchant,
  Customer,      (* the phone or email, None when the event has neither     *)
  Token,         (* payments with a saved token                             *)
  Large,         (* payments of an amount a partial offer is made for       *)
  Threshold,     (* REPEAT_THRESHOLD                                        *)
  Window,        (* REPEAT_WINDOW_DAYS: how far a history reaches back      *)
  Guesses,       (* what the model may answer: [class, sure]                *)
  MaxDeliveries, (* bound on the deliveries of an event                     *)
  MaxFailures,   (* bound on the processings that fail midway               *)
  MaxTime        (* bound on the clock                                      *)

Kinds == {"failed", "pending", "halted"}

ASSUME IntakeAssumption ==
  /\ Events \subseteq Payments \X Kinds
  /\ Error \in [Payments -> Signals]
  /\ Merchant \in [Payments -> Merchants]
  /\ Token \subseteq Payments /\ Large \subseteq Payments
  /\ Guesses \subseteq [class : FailureClasses, sure : BOOLEAN]
  /\ {Threshold, Window, MaxDeliveries, MaxFailures, MaxTime} \subseteq Nat
  /\ None \notin [status : Kinds, token : BOOLEAN, failedAt : 0..MaxTime]

VARIABLES
  row,        (* payment_attempts: what the event said of each, or None     *)
  decisions,  (* recovery_decisions in the order of their ids, each with    *)
              (* the now of its event                                       *)
  job,        (* the first job of each payment, or None                     *)
  wk,         (* the pipeline of each process                               *)
  deliveries, (* deliveries of each event                                   *)
  acked,      (* events answered 200                                        *)
  failures,
  clock       (* utcnow                                                     *)

pvars == <<row, decisions, job, wk, deliveries, acked, failures, clock>>
ivars == <<fvars, pvars>>

Idle == [pc |-> "idle"]
Goto(w, position) == wk' = [wk EXCEPT ![w] = position]

IInit ==
  /\ FInit
  /\ row = [p \in Payments |-> None]
  /\ decisions = <<>>
  /\ job = [p \in Payments |-> None]
  /\ wk = [w \in Processes |-> Idle]
  /\ deliveries = [e \in Events |-> 0]
  /\ acked = {}
  /\ failures = 0
  /\ clock = 0

-----------------------------------------------------------------------------
(* What the receiver reads off an event. *)

ClassOf == [p \in Payments |-> Classify(Error[p])]

\* payment.failed: the saved token is the one the entity names.  The failure was
\* at some time before its event came in.
ParsedFailure(p, at) == [status |-> "failed", token |-> p \in Token, failedAt |-> at]

\* subscription.pending and subscription.halted: the mandate is the token.
ParsedSubscription(kind, at) == [status |-> kind, token |-> TRUE, failedAt |-> at]

Parsed(e, at) == IF e[2] = "failed" THEN ParsedFailure(e[1], at) ELSE ParsedSubscription(e[2], at)

-----------------------------------------------------------------------------
(* The receiver. *)

\* broken: a redelivery of a stored row is answered without processing it
ReceiveStoredIsDone(w, e) ==
  LET p == e[1]
      class == ClassOf[p]
  IN  /\ wk[w] = Idle
      /\ deliveries[e] < MaxDeliveries + (IF e \in acked THEN 0 ELSE failures)
      /\ deliveries' = [deliveries EXCEPT ![e] = @ + 1]
      /\ \E at \in 0..clock : row' = [row EXCEPT ![p] = IF @ = None THEN Parsed(e, at) ELSE @]
      /\ IF row[p] = None
         THEN Goto(w, IF class = "UNKNOWN" THEN [pc |-> "ask", event |-> e, now |-> clock, asked |-> 0]
                      ELSE [pc |-> "decide", event |-> e, now |-> clock, cls |-> Classified(class, "rules", TRUE)])
         ELSE UNCHANGED wk
      /\ acked' = IF row[p] = None THEN acked ELSE acked \cup {e}
      /\ UNCHANGED <<fvars, decisions, job, failures, clock>>

\* A redelivery finds its row and leaves it untouched; it is processed all
\* the same, and the job's key decides.  What is decided is decided as of now,
\* however long the model takes.
Receive(w, e) ==
  LET p == e[1]
      class == ClassOf[p]
  IN  /\ wk[w] = Idle
      /\ deliveries[e] < MaxDeliveries + (IF e \in acked THEN 0 ELSE failures)
      /\ deliveries' = [deliveries EXCEPT ![e] = @ + 1]
      /\ \E at \in 0..clock : row' = [row EXCEPT ![p] = IF @ = None THEN Parsed(e, at) ELSE @]
      /\ Goto(w, IF class = "UNKNOWN" THEN [pc |-> "ask", event |-> e, now |-> clock, asked |-> 0]
                 ELSE [pc |-> "decide", event |-> e, now |-> clock, cls |-> Classified(class, "rules", TRUE)])
      /\ UNCHANGED <<fvars, decisions, job, acked, failures, clock>>

-----------------------------------------------------------------------------
(* classify_unmapped. *)

Fallback == Classified("UNKNOWN", "fallback", FALSE)

\* broken: a bad answer is asked for again without a limit
AskModelAgain(w) ==
  /\ wk[w].pc = "ask"
  /\ LET decide(cls) == Goto(w, [pc |-> "decide", event |-> wk[w].event, now |-> wk[w].now, cls |-> cls]) IN
     \/ \E guess \in Guesses : decide(Classified(guess.class, "llm", guess.sure))
     \/ Goto(w, [wk[w] EXCEPT !.asked = @ + 1])
     \/ decide(Fallback)
  /\ UNCHANGED <<fvars, row, decisions, job, deliveries, acked, failures, clock>>

\* An answer outside the schema is asked for again once.  No model, a refusal,
\* a truncated or a second bad answer, an error or a recording that has no
\* such request: the class stays UNKNOWN.
AskModel(w) ==
  /\ wk[w].pc = "ask"
  /\ LET decide(cls) == Goto(w, [pc |-> "decide", event |-> wk[w].event, now |-> wk[w].now, cls |-> cls]) IN
     \/ \E guess \in Guesses : decide(Classified(guess.class, "llm", guess.sure))
     \/ wk[w].asked = 0 /\ Goto(w, [wk[w] EXCEPT !.asked = 1])
     \/ decide(Fallback)
  /\ UNCHANGED <<fvars, row, decisions, job, deliveries, acked, failures, clock>>

-----------------------------------------------------------------------------
(* The decision. *)

HasToken(p) == row[p].token
Reachable(p) == Customer[p] # None

\* broken: a failure of this very moment is left out
InWindowBefore(q, now) == now < row[q].failedAt + Window /\ row[q].failedAt < now

\* The window reaches back from the now of the event that is decided.
InWindow(q, now) == now < row[q].failedAt + Window /\ row[q].failedAt <= now

\* The failures of the same customer at the same merchant in the window before
\* now, by the class of any decision made about them.
History(p, now) ==
  [class \in FailureClasses |->
     Cardinality({q \in Payments \ {p} :
       /\ Customer[q] = Customer[p] /\ Customer[p] # None
       /\ Merchant[q] = Merchant[p]
       /\ row[q] # None /\ InWindow(q, now)
       /\ \E i \in DOMAIN decisions : decisions[i].payment = q /\ decisions[i].class = class})]

\* The table under the merchant's overrides, then the subscription's, then the
\* customer's history.  The decision is committed before the job; its history is
\* read in the transaction that writes it.
RecordDecision(w) ==
  /\ wk[w].pc = "decide"
  /\ Goto(w, [pc |-> "schedule", event |-> wk[w].event, decision |-> Len(decisions) + 1])
  /\ LET p == wk[w].event[1]
         cls == wk[w].cls
         now == wk[w].now
     IN  \E overrides \in {OverridesFor(w, Merchant[p])} :
         \E table \in {Decide(cls, 1, HasToken(p), Reachable(p), overrides)} :
         \E subscribed \in {SubscriptionOverride(row[p].status, cls.class, table)} :
         \E judged \in {HistoryOverride(cls.class, History(p, now), Threshold, subscribed)} :
           decisions' = Append(decisions,
             [payment |-> p, now |-> now, class |-> cls.class, source |-> cls.source, sure |-> cls.sure,
              action |-> judged.action, delay |-> judged.delay, max |-> judged.max,
              offer |-> FirstOffer(cls.class, History(p, now), Threshold, p \in Large, judged.action)])
  /\ UNCHANGED <<fvars, row, job, deliveries, acked, failures, clock>>

LinkSource(p, action) ==
  IF action \notin LinkActions THEN "none"
  ELSE IF row[p].status = "halted" THEN "subscription_url" ELSE "payment_link"

\* The job's key is the payment's: a second one is skipped as a duplicate.
\* The event is acknowledged either way.
CreateJob(w) ==
  /\ wk[w].pc = "schedule"
  /\ LET p == wk[w].event[1]
         made == decisions[wk[w].decision]
     IN  IF job[p] = None
         THEN job' = [job EXCEPT ![p] =
                [decision |-> wk[w].decision, action |-> made.action, offer |-> made.offer,
                 source |-> LinkSource(p, made.action)]]
         ELSE UNCHANGED job
  /\ acked' = acked \cup {wk[w].event}
  /\ Goto(w, Idle)
  /\ UNCHANGED <<fvars, row, decisions, deliveries, failures, clock>>

\* The database refuses a write, or the process is lost and starts again: the
\* event is not acknowledged, what was committed stays.
Refuse(w) ==
  /\ wk[w] # Idle
  /\ failures < MaxFailures
  /\ failures' = failures + 1
  /\ Goto(w, Idle)
  /\ UNCHANGED <<row, decisions, job, deliveries, acked, clock>>
  /\ \/ UNCHANGED fvars
     \/ ReadFiles(w)

\* A process with nothing in hand is stopped and started.
Restart(w) ==
  /\ wk[w] = Idle
  /\ registry[w] # Read
  /\ ReadFiles(w)
  /\ UNCHANGED pvars

\* Time passes, also while a model is asked.
Tick ==
  /\ clock < MaxTime
  /\ clock' = clock + 1
  /\ UNCHANGED <<fvars, row, decisions, job, wk, deliveries, acked, failures>>

-----------------------------------------------------------------------------
Process(w) == AskModel(w) \/ RecordDecision(w) \/ CreateJob(w)

INext ==
  \/ \E w \in Processes : (\E e \in Events : Receive(w, e)) \/ Process(w) \/ Refuse(w) \/ Restart(w)
  \/ \E c \in Clerks : Clerk(c) /\ UNCHANGED pvars
  \/ HandEdit /\ UNCHANGED pvars
  \/ Tick

ISpec == IInit /\ [][INext]_ivars

\* A process carries on with the event in hand; Razorpay delivers an event
\* until it is answered 200.
IFairness ==
  /\ \A w \in Processes : WF_ivars(Process(w))
  /\ \A e \in Events : WF_ivars(e \notin acked /\ \E w \in Processes : Receive(w, e))

IFairSpec == ISpec /\ IFairness

-----------------------------------------------------------------------------
(* Properties. *)

Positions ==
  {Idle}
  \cup [pc : {"ask"}, event : Events, now : 0..clock, asked : 0..1]
  \cup [pc : {"decide"}, event : Events, now : 0..clock,
        cls : [class : FailureClasses, source : {"rules", "llm", "fallback"}, sure : BOOLEAN]]
  \cup [pc : {"schedule"}, event : Events, decision : DOMAIN decisions]

\* Every variable holds a value of its kind: what a process has read of a file is
\* something the schema accepts, an event is put to the model at most twice, and
\* a job's decision is on record and about its own payment.
IntakeTypeOK ==
  /\ \A policy \in {files[f].policy : f \in Files} \cup UNION {{registry[w][f] : f \in Files} : w \in Processes} :
       ValidPolicy(policy)
  /\ \A f \in Files : Len(files[f].history) <= begun
  /\ clock \in 0..MaxTime
  /\ row \in [Payments -> [status : Kinds, token : BOOLEAN, failedAt : 0..clock] \cup {None}]
  /\ \A w \in Processes : wk[w] \in Positions
  /\ \A i \in DOMAIN decisions : decisions[i].payment \in Payments /\ decisions[i].action \in Actions
  /\ \A p \in Payments :
       job[p] # None => job[p].decision \in DOMAIN decisions /\ decisions[job[p].decision].payment = p
  /\ deliveries \in [Events -> Nat] /\ acked \subseteq Events /\ failures \in 0..MaxFailures

\* A risk-flagged failure, one nobody could name and one the model is unsure of
\* go to a person and nowhere else, whatever the merchant's files, the
\* subscription and the customer's history say, and whatever else the error
\* object says of a risk-flagged payment.
RiskIsNeverAutomatic ==
  \A i \in DOMAIN decisions :
    LET d == decisions[i] IN
    \/ Risk(Error[d.payment])
    \/ d.class \in PinnedToHuman
    \/ d.source = "llm" /\ ~d.sure
    => d.action = "human_queue" /\ d.offer = "none"

\* Overrides only hold the agent back: a decision takes the table's action, gives
\* it up, or sends a link where the table would have charged the saved token.
DecisionsOnlyTighten ==
  \A i \in DOMAIN decisions :
    LET d == decisions[i]
        table == Decide(Classified(d.class, d.source, d.sure), 1,
                        HasToken(d.payment), Reachable(d.payment), EmptyPolicy).action
    IN  \/ d.action \in {table} \cup TerminalActions
        \/ d.action = "recovery_link" /\ table = "token_retry"

\* Once a customer's failure is judged a risk, nothing that merchant decides of
\* the customer's other payments is automatic, in whichever process, when the
\* failure lies in the window before the other event's own start.  Its end is
\* that start and not the decision: a failure that happens and is judged while
\* the model is asked about the other payment does not stop it.
RepeatRiskStops ==
  \A i, j \in DOMAIN decisions :
    LET d == decisions[i]
        e == decisions[j]
    IN  /\ i < j
        /\ d.payment # e.payment
        /\ d.class = "RISK_BLOCKED"
        /\ Customer[d.payment] = Customer[e.payment] /\ Customer[e.payment] # None
        /\ Merchant[d.payment] = Merchant[e.payment]
        /\ e.now < row[d.payment].failedAt + Window /\ row[d.payment].failedAt <= e.now
        => e.action \in TerminalActions

\* A decision acts sooner than the table only where a write with thirty samples
\* in both buckets, or a person's hand, put that very delay in a file of that
\* merchant, whichever process decided and however old its reading is.
SoonerDecisionIsBacked ==
  \A i \in DOMAIN decisions :
    LET d == decisions[i]
        sources == {Merchant[d.payment], Default}
    IN  /\ d.action \notin TerminalActions
        /\ d.delay < POLICY[d.class].delay
        /\ row[d.payment].status # "halted"
        => \E f \in sources :
             \/ <<f, d.class, d.delay>> \in granted
             \/ \E edit \in byHand : edit.file = f /\ edit.class = d.class /\ edit.override.delay = d.delay

\* An event that was delivered ends as a job, across failed commits and restarts
\* between the decision and the job: README.md calls the job's key what makes a
\* redelivery safe.
EveryEventHasAJob == \A e \in Events : deliveries[e] > 0 ~> job[e[1]] # None

\* README.md:164 has a subscription in Razorpay's own retry window left alone: an
\* answered subscription.pending leaves the charge to a person or to nobody.
PendingIsLeftAlone ==
  \A e \in acked :
    e[2] = "pending" /\ ClassOf[e[1]] \notin {"HARD_DECLINE", "RISK_BLOCKED"}
    => job[e[1]].action \in TerminalActions
=============================================================================
