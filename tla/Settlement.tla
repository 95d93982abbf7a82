----------------------------- MODULE Settlement -----------------------------
(***************************************************************************)
(* How a recovery ends: the webhooks payment_link.paid, payment_link       *)
(* .expired and payment.captured / order.paid (app/ingest.py), and the     *)
(* poll that asks Razorpay what became of each open link                   *)
(* (poll_outcomes of app/pipeline.py), beside the Executor.                *)
(*                                                                         *)
(* A worker is a process, either executing (wk, the Executor) or settling   *)
(* (hd), and has duties: the lock of `serve` makes its receiver and its    *)
(* sweep take turns, while the poll is a command of its own, run by cron    *)
(* beside serve and outside that lock.  A worker with both duties does one *)
(* after the other.  Events are at-least-once and unordered: an event may  *)
(* be delivered at any time once what it reports is true, any number of     *)
(* times.                                                                  *)
(***************************************************************************)
EXTENDS Executor

CONSTANTS
  Duties,       (* what each process runs: "serve", "poll" or both           *)
  Ordered,      (* payments whose attempt row carries an order_id; the      *)
                (* others have an OrderOf of their own that nothing pays     *)
  CancelFaults, (* may a cancel fail, with or without its effect?           *)
  PollFaults    (* may the fetch of a polled link fail?                     *)

ASSUME SettlementAssumption ==
  /\ Duties \in [Workers -> SUBSET {"serve", "poll"}]
  /\ Ordered \subseteq Payments
  /\ \A p \in Payments \ Ordered : \A q \in Payments \ {p} : OrderOf[p] # OrderOf[q]
  /\ {CancelFaults, PollFaults} \subseteq BOOLEAN

VARIABLE hd    (* the settling side of each worker                          *)

svars == <<vars, hd>>

HandlerPcs == {"idle", "paid", "recovered", "expired", "lapsed", "mark", "attempt", "void", "voided",
            "cancel", "cancelled", "parked", "closed", "fetch", "polled"}
NoHandler == [pc |-> "idle", job |-> NoJob, order |-> "none", todo |-> {}, pending |-> {}, live |-> {}, seen |-> "none"]

SettlementTypeOK ==
  /\ TypeOK
  /\ \A w \in Workers :
       /\ hd[w].pc \in HandlerPcs
       /\ hd[w].pc # "idle" => wk[w] = Idle
       /\ hd[w].job \in Jobs \cup {NoJob}
       /\ hd[w].order \in Orders \cup {"none"}
       /\ hd[w].todo \subseteq Ordered
       /\ hd[w].pending \cup hd[w].live \subseteq Jobs
       /\ hd[w].seen \in LinkStates

SInit == Init /\ hd = [w \in Workers |-> NoHandler]

Serves(w) == "serve" \in Duties[w]
Polls(w) == "poll" \in Duties[w]

\* broken: the receiver does not take the lock
Unlocked(w) == hd[w] = NoHandler
Free(w) == wk[w] = Idle /\ hd[w] = NoHandler
Handle(w, pc) == hd' = [hd EXCEPT ![w].pc = pc]
Answered(w) == hd' = [hd EXCEPT ![w] = NoHandler]
HasOutcome(j) == outcome[j] # <<>>

-----------------------------------------------------------------------------
(* payment_link.paid: close_paid_link. *)

(* What the parsers accept of an event: a payment_link.paid whose link says paid *)
(* or partially paid, a payment_link.expired whose link says expired, the order  *)
(* a captured payment or a paid order names.                                     *)
PaymentLinkPaid(state) == state \in {"paid", "partial"}
PaymentLinkExpired(state) == state = "expired"
PaymentCaptured(o) == o \in captured

(* The job is found by its link id, or by the reference_id prefix of its key. *)
ReceivePaid(w, j) ==
  /\ Serves(w) /\ Free(w)
  /\ PaymentLinkPaid(link[j])
  /\ hd' = [hd EXCEPT ![w] = [@ EXCEPT !.pc = "paid", !.job = j, !.seen = link[j]]]
  /\ UNCHANGED vars

(* A redelivery, or a job something else closed: nothing is changed. *)
PaidIgnored(w) ==
  /\ hd[w].pc = "paid"
  /\ HasOutcome(hd[w].job)
  /\ Answered(w)
  /\ UNCHANGED vars

PaidChecked(w) ==
  /\ hd[w].pc = "paid"
  /\ ~HasOutcome(hd[w].job)
  /\ Handle(w, "recovered")
  /\ UNCHANGED vars

(* One commit repairs the job row and writes the outcome; a full payment of *)
(* an attempt with an order_id goes on to settle the order.                  *)
ClosePaidLink(w) ==
  LET j == hd[w].job IN
  /\ hd[w].pc = "recovered"
  /\ IF job[j].status # "sent" \/ ~job[j].link THEN Commit(j, "sent", job[j].kind, TRUE) ELSE UNCHANGED job
  /\ RecordOutcome(j, "recovered")
  /\ IF hd[w].seen = "paid" /\ j[1] \in Ordered
     THEN hd' = [hd EXCEPT ![w] = [NoHandler EXCEPT !.pc = "mark", !.order = OrderOf[j[1]]]]
     ELSE Answered(w)
  /\ UNCHANGED <<payments, razorpay, wk>>

-----------------------------------------------------------------------------
(* payment.captured / order.paid: record_order_paid. *)

ReceiveCaptured(w, o) ==
  /\ Serves(w) /\ Free(w)
  /\ PaymentCaptured(o)
  /\ hd' = [hd EXCEPT ![w] = [@ EXCEPT !.pc = "mark", !.order = o]]
  /\ UNCHANGED vars

\* broken: the event stops one attempt of the order, not its siblings
OneAttemptOf(o) == {p \in attempts \cap Ordered : OrderOf[p] = o /\ p = CHOOSE q \in attempts : OrderOf[q] = o}
AttemptsOf(o) == {p \in attempts \cap Ordered : OrderOf[p] = o}

(* mark_order_paid; an event that matches no attempt leaves nothing behind. *)
MarkOrderPaid(w) ==
  LET o == hd[w].order IN
  /\ hd[w].pc = "mark"
  /\ IF AttemptsOf(o) = {}
     THEN Answered(w) /\ UNCHANGED orderPaid
     ELSE /\ orderPaid' = orderPaid \cup {o}
          /\ hd' = [hd EXCEPT ![w] = [@ EXCEPT !.pc = "attempt", !.todo = AttemptsOf(o)]]
  /\ UNCHANGED <<job, outcome, attempts, razorpay, wk>>

(* For each attempt, its jobs as they are now: the pending ones to void and *)
(* the live links to cancel.  A job left executing is in neither list.      *)
\* broken: only the first job, not a follow-up
FirstPendingOf(p) == {j \in Jobs : j = <<p, 1>> /\ job[j].status = "pending"}
PendingOf(p) == {j \in Jobs : j[1] = p /\ job[j].status = "pending"}
LiveOf(p) == {j \in Jobs : j[1] = p /\ job[j].status = "sent" /\ job[j].link /\ ~HasOutcome(j)}

TakeAttempt(w) ==
  /\ hd[w].pc = "attempt"
  /\ hd[w].pending \cup hd[w].live = {}
  /\ \E p \in hd[w].todo :
       hd' = [hd EXCEPT ![w] = [@ EXCEPT !.todo = hd[w].todo \ {p}, !.pending = PendingOf(p), !.live = LiveOf(p)]]
  /\ UNCHANGED vars

AttemptsDone(w) ==
  /\ hd[w].pc = "attempt"
  /\ hd[w].todo \cup hd[w].pending \cup hd[w].live = {}
  /\ Answered(w)
  /\ UNCHANGED vars

First(jobs) == CHOOSE j \in jobs : \A k \in jobs : j[2] <= k[2]

(* The row is overwritten whatever it has become since it was read. *)
VoidPending(w) ==
  LET j == First(hd[w].pending) IN
  /\ hd[w].pc = "attempt"
  /\ hd[w].pending # {}
  /\ Commit(j, "no_action", "none", FALSE)
  /\ hd' = [hd EXCEPT ![w] = [@ EXCEPT !.pc = "closed", !.job = j, !.pending = hd[w].pending \ {j}]]
  /\ UNCHANGED <<outcome, payments, razorpay, wk>>

(* _cancel_live_link: one POST. A link that cannot be paid any more refuses it. *)
CancelLink(w) ==
  LET j == First(hd[w].live) IN
  /\ hd[w].pc = "attempt"
  /\ hd[w].pending = {}
  /\ hd[w].live # {}
  /\ \/ /\ Live(j)
        /\ link' = [link EXCEPT ![j] = "cancelled"]
        /\ \E pc \in {"cancelled"} \cup (IF CancelFaults THEN {"parked"} ELSE {}) :
             hd' = [hd EXCEPT ![w] = [@ EXCEPT !.pc = pc, !.job = j, !.live = hd[w].live \ {j}]]
     \/ /\ CancelFaults \/ ~Live(j)
        /\ hd' = [hd EXCEPT ![w] = [@ EXCEPT !.pc = "parked", !.job = j, !.live = hd[w].live \ {j}]]
        /\ UNCHANGED link
  /\ UNCHANGED <<db, inflight, captured, raced, wk>>

(* Shadow mode cancels nothing and leaves the job as it is. *)
CancelSkipped(w) ==
  /\ hd[w].pc = "attempt"
  /\ hd[w].pending = {}
  /\ hd[w].live # {}
  /\ "shadow" \in Modes
  /\ hd' = [hd EXCEPT ![w].live = @ \ {First(hd[w].live)}]
  /\ UNCHANGED vars

RecordCancel(w) ==
  /\ hd[w].pc \in {"cancelled", "parked"}
  /\ Commit(hd[w].job, IF hd[w].pc = "cancelled" THEN "cancelled" ELSE "human_queue", "none", FALSE)
  /\ Handle(w, "closed")
  /\ UNCHANGED <<outcome, payments, razorpay, wk>>

(* Voided, cancelled or parked: the outcome follows in a commit of its own. *)
CloseStopped(w) ==
  /\ hd[w].pc = "closed"
  /\ RecordOutcome(hd[w].job, "lost")
  /\ hd' = [hd EXCEPT ![w] = [@ EXCEPT !.pc = "attempt", !.job = NoJob]]
  /\ UNCHANGED <<job, payments, razorpay, wk>>

-----------------------------------------------------------------------------
(* payment_link.expired and the poll. *)

ReceiveExpired(w, j) ==
  /\ Serves(w) /\ Free(w)
  /\ PaymentLinkExpired(link[j])
  /\ hd' = [hd EXCEPT ![w] = [@ EXCEPT !.pc = "expired", !.job = j, !.seen = "expired"]]
  /\ UNCHANGED vars

ExpiredIgnored(w) ==
  /\ hd[w].pc = "expired"
  /\ HasOutcome(hd[w].job)
  /\ Answered(w)
  /\ UNCHANGED vars

ExpiredChecked(w) ==
  /\ hd[w].pc = "expired"
  /\ ~HasOutcome(hd[w].job)
  /\ Handle(w, "polled")
  /\ UNCHANGED vars

(* open_link_jobs lists the sent links without an outcome; the fetch and the *)
(* outcome come later, however much later, and do not look at the row again. *)
\* broken: links already closed are asked about again
SentLinks == {j \in Jobs : job[j].status = "sent" /\ job[j].link}
OpenLinks == {j \in Jobs : job[j].status = "sent" /\ job[j].link /\ ~HasOutcome(j)}

PollLink(w, j) ==
  /\ Polls(w) /\ Free(w)
  /\ j \in OpenLinks
  /\ hd' = [hd EXCEPT ![w] = [@ EXCEPT !.pc = "fetch", !.job = j]]
  /\ UNCHANGED vars

\* broken: a link cancelled from the dashboard counts as open
EndedByCustomer(state) == state \in {"paid", "partial", "expired"}
Ended(state) == state # "created"

StillOpen(w) ==
  /\ hd[w].pc = "fetch"
  /\ PollFaults \/ ~Ended(link[hd[w].job])
  /\ Answered(w)
  /\ UNCHANGED vars

FetchLink(w) ==
  /\ hd[w].pc = "fetch"
  /\ Ended(link[hd[w].job])
  /\ hd' = [hd EXCEPT ![w] = [@ EXCEPT !.pc = "polled", !.seen = link[hd[w].job]]]
  /\ UNCHANGED vars

(* The outcome of what was seen.  The webhook of an expiry also records the  *)
(* link's id on the row.                                                     *)
\* broken: an expired link counts as one that collected
EndedRecovers(seen) == seen \in {"paid", "partial", "expired"}
Recovering(seen) == seen \in {"paid", "partial"}

RecordSeen(w) ==
  LET j == hd[w].job IN
  /\ hd[w].pc = "polled"
  /\ RecordOutcome(j, IF Recovering(hd[w].seen) THEN "recovered" ELSE "lost")
  /\ job' = [job EXCEPT ![j].link = TRUE]
  /\ IF hd[w].seen = "expired" THEN Handle(w, "lapsed") ELSE Answered(w)
  /\ UNCHANGED <<payments, razorpay, wk>>

(* schedule_expiry_followup: not beside a pending job of the payment. *)
\* broken: any other open job counts, the expired one itself too
HasOpenJob(p) == \E s \in SeqsOf(p) : job[<<p, s>>].status \in {"pending", "sent"}
AwaitsAttempt(p) == \E s \in SeqsOf(p) : job[<<p, s>>].status = "pending"

ExpiryFollowup(w) ==
  LET j == hd[w].job IN
  /\ hd[w].pc = "lapsed"
  /\ wk' = [wk EXCEPT ![w] = IF AwaitsAttempt(j[1]) THEN Idle ELSE [Idle EXCEPT !.pc = "followup", !.job = j]]
  /\ Answered(w)
  /\ UNCHANGED <<db, razorpay>>

-----------------------------------------------------------------------------
(* The customer, and time. *)

PayLink(j) ==
  /\ Live(j)
  /\ link' = [link EXCEPT ![j] = "paid"]
  /\ UNCHANGED <<db, inflight, captured, raced, wk, hd>>

PayPart(j) ==
  /\ link[j] = "created"
  /\ j[1] \in Offered
  /\ link' = [link EXCEPT ![j] = "partial"]
  /\ UNCHANGED <<db, inflight, captured, raced, wk, hd>>

(* The link expires, or somebody cancels it from the dashboard. *)
EndLink(j) ==
  /\ link[j] = "created"
  /\ \E end \in {"expired", "cancelled"} : link' = [link EXCEPT ![j] = end]
  /\ UNCHANGED <<db, inflight, captured, raced, wk, hd>>

PayElsewhere(o) ==
  /\ \E p \in Ordered : OrderOf[p] = o
  /\ Capture(o)
  /\ UNCHANGED hd

SettlementCrash(w) ==
  /\ Crashes
  /\ ~Free(w)
  /\ Done(w)
  /\ Answered(w)
  /\ UNCHANGED <<db, razorpay>>

-----------------------------------------------------------------------------
SettleStep(w) ==
  \/ PaidIgnored(w) \/ PaidChecked(w) \/ ClosePaidLink(w)
  \/ MarkOrderPaid(w) \/ TakeAttempt(w) \/ AttemptsDone(w) \/ VoidPending(w)
  \/ CancelLink(w) \/ CancelSkipped(w) \/ RecordCancel(w) \/ CloseStopped(w)
  \/ ExpiredIgnored(w) \/ ExpiredChecked(w) \/ StillOpen(w) \/ FetchLink(w) \/ RecordSeen(w) \/ ExpiryFollowup(w)

Receive(w) ==
  \/ \E j \in Jobs : ReceivePaid(w, j) \/ ReceiveExpired(w, j) \/ PollLink(w, j)
  \/ \E o \in Orders : ReceiveCaptured(w, o)

\* The poll goes on to schedule the attempt that follows an expiry.
Execution(w) == hd[w] = NoHandler /\ ((Serves(w) /\ Begin(w)) \/ Step(w)) /\ UNCHANGED hd

World ==
  \/ \E j \in Jobs : PayLink(j) \/ PayPart(j) \/ EndLink(j) \/ (Land(j) /\ UNCHANGED hd)
  \/ \E o \in Orders : PayElsewhere(o)
  \/ \E w \in Workers : SettlementCrash(w)

SNext == (\E w \in Workers : Execution(w) \/ SettleStep(w) \/ Receive(w)) \/ World

SSpec == SInit /\ [][SNext]_svars

(* The Executor's fairness, and the poll asks about every open link again.  *)
SFairness ==
  /\ \A w \in Workers : WF_svars(Step(w) /\ UNCHANGED hd) /\ WF_svars(SettleStep(w))
  /\ \A j \in Jobs : /\ SF_svars(\E w \in Workers : Serves(w) /\ Free(w) /\ Sweep(w, j) /\ UNCHANGED hd)
                     /\ SF_svars(\E w \in Workers : PollLink(w, j))
                     /\ SF_svars(\E w \in Workers : FetchLink(w) /\ hd[w].job = j)

SFairSpec == SSpec /\ SFairness

-----------------------------------------------------------------------------
(* Properties. *)

AllFree == \A w \in Workers : Free(w)

(* A process writes at most one outcome of a job, whatever is redelivered,   *)
(* polled, voided or closed.  Beside the poll, serve may write a second: each *)
(* looked for an outcome before the other wrote (close_paid_link's docstring *)
(* promises one).  The reports sum amount_recovered over the outcomes.       *)
OutcomeOncePerProcess == \A j \in Jobs : Len(outcome[j]) <= Cardinality(Workers)

(* What the reports count as recovered was collected: whatever is delivered, *)
(* polled or repaired, the money of a recovered outcome is on its own link,  *)
(* also when the request had failed and landed late.                         *)
RecoveredIsPaid ==
  \A j \in Jobs : (\E i \in DOMAIN outcome[j] : outcome[j][i] = "recovered") => link[j] \in {"paid", "partial"}

(* money_path.md 1.5, ARCHITECTURE.md "the order-paid boundary": once an     *)
(* order is recorded paid and the handler is done, a link of the order that  *)
(* can still be paid has been handed to a person, its outcome saying so.     *)
NoSilentLiveLink ==
  (AllFree /\ "shadow" \notin Modes) => \A j \in Jobs : OrderOf[j[1]] \in orderPaid /\ Live(j) => outcome[j] = <<"lost">>

(* The same boundary for what is not sent yet: a recorded order leaves no    *)
(* job of it pending.                                                        *)
PaidOrderNothingPending ==
  AllFree => \A j \in Jobs : OrderOf[j[1]] \in orderPaid => job[j].status # "pending"

(* No job of a recorded order goes out: none becomes sent while its link can *)
(* still be paid, by whichever path the link was created or found.           *)
NothingGoesOutAfterPaid ==
  [][\A j \in Jobs : job'[j].status = "sent" /\ job[j].status # "sent" /\ link'[j] \in {"created", "partial"}
       => OrderOf[j[1]] \notin orderPaid]_svars

(* A sent link that was paid, expired or cancelled is closed in the end, by   *)
(* the webhook or by the poll.                                               *)
EveryLinkCloses ==
  \A j \in Jobs : (job[j].status = "sent" /\ job[j].link /\ link[j] \in {"paid", "expired", "cancelled"}) ~> HasOutcome(j)

(* A link that expires unpaid earns the next attempt, or the row of the stop *)
(* rule that closes the payment, unless the order was stopped meanwhile.     *)
ExpiryEarnsNextAttempt ==
  \A j \in Jobs : (job[j].status = "sent" /\ link[j] = "expired")
                 ~> (job[j].status # "sent" \/ \E s \in SeqsOf(j[1]) : s > j[2])
=============================================================================
