------------------------------ MODULE Operator ------------------------------
(***************************************************************************)
(* A person's actions beside serve: app/actions.py over the rows of        *)
(* Cadence.  The web view runs them in its own thread, without the lock     *)
(* that serve's receiver and sweep share, so each action is split at its   *)
(* commits and its call.  `resolve` on the command line has code of its     *)
(* own, which is the one that can be forced.                               *)
(***************************************************************************)
EXTENDS Cadence

CONSTANTS
  Operators,     (* the workers that run a person's actions                 *)
  Forced,        (* may the command line force a resolve? subset of BOOLEAN *)
  CancelFaults,  (* may Razorpay refuse to cancel an open link?             *)
  MaxResends,    (* bound on the resends of a link                          *)
  MaxOutcomes    (* bound on the outcomes of a payment                      *)

ASSUME OperatorAssumption ==
  /\ Operators \subseteq Workers
  /\ Forced \subseteq BOOLEAN
  /\ CancelFaults \in BOOLEAN
  /\ {MaxResends, MaxOutcomes} \subseteq Nat

VARIABLES
  resent,        (* observation: resends Razorpay answered, per link        *)
  orphaned       (* observation: links parked by a stop whose outcome a     *)
                 (* crash lost                                              *)

ovars == <<clock, setting, status, at, done, outcome, orderPaid, rz, told, recovered, crashes, wk,
           resent, orphaned>>

OInit ==
  /\ CInit
  /\ resent = [p \in Payments |-> 0]
  /\ orphaned = {}

-----------------------------------------------------------------------------
(* resolve: a person's decision on a parked payment. *)

OutcomesOf(p) == {outcome[p][i] : i \in DOMAIN outcome[p]}

\* broken: only a payment counts as a decision, not an earlier resolve
DecidedByPayment(p) == "paid" \in OutcomesOf(p)

\* Recovered, or an outcome a person wrote.
Decided(p) == OutcomesOf(p) \cap {"paid", "recovered", "resolved"} # {}

\* broken: the status is not looked at
MayResolveAny(p) == ~Decided(p)

MayResolve(p) == ~Decided(p) /\ status[Link(p)] = "human_queue"

\* The checks and the audit row, then the outcome in a commit of its own.
Resolve(w, p) ==
  /\ ~Busy(w)
  /\ status[Link(p)] # "absent"
  /\ MayResolve(p)
  /\ Len(outcome[p]) < MaxOutcomes
  /\ \E kind \in {"recovered", "resolved"} : Goto(w, [pc |-> "resolve", link |-> p, kind |-> kind])
  /\ UNCHANGED <<clock, setting, rows, rz, told, recovered, crashes, resent, orphaned>>

RecordResolve(w) ==
  /\ At(w, "resolve")
  /\ RecordOutcome(wk[w].link, wk[w].kind)
  /\ Done(w)
  /\ UNCHANGED <<clock, setting, status, at, done, orderPaid, rz, told, recovered, crashes, resent, orphaned>>

\* The command line's resolve: the same checks unless forced, one commit.
CommandResolve(w, p, force) ==
  /\ ~Busy(w)
  /\ status[Link(p)] # "absent"
  /\ force \/ MayResolve(p)
  /\ Len(outcome[p]) < MaxOutcomes
  /\ \E kind \in {"recovered", "resolved"} : RecordOutcome(p, IF force THEN "forced" ELSE kind)
  /\ UNCHANGED <<clock, setting, status, at, done, orderPaid, rz, told, recovered, crashes, wk, resent, orphaned>>

-----------------------------------------------------------------------------
(* cancel_link. *)

BeginCancel(w, p) ==
  /\ ~Busy(w)
  /\ LiveJob(p)
  /\ Goto(w, [pc |-> "cancel", link |-> p])
  /\ UNCHANGED <<clock, setting, rows, rz, told, recovered, crashes, resent, orphaned>>

\* broken: a refused cancel counts as cancelled
CancelTakenAsDone(p) == TRUE

\* Razorpay cancels an open link only.
CancelAnswers(p) == ~ClosedAtRazorpay(p)

CallCancel(w) ==
  /\ At(w, "cancel")
  /\ LET p == wk[w].link IN
     \/ /\ CancelAnswers(p)
        /\ rz' = [rz EXCEPT ![p] = IF @ = "open" THEN "cancelled" ELSE @]
        /\ Goto(w, [wk[w] EXCEPT !.pc = "cancelled"])
     \/ /\ CancelFaults \/ ClosedAtRazorpay(p)
        /\ Done(w)
        /\ UNCHANGED rz
  /\ UNCHANGED <<clock, setting, rows, told, recovered, crashes, resent, orphaned>>

RecordCancelled(w) ==
  /\ At(w, "cancelled")
  /\ status' = [status EXCEPT ![Link(wk[w].link)] = "cancelled"]
  /\ Goto(w, [wk[w] EXCEPT !.pc = "closing"])
  /\ UNCHANGED <<clock, setting, at, done, outcome, orderPaid, rz, told, recovered, crashes, resent, orphaned>>

\* The outcome of a cancel is a person's; the reminders are left to their guards.
CloseCancelled(w) ==
  /\ At(w, "closing")
  /\ RecordOutcome(wk[w].link, "resolved")
  /\ Done(w)
  /\ UNCHANGED <<clock, setting, status, at, done, orderPaid, rz, told, recovered, crashes, resent, orphaned>>

-----------------------------------------------------------------------------
(* resend_notification. *)

BeginResend(w, p) ==
  /\ ~Busy(w)
  /\ LiveJob(p)
  /\ p \notin Subscriptions
  /\ setting.notify
  /\ Media[p] # {}
  /\ CapAllows(p, clock)
  /\ resent[p] < MaxResends
  /\ Goto(w, [pc |-> "resend", link |-> p])
  /\ UNCHANGED <<clock, setting, rows, rz, told, recovered, crashes, resent, orphaned>>

CallResend(w) ==
  /\ At(w, "resend")
  /\ \/ resent' = [resent EXCEPT ![wk[w].link] = @ + 1]
     \/ NotifyFaults /\ UNCHANGED resent
  /\ Done(w)
  /\ UNCHANGED <<clock, setting, rows, rz, told, recovered, crashes, orphaned>>

-----------------------------------------------------------------------------
(* retry_now runs a pending row ahead of its time, through execute_job and  *)
(* nothing after it: a link it sends gets no reminders.                     *)

RetryLink(w, p) == ~Busy(w) /\ ExecuteLink(w, p, Idle)

RetryReminder(w, r) == BeginReminder(w, r)

-----------------------------------------------------------------------------
observed == <<resent, orphaned>>

Parks(w, p) == At(w, "close") /\ wk[w].link = p /\ wk[w].kind = "parked"

\* A process lost between the row and the outcome of a parked link: nothing
\* writes that outcome any more.
OperatorCrash(w) ==
  /\ CrashWorker(w)
  /\ orphaned' = orphaned \cup {p \in Payments : Parks(w, p)}
  /\ UNCHANGED resent

Operate(w) ==
  \/ \E p \in Payments, force \in Forced : CommandResolve(w, p, force)
  \/ \E p \in Payments : Resolve(w, p) \/ BeginCancel(w, p) \/ BeginResend(w, p)
  \/ RecordResolve(w)
  \/ CallCancel(w)
  \/ RecordCancelled(w)
  \/ CloseCancelled(w)
  \/ CallResend(w)
  \/ UNCHANGED observed /\ \E p \in Payments : RetryLink(w, p)
  \/ UNCHANGED observed /\ \E r \in Reminders : RetryReminder(w, r)

ServeSteps ==
  \/ \E w \in Workers \ Operators : Sweep(w) \/ Event(w)
  \/ \E w \in Workers : Work(w)
  \/ \E p \in Payments : PayLink(p)
  \/ Tick

ONext ==
  \/ \E w \in Operators : Operate(w)
  \/ ServeSteps /\ UNCHANGED observed
  \/ \E w \in Workers : OperatorCrash(w)

OSpec == OInit /\ [][ONext]_ovars

-----------------------------------------------------------------------------
(* Properties. *)

OperatorPositions ==
  [pc : {"resolve"}, link : Payments, kind : {"recovered", "resolved"}]
    \cup [pc : {"cancel", "cancelled", "closing", "resend"}, link : Payments]

\* Every variable holds a value the code can hold; money a person booked is on a
\* parked payment, or on one that was parked until its link was paid after all.
OperatorTypeOK ==
  /\ \A p \in Payments :
       "recovered" \in OutcomesOf(p) => status[Link(p)] = "human_queue" \/ p \in orphaned
  /\ status \in [Rows -> RowStatuses]
  /\ \A p \in Payments : OutcomesOf(p) \subseteq OutcomeKinds \cup {"forced"}
  /\ resent \in [Payments -> 0..MaxResends]
  /\ orphaned \subseteq Payments
  /\ wk \in [Workers -> Positions \cup OperatorPositions]

Booked(p, kinds) == {i \in DOMAIN outcome[p] : outcome[p][i] \in kinds}

\* Money is booked once: neither a person's resolve without force nor an event
\* that says paid ever books a payment twice, in however many steps they read
\* and write; and both book it only when a crash left the link parked without
\* its outcome, the one gap in which the event takes the row back.
RecoveredOnce ==
  \A p \in Payments :
    /\ Cardinality(Booked(p, {"paid"})) <= 1
    /\ Cardinality(Booked(p, {"recovered"})) <= 1
    /\ p \notin orphaned => Cardinality(Booked(p, {"paid", "recovered"})) <= 1

\* A job recorded cancelled has its link cancelled at Razorpay, whoever asked
\* and whatever the customer and serve did between the call and the commit.
CancelledIsTrue ==
  \A p \in Payments : status[Link(p)] = "cancelled" => rz[p] = "cancelled"
=============================================================================
