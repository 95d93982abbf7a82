------------------------------- MODULE Cadence -------------------------------
(***************************************************************************)
(* A sent link as a campaign: the reminders of app/cadence.py on the clock *)
(* of app/scheduling.py, beside the link jobs whose messages share the     *)
(* customer's weekly contact cap.                                          *)
(*                                                                         *)
(* A row <<p, 0>> is the link job of payment p, <<p, n>> its reminder n:   *)
(* what reminder_key hashes.  How a link job is claimed, sent and retried  *)
(* is the subject of Executor; here it is scheduled or executed, with the  *)
(* outcome that closes it at once, in one step.  A worker is a process     *)
(* that sweeps and handles events; any other step is at most one commit or *)
(* one call, and the clock moves only between executions.  The poll of      *)
(* links, a process of its own, is in Settlement.                          *)
(***************************************************************************)
EXTENDS Scheduling, Sequences

CONSTANTS
  Payments,
  Class,          (* failure class of each payment                          *)
  Delay,          (* hours the policy waits before the link                 *)
  Contact,        (* the phone or email behind each payment                 *)
  Media,          (* the media each customer can be reached on              *)
  Subscriptions,  (* payments whose link is the subscription's own page     *)
  Limit,          (* contacts per window, merchant file applied             *)
  Window,         (* CONTACT_WINDOW, in hours                               *)
  ExpiryHours,    (* RECOVERY_LINK_EXPIRY_HOURS                             *)
  Settings,       (* configurations a deployment is started with            *)
  Workers,
  FetchFaults,    (* may a fetch of the link fail?                          *)
  NotifyFaults,   (* may a notify call be refused?                          *)
  MaxCrashes,     (* bound on the processes lost mid-step                   *)
  Start,          (* hour at which the behaviour begins                     *)
  Arrival,        (* hour at which each payment's failure is processed      *)
  TickHours,      (* grain of the clock                                     *)
  Horizon         (* bound on the clock                                     *)

AllMedia == {"sms", "email"}

ReminderOffsets ==
  [class \in {"INSUFFICIENT_FUNDS", "LIMIT_EXCEEDED", "AUTH_ABANDONED", "HARD_DECLINE",
              "ISSUER_DOWN", "NETWORK_TIMEOUT"} |->
     CASE class = "INSUFFICIENT_FUNDS" -> <<24, 60>>
       [] class = "AUTH_ABANDONED" -> <<2, 24>>
       [] OTHER -> <<24>>]

Offsets(p) == ReminderOffsets[Class[p]]
Links == Payments \X {0}
Reminders == UNION {{p} \X (1..Len(Offsets(p))) : p \in Payments}
Rows == Links \cup Reminders

ASSUME CadenceAssumption ==
  /\ Class \in [Payments -> DOMAIN ReminderOffsets]
  /\ Delay \in [Payments -> Nat]
  /\ Arrival \in [Payments -> Nat]
  /\ Media \in [Payments -> SUBSET AllMedia]
  /\ Subscriptions \subseteq Payments
  /\ Limit \in [Payments -> Nat]
  /\ {Window, ExpiryHours, MaxCrashes, Start, TickHours, Horizon} \subseteq Nat
  /\ Settings \subseteq [shadow : BOOLEAN, notify : BOOLEAN, reminders : BOOLEAN]
  /\ FetchFaults \in BOOLEAN /\ NotifyFaults \in BOOLEAN

VARIABLES
  clock,      (* hours on the customer's clock                              *)
  setting,    (* PRA_MODE, RAZORPAY_NOTIFY_CUSTOMER, REMINDERS_ENABLED      *)
  status,     (* recovery_jobs.status                                       *)
  at,         (* scheduled_at                                               *)
  done,       (* executed_at of the rows that went out, 0 for the others    *)
  outcome,    (* outcomes of each link job, in order                        *)
  orderPaid,  (* payments whose order is recorded paid another way          *)
  rz,         (* the link as Razorpay holds it, expiry apart                *)
  told,       (* observation: notify calls Razorpay answered, per medium    *)
  recovered,  (* observation: times a row was recovered from executing      *)
  crashes,
  wk          (* the workers                                                *)

rows == <<status, at, done, outcome, orderPaid>>
cvars == <<clock, setting, status, at, done, outcome, orderPaid, rz, told, recovered, crashes, wk>>

RowStatuses == {"absent", "pending", "executing", "sent", "shadow", "no_action",
                "human_queue", "failed", "cancelled"}
OutcomeKinds == {"paid", "ended", "parked", "stopped", "cancelled", "resolved", "recovered"}
Verdicts == {"no_action", "shadow", "pending", "human_queue", "executing"}

Idle == [pc |-> "idle"]
Busy(w) == wk[w] # Idle
Goto(w, position) == wk' = [wk EXCEPT ![w] = position]
Done(w) == Goto(w, Idle)
At(w, pc) == wk[w].pc = pc

Payment(r) == r[1]
Link(p) == <<p, 0>>

\* broken: only a payment ends a link
EndedByPayment(p) == outcome[p] = <<"paid">>

Ended(p) == outcome[p] # <<>>
LinkExpiry(p) == done[Link(p)] + ExpiryHours

\* What fetch_payment_link would say: paid or cancelled, or past its expiry.
ClosedAtRazorpay(p) == rz[p] # "open" \/ clock >= LinkExpiry(p)

CInit ==
  /\ clock = Start
  /\ setting \in Settings
  /\ status = [r \in Rows |-> "absent"]
  /\ at = [r \in Rows |-> 0]
  /\ done = [r \in Rows |-> 0]
  /\ outcome = [p \in Payments |-> <<>>]
  /\ orderPaid = {}
  /\ rz = [p \in Payments |-> "none"]
  /\ told = [r \in Reminders |-> [m \in Media[r[1]] |-> 0]]
  /\ recovered = [r \in Reminders |-> 0]
  /\ crashes = 0
  /\ wk = [w \in Workers |-> Idle]

-----------------------------------------------------------------------------
(* The contact cap. *)

Contacted == {"sent", "cancelled"}

ContactRows(p) ==
  {r \in Rows : Contact[Payment(r)] = Contact[p] /\ status[r] \in Contacted}

SendsTo(p, now) == ContactSends(ContactRows(p), done, now, Window)

\* broken: the send that reaches the limit is still allowed
CapAllowsOneMore(p, now) == Media[p] = {} \/ SendsTo(p, now) <= Limit[p]

\* Nobody to spam without a contact; otherwise fewer sends than the limit.
CapAllows(p, now) == Media[p] = {} \/ SendsTo(p, now) < Limit[p]

-----------------------------------------------------------------------------
(* The link job. *)

\* executed_at is read of rows that went out only, and kept for those.
Commit(r, new, when) ==
  /\ status' = [status EXCEPT ![r] = new]
  /\ done' = [done EXCEPT ![r] = IF new \in {"sent", "shadow"} THEN when ELSE @]

RecordOutcome(p, kind) == outcome' = [outcome EXCEPT ![p] = Append(@, kind)]

ScheduledStatus(p) ==
  IF p \in orderPaid THEN "no_action"
  ELSE IF ~CapAllows(p, clock) THEN "human_queue" ELSE "pending"

\* schedule_job: the class's delay, moved by the calendar; the cap parks it.
\* A job that is not pending is closed at once with an outcome.
ScheduleLink(w, p) ==
  LET new == ScheduledStatus(p) IN
  /\ ~Busy(w)
  /\ clock = Arrival[p]
  /\ status[Link(p)] = "absent"
  /\ status' = [status EXCEPT ![Link(p)] = new]
  /\ at' = [at EXCEPT ![Link(p)] =
              IF new = "pending" THEN AdjustSendTime(clock + Delay[p], Class[p]) ELSE clock]
  /\ IF new = "pending" THEN UNCHANGED outcome
     ELSE RecordOutcome(p, IF new = "no_action" THEN "stopped" ELSE "parked")
  /\ UNCHANGED <<clock, setting, done, orderPaid, rz, told, recovered, crashes, wk>>

\* execute_job for a link: the order guard, then the would-have of shadow
\* mode, or the send.  next is what the caller does with a link that is out.
ExecuteLink(w, p, next) ==
  /\ status[Link(p)] = "pending"
  /\ \/ /\ p \in orderPaid
        /\ Commit(Link(p), "no_action", clock)
        /\ RecordOutcome(p, "stopped")
        /\ UNCHANGED <<rz, wk>>
     \/ /\ p \notin orderPaid /\ setting.shadow
        /\ Commit(Link(p), "shadow", clock)
        /\ Goto(w, next)
        /\ UNCHANGED <<outcome, rz>>
     \/ /\ p \notin orderPaid /\ ~setting.shadow
        /\ Commit(Link(p), "sent", clock)
        /\ rz' = [rz EXCEPT ![p] = "open"]
        /\ Goto(w, next)
        /\ UNCHANGED outcome
     \/ /\ p \notin orderPaid /\ ~setting.shadow
        /\ Commit(Link(p), "failed", clock)
        /\ IF next = Idle THEN UNCHANGED outcome ELSE RecordOutcome(p, "parked")
        /\ UNCHANGED <<rz, wk>>
  /\ UNCHANGED <<clock, setting, at, orderPaid, told, recovered, crashes>>

Due(r) == status[r] = "pending" /\ at[r] <= clock

\* run_due takes a due link job; finish_job then mints its reminders.
SweepLink(w, p) ==
  /\ ~Busy(w)
  /\ Due(Link(p))
  /\ ExecuteLink(w, p, [pc |-> "remind", link |-> p, n |-> 1])

-----------------------------------------------------------------------------
(* schedule_reminders, one commit per offset. *)

NoReminders(p) == ~setting.reminders \/ p \in Subscriptions

ReminderTime(p, n) == NextAllowedSend(done[Link(p)] + Offsets(p)[n])

\* broken: only the offset is held against the expiry, not the moved time
WithinExpiryUnmoved(p, n) == done[Link(p)] + Offsets(p)[n] < LinkExpiry(p)

WithinExpiry(p, n) ==
  /\ done[Link(p)] + Offsets(p)[n] < LinkExpiry(p)
  /\ ReminderTime(p, n) < LinkExpiry(p)

MintedStatus(p) ==
  IF status[Link(p)] = "shadow" THEN "shadow"
  ELSE IF CapAllows(p, clock) THEN "pending" ELSE "human_queue"

ScheduleReminder(w) ==
  /\ At(w, "remind")
  /\ LET p == wk[w].link
         n == wk[w].n
         r == <<p, n>>
         capped == ~CapAllows(p, clock)
     IN  IF NoReminders(p) \/ n > Len(Offsets(p))
         THEN Done(w) /\ UNCHANGED <<status, at, done>>
         ELSE /\ Goto(w, [wk[w] EXCEPT !.n = n + 1])
              /\ IF WithinExpiry(p, n) /\ status[r] = "absent"
                 THEN /\ status' = [status EXCEPT ![r] = MintedStatus(p)]
                      /\ at' = [at EXCEPT ![r] = IF capped THEN clock ELSE ReminderTime(p, n)]
                      /\ done' = [done EXCEPT ![r] = IF MintedStatus(p) = "shadow" THEN clock ELSE 0]
                 ELSE UNCHANGED <<status, at, done>>
  /\ UNCHANGED <<clock, setting, outcome, orderPaid, rz, told, recovered, crashes>>

-----------------------------------------------------------------------------
(* execute_reminder. *)

\* broken: an outcome written since the send does not stop the reminder
LinkGoneByStatus(p) == p \in orderPaid \/ status[Link(p)] # "sent"

\* The link is no longer open as far as the database knows.
LinkGone(p) == p \in orderPaid \/ status[Link(p)] # "sent" \/ Ended(p)

\* broken: the quiet hours count when the reminder is scheduled, not when a
\* late sweep takes it
VerdictAsScheduled(p, now) ==
  IF LinkGone(p) THEN "no_action"
  ELSE IF setting.shadow THEN "shadow"
  ELSE IF ~setting.notify THEN "no_action"
  ELSE IF ~CapAllows(p, now) THEN "human_queue"
  ELSE "executing"

\* The guards in order, each before any outbound call.
Verdict(p, now) ==
  IF LinkGone(p) THEN "no_action"
  ELSE IF setting.shadow THEN "shadow"
  ELSE IF ~setting.notify THEN "no_action"
  ELSE IF WithinQuietHours(now) THEN "pending"
  ELSE IF ~CapAllows(p, now) THEN "human_queue"
  ELSE IF Media[p] = {} THEN "no_action"
  ELSE "executing"

BeginReminder(w, r) ==
  /\ ~Busy(w)
  /\ status[r] = "pending"
  /\ Goto(w, [pc |-> "judged", row |-> r, now |-> clock, verdict |-> Verdict(Payment(r), clock)])
  /\ UNCHANGED <<clock, setting, rows, rz, told, recovered, crashes>>

SweepReminder(w, r) == Due(r) /\ BeginReminder(w, r)

\* A guard refused it: the row is written whatever it holds by now.  A
\* reminder inside the quiet hours only moves.
SettleReminder(w) ==
  /\ At(w, "judged")
  /\ wk[w].verdict # "executing"
  /\ IF wk[w].verdict = "pending"
     THEN at' = [at EXCEPT ![wk[w].row] = NextAllowedSend(wk[w].now)] /\ UNCHANGED <<status, done>>
     ELSE Commit(wk[w].row, wk[w].verdict, wk[w].now) /\ UNCHANGED at
  /\ Done(w)
  /\ UNCHANGED <<clock, setting, outcome, orderPaid, rz, told, recovered, crashes>>

\* broken: the claim does not look at the row again
ClaimReminderUnchecked(w) ==
  /\ At(w, "judged")
  /\ wk[w].verdict = "executing"
  /\ LET r == wk[w].row IN
     /\ Commit(r, "executing", wk[w].now)
     /\ Goto(w, [pc |-> "fetch", row |-> r, now |-> wk[w].now,
                 open |-> ~ClosedAtRazorpay(Payment(r)), blind |-> FALSE,
                 left |-> Media[Payment(r)], got |-> FALSE])
  /\ UNCHANGED <<clock, setting, at, outcome, orderPaid, rz, told, recovered, crashes>>

\* The compare-and-set pending -> executing.  open records, for the
\* properties, what Razorpay held then; blind that the fetch did not answer.
ClaimReminder(w) ==
  /\ At(w, "judged")
  /\ wk[w].verdict = "executing"
  /\ LET r == wk[w].row IN
     IF status[r] = "pending"
     THEN /\ Commit(r, "executing", wk[w].now)
          /\ Goto(w, [pc |-> "fetch", row |-> r, now |-> wk[w].now,
                      open |-> ~ClosedAtRazorpay(Payment(r)), blind |-> FALSE,
                      left |-> Media[Payment(r)], got |-> FALSE])
     ELSE Done(w) /\ UNCHANGED <<status, done>>
  /\ UNCHANGED <<clock, setting, at, outcome, orderPaid, rz, told, recovered, crashes>>

\* broken: only an expired link stops a claimed reminder
ExpiredAtRazorpay(p) == clock >= LinkExpiry(p)

FetchSaysClosed(p) == ClosedAtRazorpay(p)

\* A closed link ends the reminder; an error leaves the local record to decide.
FetchLink(w) ==
  /\ At(w, "fetch")
  /\ LET r == wk[w].row IN
     \/ /\ FetchSaysClosed(Payment(r))
        /\ Commit(r, "no_action", wk[w].now)
        /\ Done(w)
     \/ /\ ~FetchSaysClosed(Payment(r))
        /\ Goto(w, [wk[w] EXCEPT !.pc = "notify"])
        /\ UNCHANGED <<status, done>>
     \/ /\ FetchFaults
        /\ Goto(w, [wk[w] EXCEPT !.pc = "notify", !.blind = TRUE])
        /\ UNCHANGED <<status, done>>
  /\ UNCHANGED <<clock, setting, at, outcome, orderPaid, rz, told, recovered, crashes>>

\* One notify_by call, sms before email, answered or refused.
NotifyLink(w) ==
  /\ At(w, "notify")
  /\ wk[w].left # {}
  /\ LET medium == IF "sms" \in wk[w].left THEN "sms" ELSE "email"
         asked == [wk[w] EXCEPT !.left = @ \ {medium}]
     IN \/ /\ told' = [told EXCEPT ![wk[w].row][medium] = @ + 1]
           /\ Goto(w, [asked EXCEPT !.got = TRUE])
        \/ /\ NotifyFaults
           /\ Goto(w, asked)
           /\ UNCHANGED told
  /\ UNCHANGED <<clock, setting, rows, rz, recovered, crashes>>

\* Sent when any medium took it, else failed with no retry.
FinishReminder(w) ==
  /\ At(w, "notify")
  /\ wk[w].left = {}
  /\ Commit(wk[w].row, IF wk[w].got THEN "sent" ELSE "failed", wk[w].now)
  /\ Done(w)
  /\ UNCHANGED <<clock, setting, at, outcome, orderPaid, rz, told, recovered, crashes>>

\* broken: a claim is reclaimed only in the hour it was due
DueExecutingOnTime(r) == status[r] = "executing" /\ at[r] = clock

DueExecuting(r) == status[r] = "executing" /\ at[r] <= clock

\* run_due takes an executing row for a crashed one.  No link carries a
\* reminder's own reference_id, so the lookup answers "none" and the row is
\* pending again, or it cannot answer and a person takes over.
RecoverReminder(w, r) ==
  /\ ~Busy(w)
  /\ DueExecuting(r)
  /\ \/ status' = [status EXCEPT ![r] = "pending"]
     \/ FetchFaults /\ status' = [status EXCEPT ![r] = "human_queue"]
  /\ recovered' = [recovered EXCEPT ![r] = @ + 1]
  /\ UNCHANGED <<clock, setting, at, done, outcome, orderPaid, rz, told, crashes, wk>>

-----------------------------------------------------------------------------
(* What ends a link: its payment, its expiry, the order paid elsewhere. *)

\* An event says that the link was paid, or that it expired: it finds a job
\* without an outcome, whatever the status.
LearnEnd(w, p) ==
  /\ ~Busy(w)
  /\ ~Ended(p)
  /\ rz[p] = "paid" \/ (rz[p] = "open" /\ clock >= LinkExpiry(p))
  /\ Goto(w, [pc |-> "end", link |-> p, kind |-> IF rz[p] = "paid" THEN "paid" ELSE "ended"])
  /\ UNCHANGED <<clock, setting, rows, rz, told, recovered, crashes>>

\* The outcome, whatever the row has become; a paid link's job is set back to
\* sent in the same commit.  A full payment then settles the order, a part
\* payment or an expiry only voids the reminders.
RecordEnd(w) ==
  /\ At(w, "end")
  /\ LET p == wk[w].link IN
     /\ RecordOutcome(p, wk[w].kind)
     /\ \/ /\ wk[w].kind = "paid"
           /\ Goto(w, [pc |-> "mark", link |-> p])
        \/ Goto(w, [pc |-> "void", link |-> p, order |-> FALSE])
     /\ status' = [status EXCEPT ![Link(p)] = IF wk[w].kind = "paid" THEN "sent" ELSE @]
  /\ UNCHANGED <<clock, setting, at, done, orderPaid, rz, told, recovered, crashes>>

\* mark_order_paid, the first commit of record_order_paid.
SettleOrder(w, p) ==
  /\ orderPaid' = orderPaid \cup {p}
  /\ Goto(w, [pc |-> "void", link |-> p, order |-> TRUE])
  /\ UNCHANGED <<clock, setting, status, at, done, outcome, rz, told, recovered, crashes>>

RecordOrderPaid(w, p) == ~Busy(w) /\ p \notin orderPaid /\ status[Link(p)] # "absent" /\ SettleOrder(w, p)

MarkOrder(w) == At(w, "mark") /\ SettleOrder(w, wk[w].link)

PendingReminders(p) == {r \in Reminders : Payment(r) = p /\ status[r] = "pending"}

\* A sent link job whose result is still unknown.
LiveJob(p) == status[Link(p)] = "sent" /\ ~Ended(p)

\* What record_order_paid has to do for the link job, as it reads it now.
NextStop(p) ==
  IF status[Link(p)] = "pending" THEN "withdraw" ELSE IF LiveJob(p) THEN "stop" ELSE "none"

VoidReminders(w) ==
  /\ At(w, "void")
  /\ LET p == wk[w].link
         voided == PendingReminders(p)
     IN  /\ status' = [r \in Rows |-> IF r \in voided THEN "no_action" ELSE status[r]]
         /\ IF wk[w].order /\ NextStop(p) # "none"
            THEN Goto(w, [pc |-> NextStop(p), link |-> p])
            ELSE Done(w)
  /\ UNCHANGED <<clock, setting, at, done, outcome, orderPaid, rz, told, recovered, crashes>>

\* The pending link job is voided; its outcome follows.
VoidLink(w) ==
  /\ At(w, "withdraw")
  /\ Commit(Link(wk[w].link), "no_action", clock)
  /\ Goto(w, [pc |-> "close", link |-> wk[w].link, kind |-> "stopped"])
  /\ UNCHANGED <<clock, setting, at, outcome, orderPaid, rz, told, recovered, crashes>>

\* _cancel_live_link: one POST, refused for a link that has ended; its answer
\* may be lost.  Shadow mode leaves a live link.
StopLink(w) ==
  /\ At(w, "stop")
  /\ LET p == wk[w].link
         next(pc) == Goto(w, [pc |-> pc, link |-> p])
     IN  \/ setting.shadow /\ Done(w) /\ UNCHANGED rz
         \/ /\ ~setting.shadow /\ ~ClosedAtRazorpay(p)
            /\ rz' = [rz EXCEPT ![p] = "cancelled"]
            /\ next("stopped") \/ next("parked")
         \/ ~setting.shadow /\ next("parked") /\ UNCHANGED rz
  /\ UNCHANGED <<clock, setting, rows, told, recovered, crashes>>

\* The row: cancelled, or for a person when the cancel was refused.
RecordStop(w) ==
  /\ At(w, "stopped") \/ At(w, "parked")
  /\ LET p == wk[w].link
         took == At(w, "stopped")
     IN  /\ status' = [status EXCEPT ![Link(p)] = IF took THEN "cancelled" ELSE "human_queue"]
         /\ Goto(w, [pc |-> "close", link |-> p, kind |-> IF took THEN "cancelled" ELSE "parked"])
  /\ UNCHANGED <<clock, setting, at, done, outcome, orderPaid, rz, told, recovered, crashes>>

\* The outcome, in a commit of its own.
CloseLink(w) ==
  /\ At(w, "close")
  /\ RecordOutcome(wk[w].link, wk[w].kind)
  /\ Done(w)
  /\ UNCHANGED <<clock, setting, status, at, done, orderPaid, rz, told, recovered, crashes>>

-----------------------------------------------------------------------------
(* The world. *)

PayLink(p) ==
  /\ rz[p] = "open"
  /\ ~ClosedAtRazorpay(p)
  /\ rz' = [rz EXCEPT ![p] = "paid"]
  /\ UNCHANGED <<clock, setting, rows, told, recovered, crashes, wk>>

Tick ==
  /\ \A w \in Workers : ~Busy(w)
  /\ clock + TickHours <= Horizon
  /\ clock' = clock + TickHours
  /\ UNCHANGED <<setting, rows, rz, told, recovered, crashes, wk>>

\* The process is lost mid-step and started again, perhaps with another
\* configuration.
CrashWorker(w) ==
  /\ Busy(w)
  /\ crashes < MaxCrashes
  /\ crashes' = crashes + 1
  /\ Done(w)
  /\ setting' \in Settings
  /\ UNCHANGED <<clock, rows, rz, told, recovered>>

-----------------------------------------------------------------------------
Sweep(w) ==
  \/ \E p \in Payments : SweepLink(w, p)
  \/ \E r \in Reminders : SweepReminder(w, r) \/ RecoverReminder(w, r)

Work(w) ==
  \/ ScheduleReminder(w)
  \/ SettleReminder(w)
  \/ ClaimReminder(w)
  \/ FetchLink(w)
  \/ NotifyLink(w)
  \/ FinishReminder(w)
  \/ RecordEnd(w)
  \/ MarkOrder(w)
  \/ VoidReminders(w)
  \/ VoidLink(w)
  \/ StopLink(w)
  \/ RecordStop(w)
  \/ CloseLink(w)

Event(w) == \E p \in Payments : ScheduleLink(w, p) \/ LearnEnd(w, p) \/ RecordOrderPaid(w, p)

CNext ==
  \/ \E w \in Workers : Sweep(w) \/ Work(w) \/ Event(w) \/ CrashWorker(w)
  \/ \E p \in Payments : PayLink(p)
  \/ Tick

CSpec == CInit /\ [][CNext]_cvars

\* serve sweeps for ever, a step begun is carried on unless the process is
\* lost, and time passes.
CFairness ==
  /\ \A w \in Workers : WF_cvars(Sweep(w) \/ Work(w))
  /\ WF_cvars(Tick)

CFairSpec == CSpec /\ CFairness

-----------------------------------------------------------------------------
(* Properties. *)

Positions ==
  {Idle}
    \cup [pc : {"remind"}, link : Payments, n : 1..3]
    \cup [pc : {"judged"}, row : Reminders, now : Nat, verdict : Verdicts]
    \cup [pc : {"fetch", "notify"}, row : Reminders, now : Nat, open : BOOLEAN, blind : BOOLEAN,
          left : SUBSET AllMedia, got : BOOLEAN]
    \cup [pc : {"void"}, link : Payments, order : BOOLEAN]
    \cup [pc : {"end", "close"}, link : Payments, kind : OutcomeKinds]
    \cup [pc : {"mark", "withdraw", "stop", "stopped", "parked"}, link : Payments]

\* Every variable holds a value the code's columns and calls can hold; in one
\* process a link job has at most one outcome, however an event, a crash and the
\* stop of a paid order follow each other.
CadenceTypeOK ==
  /\ clock \in Nat
  /\ setting \in Settings
  /\ status \in [Rows -> RowStatuses]
  /\ at \in [Rows -> Nat]
  /\ done \in [Rows -> Nat]
  /\ outcome \in [Payments -> {<<>>} \cup {<<kind>> : kind \in OutcomeKinds}]
  /\ orderPaid \subseteq Payments
  /\ rz \in [Payments -> {"none", "open", "paid", "cancelled"}]
  /\ \A r \in Reminders : told[r] \in [Media[Payment(r)] -> Nat]
  /\ recovered \in [Reminders -> Nat]
  /\ crashes \in Nat
  /\ wk \in [Workers -> Positions]

\* A customer hears a reminder once on each medium; every repeat is one
\* recovery of a claim that was taken for crashed (execute_reminder writes
\* nothing between two notify calls that a second execution would read).
OneNotifyPerClaim ==
  \A r \in Reminders : \A m \in Media[Payment(r)] : told[r][m] <= 1 + recovered[r]

\* No reminder takes the customer past the weekly cap: when one is recorded
\* sent, it and every other link and reminder of the window are within it.
\* The cap is read at schedule time and again at execution.
RemindersWithinCap ==
  [][\A r \in Reminders :
       status[r] # "sent" /\ status'[r] = "sent" =>
         SendsTo(Payment(r), clock)' <= Limit[Payment(r)]]_cvars

\* A reminder goes out only for a link Razorpay still held open when the row
\* was claimed, unless Razorpay could not be asked.
RemindsOpenLinks ==
  \A w \in Workers : At(w, "notify") => wk[w].open \/ wk[w].blind

\* Once a link's outcome or its order's payment is on record, no process calls
\* notify for it, not even one whose fetch failed: a crash between the outcome
\* and the void of the pending reminders leaves that to the guards.
ClosedLinkIsQuiet ==
  \A w \in Workers :
    At(w, "notify") => LET p == Payment(wk[w].row) IN p \notin orderPaid /\ ~Ended(p)

\* No reminder is sent inside the customer's quiet hours, whenever it was
\* scheduled and however late the sweep that takes it.
RemindersKeepQuiet ==
  \A r \in Reminders : status[r] = "sent" => ~WithinQuietHours(done[r])

\* A reminder still to be sent is scheduled before its link expires, at an
\* hour a message may go out; only one that a late sweep found inside the
\* quiet hours may be moved past the expiry.
ScheduledForOpenLink ==
  \A r \in Reminders :
    status[r] = "pending" =>
      /\ ~WithinQuietHours(at[r])
      /\ at[r] < LinkExpiry(Payment(r)) \/ at[r] <= NextAllowedSend(clock)

\* Every reminder is sent, refused or skipped in the end, through quiet hours,
\* crashes and failed fetches, unless its hour lies past the horizon.
EveryReminderSettles ==
  \A r \in Reminders :
    status[r] \in {"pending", "executing"}
      ~> status[r] \notin {"pending", "executing"} \/ at[r] > Horizon
=============================================================================
