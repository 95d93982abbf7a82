# Payment recovery agent: specifications

TLA+ specifications of the agent in `src/app`, their TLC runs, and proofs checked by TLAPS.
The code is the reference; a claim of a document is a property to check, never a definition.

## 1. The system

The agent turns a failed Razorpay payment into at most a few recovery attempts, mostly payment
links. State lives in one database (`payment_attempts`, `recovery_decisions`, `recovery_jobs`,
`outcomes`, `audit_events`) and at Razorpay (the links, looked up by `reference_id`, and the
payments of an order). A job is identified by `(payment, retry_seq)`; its key is a hash of the two,
UNIQUE in the database and sent to Razorpay as `reference_id`.

| component | state it keeps | operations | interacts by |
|---|---|---|---|
| `pipeline` | decisions, outcomes | `process_attempt`, `finish_job`, `schedule_followup`, `schedule_expiry_followup`, `poll_outcomes` | calls classify, policy, executor; rows |
| `executor` | jobs | `schedule_job`, `execute_job`, `recover_stale_execution`, `reconcile_failed_job` | rows, HTTP to Razorpay |
| `scheduler` | none | `due_jobs`, `run_due` | rows; calls executor and pipeline |
| `ingest` | attempts, order-paid columns | `ingest_event`, `close_paid_link`, `close_expired_link`, `record_order_paid` | webhooks in; calls pipeline, executor; cancel calls out |
| `ops.serve` | a lock, threads | receiver + sweep loop + operator view | the lock serialises the receiver and the sweep, not the view |
| `cadence` | reminder jobs, delivery rows | schedule, execute, void reminders | rows; notify calls |
| `policy`, `merchants` | override files, a registry per process | `decide`, `load`, `write_override`, `rollback_override` | files |
| `scheduling` | none | send-time shifts, weekly cap | reads rows |
| `offers` | none | payload extras, shadow mode, history override | reads rows |
| `classify`, `llm` | call budget, cassette | `classify`, `classify_unmapped`, `draft_nudge` | HTTP to the model |
| `actions`, `web` | none | `retry_now`, cancel, resolve, resend | operator; rows, Razorpay |
| `insights`, `priority`, `rule_candidates` | none | reports | read rows |
| `main`, `config`, `db`, `faults`, `scripts/` | environment | CLI, demo, chaos, evaluation | start the above |

Where it is hard: every handler commits several times and may stop between any two commits; a
create request may be lost on the way back and land later; webhooks are redelivered, reordered and
race with the poll; several payments share an order; the CLI may run beside `serve` on the same
database, outside its lock.

What makes each part correct. Executor: never two links a customer could pay for one payment; a job
recorded as sent has its link; nothing goes out past the stop rule, for a paid order or for a closed
job; every job settles. Ingest and poll: one outcome per job from each process; once an order is paid nothing of it is
pending or silently live; every finished link is closed; an expired link earns its successor. Policy:
an override only holds the agent back, and what is refused for risk is never automatic. Scheduling: no message goes out in quiet hours or over the
cap. Cadence: a reminder never creates and never outlives its link. Actions: an operator's step keeps
all of the above. LLM: an answer outside the vocabulary never becomes an action.

## 2. Modules

| module | what it is |
|---|---|
| `Executor` | scheduling, guards, claim, send, finish, recovery and sweep of link jobs, with Razorpay and crashes |
| `Settlement` | extends `Executor` with the webhooks about links and orders, the poll in `serve`'s turn or in a process of its own, the customer and expiry |
| `Reports` | extends `Settlement` with what the insights, the digest and the person's queue read of it |
| `RecoveryPromise` | the abstract promise about a payment: attempts, one offer at a time, a result |
| `Refinement` | the mapping from `Settlement` to `RecoveryPromise`, and the invariant `AttemptsInTurn` under it |
| `Scheduling` | quiet hours, salary window, contact window: pure operators |
| `Cadence` | the reminders of a sent link on a clock; extends `Scheduling` |
| `Operator` | a person's actions beside `serve`; extends `Cadence` |
| `Policy` | the decision table and everything that rewrites its answer: pure operators |
| `Classify` | the rules from an error object to a failure class: pure operators |
| `Insights` | buckets, confidence intervals and proposals: pure operators; extends `Policy` |
| `Overrides` | the merchants' files, who writes them and who has read what; extends `Insights` |
| `Intake` | a webhook up to its first job; extends `Overrides` and `Classify` |
| `Drafting` | the message of a link, and the cassette file |
| `Settlement_proofs` | theorems of `Executor`; of `Settlement` for any number of processes, or on one invariant only |
| `Refinement_proofs` | theorems that rest on `AttemptsInTurn`, and the refinement step by step |
| `Serve_proofs` | theorems about what `serve` leaves behind when it is at rest: after a recorded order, in the reports, for every stored payment; and about its outcomes beside the poll |
| `Cadence_proofs` | theorems of `Scheduling` and `Cadence` |
| `Operator_proofs` | theorems of `Operator` |
| `Intake_proofs` | theorems of `Intake` and of the files of `Overrides`, with the lemmas about `Classify` and `Policy` |
| `Drafting_proofs` | theorems of `Drafting` |
| `RecoveryPromise_proofs` | the theorem of the abstract promise |
| `MCExecutor`, `MCSettlement`, `MCCadence`, `MCOperator`, `MCIntake`, `MCDrafting` | constants of the runs |

Four state machines share the system at its narrow points. `Intake` ends at the row `schedule_job`
writes; `Executor` and `Settlement` start at the stored attempt, with the decision as an input;
`Cadence` takes the life of a link job as one step per handler and follows the messages about it;
`Drafting` begins when `finish_job` asks for a nudge.

### Executor

`job[<<p, s>>]` is the `recovery_jobs` row of payment `p` and sequence `s`: its status, the failure
kind that prefixes `last_error`, whether a link id is stored and whether the nudge was drafted.
`outcome[j]` lists the rows of `outcomes`, `attempts` the stored payments, `orderPaid` the orders with
`order_paid_at`. `link[j]` is the link Razorpay holds under the job's reference, `inflight` the create
requests whose answer was lost, `captured` the orders paid another way. `wk[w]` is a process: the
program counter, the row in memory and the local variables it carries across a commit or a call.
`raced` is an observation: the links that landed while a follow-up of the same payment was already
past its check. No action reads it.

One action is the code from one commit or HTTP call to the next.

| actions | code |
|---|---|
| `ProcessAttempt`, `Insert`, `InsertDuplicate`, `Park` | `_process`, `schedule_job` with its status choice and the UNIQUE key |
| `Sweep`, `RecoverLookup`, `RecoverStaleExecution` | `due_jobs`, `run_due`, `recover_stale_execution` |
| `Execute`, `VoidOrderPaid`, `VoidOutcome`, `StubTokenRetry`, `RefuseLocally`, `ClaimForExecution`, `ClaimRefused` | `execute_job` up to the claim |
| `FinishShadow`, `SendSubscriptionPage`, `OrderCheck...`, `Earlier...`, `Superseded` | `execute_job` from the claim to the send |
| `Create...`, `OfferRejected`, `FinishDuplicate`, `RecordResult` | `_create_link_with_backoff`, the offer fallback, the duplicate reference |
| `Finish...`, `Reconcile`, `Close`, `Followup` | `finish_job`, `reconcile_failed_job`, `_close`, `schedule_followup` |
| `Land`, `Capture`, `Crash` | a lost request completing, the customer, the process dying |

Abstractions, and why they are sound.
- Classification and policy: the first action (`FirstActs`), the route of the payment and the class's
  `MaxAttempts` are inputs. `Route` "refused" stands for the amount and the unknown-action guards.
- Time: a pending or executing row may be due at any moment (`execute_now`, delay 0 and a late sweep
  make this possible in the code). The contact cap is a nondeterministic refusal (`ContactCap`).
- A sweep reads its list first and works on it later: picking one row and stalling gives the same
  states. The session keeps loaded rows (`expire_on_commit=False`), so `finish_job` acts on the
  row in memory, and an ORM write of an unchanged value writes nothing.
- A lookup and the commit that follows it are one action in `EarlierLanded`, `Reconcile` and
  `FinishDuplicate`: between them only the answer could be overtaken, and a request landing right
  after the step gives the same state. `recover_stale_execution` keeps them apart because another
  process may write the row in between.
- `next_retry_seq` and the insert are two actions, as are the check for an outcome and its insert.
- A refused offer field is retried plain under the same reference. The model may refuse again after
  a crash, where the code has already dropped the offer: a few more behaviours, none less.
- A request with an offer or an id-less answer, and the text of errors, are folded into failure kinds.

### Settlement

`hd[w]` is the handler or the poll a process is in; a process runs either it or the Executor's code.
`ReceivePaid`, `PaidIgnored`, `PaidChecked` and `ClosePaidLink` are `close_paid_link`;
`ReceiveCaptured`, `MarkOrderPaid`, `TakeAttempt`, `VoidPending`, `CancelLink`, `CancelSkipped`,
`RecordCancel`, `CloseStopped` and `AttemptsDone` are `record_order_paid` with
`_cancel_live_link`; `ReceiveExpired`, `ExpiredIgnored`, `ExpiredChecked`, `ExpiryFollowup` are
`close_expired_link` and `schedule_expiry_followup`; `PollLink`, `StillOpen`, `FetchLink`,
`RecordSeen` are `poll_outcomes`. `Ordered` are the payments with an order id; the others have an
`OrderOf` of their own that nobody pays.

`Duties` says what a process runs. `serve` takes each delivery and each sweep under its lock, so one worker
with the duty `serve` does them one after the other (`Free`). The poll is a command, run by cron, that takes no
lock (main.py:403): it has a worker of its own in `settlement_late` (`Apart`), where the link is read, fetched and closed
in three steps between which `serve` does what it likes. In the other runs the poll takes turns with `serve` (`InTurn`): cron ran
it while no event came in. `poll_outcomes` lists all open links before it fetches the first; in the model a process lists one,
and may wait with it as long as it likes.

A webhook may be delivered whenever the state it reports holds, any number of times and in any order. Not modelled: a
"partially paid" event that arrives after the balance was paid, the expiry of a partially paid link; `void_reminders` is in
`Cadence`. `ClosePaidLink` reads the current row where the code holds the one it loaded: the same with one
process that serves, as it is checked.

### Reports, RecoveryPromise, Refinement

`Reports` reads the tables of `Settlement` the way `insights.compute`, `priority.human_queue` and
`ops.compute_digest` do: the latest job of a payment carries its status and its delay, the digest
counts outcomes. `RecoveryPromise` has no jobs, processes or tables: `tries[p]`, the link of the
latest try as the customer sees it, and what that try came to. A new try begins only when no
offer is open, and at most `MaxAttempts` make an offer. The mapping takes the largest sequence of a
payment for `tries`, the link Razorpay holds under its key for the offer, and its first outcome for
the result; commits, lookups, claims, crashes of nothing visible are stutters. `AttemptsInTurn` says,
for every row and every position of a process or a handler, what one process under the lock relies on:
rows of a payment come one after another, every earlier one is closed and its link dead, and what was
read before a call still holds at the write.

### Scheduling, Cadence, Operator

A time is an hour of the customer's clock. `status`, `at` (`scheduled_at`), `done` (`executed_at`) are
columns of the row `<<p, n>>`, the link job (`n = 0`) or reminder `n` of payment `p`; `outcome`,
`orderPaid` as before; `rz` is the link at Razorpay; `told` counts notify calls, `recovered` the
recoveries of a claim; `setting` is the environment a process was started with (shadow,
notifications, reminders) and may change with a crash. `Operator` adds two observations, which no action reads: `resent`
and `orphaned`, the links a refused cancel parked and a crash left without the outcome that goes with it.

| actions | code |
|---|---|
| `ScheduleLink`, `SweepLink` | `schedule_job` with the calendar and the cap; `execute_job` in one step, then `finish_job`'s call of `schedule_reminders` |
| `ScheduleReminder` | `schedule_reminders`, one commit per offset |
| `BeginReminder`, `SettleReminder`, `ClaimReminder` | the guards of `execute_reminder` in order, and its claim |
| `FetchLink`, `NotifyLink`, `FinishReminder` | the fetch, one `notify_by` call per medium, the final status |
| `RecoverReminder` | `recover_stale_execution` of a reminder |
| `LearnEnd`, `RecordEnd`, `VoidReminders` | `close_paid_link`, `close_expired_link`: the check for an outcome; the outcome, with which the row of a paid link is sent again whatever it had become; the void of the reminders |
| `RecordOrderPaid`, `MarkOrder`, `VoidReminders`, `VoidLink` | `record_order_paid`, by its own event or after a paid link: the order, the reminders, the pending link job, each in a commit |
| `StopLink`, `RecordStop`, `CloseLink` | `_cancel_live_link`: the cancel call, the row cancelled or parked, the outcome, in three steps |
| `Resolve`, `RecordResolve`, `CommandResolve` | `resolve` in the web view (a check, then a commit) and on the command line (one commit, may be forced) |
| `BeginCancel`, `CallCancel`, `RecordCancelled`, `CloseCancelled` | `cancel_link` with its call and two commits |
| `BeginResend`, `CallResend`, `RetryLink`, `RetryReminder` | `resend_notification`, `retry_now` |
| `CrashWorker`, `OperatorCrash` | a process lost between any two of these steps |

A follow-up is a link job of its own and belongs to `Settlement`, as does the poll beside an event; a payment here has one link job. The guards
of `execute_reminder` are read in one step and judged in the next, so another process may act in
between. The clock moves only when no worker is inside a call: a call has a timeout of seconds, a tick
is hours.

### Policy, Classify, Insights, Overrides, Intake

`Policy` is the table and the chain `effective_entry`, `decide`, `subscription_override`,
`history_override`; delays are minutes. `Classify` keeps the order and the conditions of the
thirteen rules; of a description it sees the keyword groups that match, any set of them.
`Insights` computes the 95 % interval of a rate in whole per mille, rounded outwards, where the code
uses floats: a proposal of the code that hangs on less than a thousandth is refused here.

`files[f]` is a merchant's override file (policy and trail), `registry[w]` what process `w` has read of
it, `draft[c]` what a clerk (the web view's thread, a command) read before it writes. `granted` and
`byHand` record, for the properties, which delays evidence and people put into a file. `row[p]` is
the stored attempt, `decisions` the table of decisions, `job[p]` the first job, `wk[w]` the event a
process is at work on. `Receive` is `ingest_attempt`, `AskModel` `classify_unmapped` with one
repair, `RecordDecision` and `CreateJob` the two commits of `_process`, `Refuse` a step that raises and is
rolled back by `db_guarded`, `Restart` a process that starts again. `clock` is `utcnow`: a stored failure has its `failedAt`, an
event the `now` it began with (ingest.py:662), and `History` counts the failures in the window that ends at that `now`
(`InWindow`), however long the model was asked meanwhile (`Tick`).

### Drafting

`draft[w]` is the draft in the making, `tape` the cassette file, `index[w]` what a process has
loaded of it, `env[w]` how it was started (mode, key, fault, shadow), `stored` the message of each job.
A message is its channel, the amounts and links in it, what it says that it must not, its script and
its length. `FinishJob` picks the client or the template, `AskLive`, `AskFaulting`, `AskRecording` and
`AskReplaying` are one call each, `NextDraft` is the check and the one repair, `AttachNudge` adds
the offer sentence and stores. A template that is too long at its shortest is cut (`Whole` is false): it loses the link and, in
Hindi and Hinglish, whose texts put the order id first, whatever of the amount does not fit (`CutAmounts`, an input).

## 3. Runs

| run | bounds | shows |
|---|---|---|
| `executor_late` | 4 payments of one order, one per route, 3 attempts, late landing | `NoCreateOverLanded` |
| `executor_two` | 2 processes, 1 payment, 1 attempt, crashes, failing lookups, order check, live and shadow mode | `TypeOK`, `SentHasLink`, `StopRule` |
| `settlement` | 1 process, 2 payments of one order, 2 attempts, cancel, poll and lookup failures | `NoSilentLiveLink`, `PaidOrderNothingPending`, `NothingGoesOutAfterPaid`, `NothingIsForgotten`, `SettlementTypeOK` |
| `settlement_crash` | the same with a token route, crashes, part payments, two tries, offers, order check, contact cap | `OneLiveLink`, `ClosedStaysClosed`, `PaidOrderNeverSends`, `ReportsAgree` |
| `settlement_late` | 2 processes (`serve`; the poll), 1 payment, late landing, 5 sequences so that each landed link can earn a successor, live and shadow mode | `RecoveredIsPaid`, `OutcomeOncePerProcess` |
| `settlement_live` | 1 process, 1 payment, 2 attempts, live and shadow mode, fairness | `EveryJobSettles`, `EveryLinkCloses`, `ExpiryEarnsNextAttempt`, `ImplementsPromise` |
| `cadence` | 1 process, 2 payments of one customer (one a subscription's page), cap of 2 in a day, links of 26 hours, 36 hours in ticks of 12, one crash | `RemindersWithinCap`, `RemindsOpenLinks`, `ClosedLinkIsQuiet`, `RemindersKeepQuiet`, `ScheduledForOpenLink`, `EveryReminderSettles`, `CadenceTypeOK` |
| `operator` | `serve` and one person, 1 payment, one crash, refused cancels, 3 outcomes, a forced resolve | `OneNotifyPerClaim`, `RecoveredOnce`, `CancelledIsTrue`, `OperatorTypeOK` |
| `intake` | 2 processes, 2 payments of one customer (unmapped and halted; risk), a clock of 2 steps and a window of 2, one hand edit | `RiskIsNeverAutomatic`, `DecisionsOnlyTighten`, `RepeatRiskStops`, `IntakeTypeOK` |
| `overrides` | 2 processes, 2 clerks, 1 payment, 3 writes, one hand edit, fairness | `SoonerDecisionIsBacked`, `TrailUndoes`, `EveryEventHasAJob` |
| `drafting` | 2 processes, 3 jobs (one a Hindi text that must be cut), 3 drafts, 3 messages a model may write | `MessageKeepsTheRules`, `ReplayRepeats`, `DraftingTypeOK` |
| `v_pending` | 1 payment whose charge two events carry | a disagreement (below) |

Why the bounds are enough. Two attempts are the smallest budget at which a follow-up exists, and `MaxSeq`
is one past it so that the stop rule's row can be inserted; a third attempt is needed only where a
follow-up must skip over one (`executor_late`). `MaxHttp` 1 makes every failure final; 2 lets a 429
follow an unanswered try. In `cadence` the clock stops at 9, 21, 9 and 21 h: both edges of the quiet hours,
a reminder moved over a night, a link that expires before its last reminder, and a second link of the
customer that fills the cap. `operator` has `serve`, whose lock makes its receiver and its sweep one process, and one person; its one crash may
fall between any call and its commits. `intake` has the payment that takes longest to decide, while the model is asked, and the one that should
stop it, in every order of arrival and decision; a window as long as the clock makes a failure fall out of it in the last step; its two
processes are interchangeable (no clerks), hence the symmetry. A class decided by rule, failing steps and restarts are in `overrides`. Three writes of `overrides` are two applies and a rollback, or a write lost
between two clerks. A draft takes at most two calls, so three drafts are a recording, a second
recording of the same job and a replay.

The properties:
- `NoCreateOverLanded`: a follow-up never creates over an earlier link that had landed before its
  check. A link that lands during the send itself cannot be prevented by the code (`raced` exempts it).
- `OneLiveLink`: at most one link that can still be paid for each payment.
- `SentHasLink`: a row with a link id, or sent, has its link (a subscription's page is the exception).
- `StopRule`: no link and no request in flight beyond the budget.
- `ClosedStaysClosed`, `PaidOrderNeverSends`, `NothingGoesOutAfterPaid`: no create for a closed job
  or a recorded order, whatever is redelivered; no job of a recorded order becomes sent.
- `NoSilentLiveLink`, `PaidOrderNothingPending`: what a recorded order leaves behind.
- `RecoveredIsPaid`: an outcome that counts money has it on its own link, also for a job that had failed.
- `OutcomeOncePerProcess`: no redelivery, expiry, void or poll makes one process write a second outcome of a job; `serve` and the
  poll may write one each (Disagreements). `ReportsAgree`: the report and the digest count the same
  money, and a recovery is evidence for the delay of the link that collected it.
- `NothingIsForgotten`: with the worker idle, a payment's latest job is still to be swept, or polled,
  or with a person, or has an outcome.
- `EveryJobSettles`, `EveryLinkCloses`, `ExpiryEarnsNextAttempt`: what must happen in the end.
- `ImplementsPromise`: `Settlement` implements `RecoveryPromise` under the mapping of `Refinement`.
- `RemindersWithinCap`, `RemindersKeepQuiet`, `ScheduledForOpenLink`: the cap, the quiet hours and the
  expiry hold when a reminder goes out, not only when it is scheduled.
- `RemindsOpenLinks`, `ClosedLinkIsQuiet`: no notify call for a link Razorpay closed before the claim
  (unless it could not be asked), nor for one whose end is on record.
- `OneNotifyPerClaim`: a repeated message is a recovered claim's. `EveryReminderSettles`: each one ends.
- `RecoveredOnce`: an event that says paid books a payment once, a person once, and both only where a crash lost the outcome of a link
  that had been parked. `OperatorTypeOK` says where a person's booking may stand. `CancelledIsTrue`: "cancelled" is true at Razorpay.
- `RiskIsNeverAutomatic`, `DecisionsOnlyTighten`, `RepeatRiskStops`, `SoonerDecisionIsBacked`: what no
  combination of rule, guess, file, subscription and history may decide. The history reaches from the start of the event back over its window.
- `TrailUndoes`: a rollback restores what the write found, whatever other writers lost.
- `EveryEventHasAJob`: a delivered event gets its job across failures between decision and job.
- `MessageKeepsTheRules`: amounts, link, forbidden claims and script of the stored message; a template that was cut keeps what the cut leaves.
- `ReplayRepeats`: a replay drafts what the last complete recording drafted.

The deadlock check is off where everything may be settled for good: `executor_two` (no customer and
no webhook), `cadence` and `operator` (the horizon), `intake`, `overrides`, `v_pending` (all events
answered) and `drafting` (all drafts made).

Fairness: a process that has begun a call ends it (weak fairness on its steps: every request has a
timeout, every loop is bounded); a row that stays due is taken by a sweep (strong fairness in
`Settlement`, since the lock is taken and released between sweeps by `Serve._loop`; weak in `Cadence`, where
a due row stays due until it is taken: its process goes on sweeping or finishing what it began); a link that stays open is asked about again and one of the
answers arrives ("the next poll asks again"; the poll is a command run from cron); time passes; Razorpay delivers
an event until it is answered (`IFairness`). There is no fairness on the customer, on webhooks about
links, on landing, on people or on crashes. `settlement_live` has no crash, because the code
does not promise to resume what a crash between the last commit and `finish_job` leaves (section 5);
`cadence` and `overrides` have crashes and failing steps in their liveness runs. Sweeps are the process's that serves, polls the
process's that polls.

### Disagreements

`v_pending` reproduces one: README.md:164 leaves a charge in Razorpay's own retry window alone,
but `ingest_attempt` (ingest.py:398) does nothing for a payment it knows, so a `payment.failed` that
arrives before the `subscription.pending` of the same charge keeps its link job.

Others were met while modelling. No run reproduces them here; the passing runs avoid exactly these inputs.
- `_earlier_landed` (executor.py:453) drops the lookup's error: a failed lookup is taken for "no link"
  and a second link is created. `NoCreateOverLanded` is checked with lookups that answer.
- executor.py:649 says a follow-up must not create a second live link where an earlier attempt has landed, but
  `_earlier_landed` commits that attempt as sent (executor.py:466) before the follow-up is closed. A crash in between makes
  the recovery reset the follow-up to `pending`, and only FAILED attempts are looked up, so it creates the second link. This
  came out of the proof of `NoCreateOverLanded`: with `Crashes = TRUE` TLC finds it in 27 states of `executor_late`.
- A superseded follow-up (executor.py:656) is closed `no_action` with no outcome, against
  ARCHITECTURE.md:81. Late landing appears only where that is not asked about.
- A sweep of a second process (scheduler.py:32) resets a live claim; a later follow-up makes a second link
  under another key, which the `reference_id` backstop of README.md:208 does not see. `OneLiveLink` is
  checked with one process.
- A partially paid link has its outcome already (ingest.py:612), so an order paid elsewhere neither
  cancels it nor parks it, against ARCHITECTURE.md:232. `NoSilentLiveLink` is checked without part payments.
- The poll closes a paid link without recording its order (pipeline.py:547); the webhook is then ignored
  and a sibling sends, against ingest.py:446. The paid-order properties speak of recorded orders.
- A claim that crashed before the capture is recovered as sent after it (executor.py:515), against
  ARCHITECTURE.md:167. `NothingGoesOutAfterPaid` is checked without crashes.
- close_paid_link (ingest.py:445) and close_expired_link (ingest.py:501) write no second outcome of a job that "a link poll already closed",
  but each side looks once: the poll lists the open links (pipeline.py:498), fetches (pipeline.py:536) and writes (pipeline.py:549, 556, 561)
  in a process of its own (main.py:403) while the receiver looks (ingest.py:458, 512) and writes. Two outcomes of one job, two recoveries in the digest, and `ReportsAgree` fails:
  replace `Duties <- InTurn` by `Apart` with both workers. When both have closed an expired link, both also mint its follow-up
  (`schedule_expiry_followup` looks for a pending job only, pipeline.py:441), and with three attempts two links can be open at once, against
  ARCHITECTURE.md: give `settlement_late` `LateLanding = FALSE`, `MaxAttempts = 3`, `MaxSeq = 6`, live mode and the invariant `OneLiveLink`.
  What one payment keeps with the poll beside it and two attempts: all other properties of the `settlement` runs.
- `_cancel_live_link` commits the parked row (ingest.py:566) and its outcome (ingest.py:567) apart. A crash in between leaves a parked job without an
  outcome: a person's `resolve` passes its checks, payment_link.paid finds no outcome, sets the row back to sent and books the
  recovery (ingest.py:469-481), and the person's commit (actions.py:107) books it again, against actions.py:74. `RecoveredOnce` says
  that this is the only way (`orphaned`).
- `customer_history` counts failures up to the start of the event (offers.py:180, ingest.py:662). A payment refused for risk while the
  model is asked about another one of the customer has happened later, and the other is decided as if it had not, against
  offers.md:79: any such failure parks the others. `RepeatRiskStops` speaks of failures inside the window.
- The shortest Hindi and Hinglish texts name the order id before the amount (nudge_templates.py:118, 161), so the cut at the limit
  (nudge_templates.py:324) can take the amount, or some of its digits, from a message; llm.md:188 promises it for every class, channel and language that fits.
- `resolve` (actions.py:74) and web.md:77 refuse a payment already resolved or recovered, but the check and the
  outcome are in two commits with an audit row's between them (actions.py:92, 105, 107), and nothing looks
  again: a person in the web view passes the check, another one books the recovery on the command line, and the first
  books it too. With a second member of `Operators` TLC finds this in a few states of `operator`: `RecoveredOnce` is
  checked and proved with one person (`OnePerson`).
- `HumanQueueWatcher` (ops.py:467) looks for rows created since it started: a row of an earlier run that
  is parked now is not announced.
- ARCHITECTURE.md:141 and README.md:200 speak of a committed `pending` row after a crash in a
  send; the code leaves it `executing`, and the sweep recovers it.

## 4. Proofs

Every theorem holds for every value of the constants its module's assumption allows (any number of
payments, orders, attempts, faults, merchants, people's edits), under the hypotheses it states. The
argument is the same each time: an invariant that is not inductive gets the conjuncts a process
relies on between what it reads and what it writes; one lemma per group of actions shows that the
step keeps it; the property follows from it. `AttemptsInTurn` and `OInv` hold in the states of `settlement_crash` and
`operator` too: give TLC the line `INVARIANT AttemptsInTurn` (or the conjuncts of `OInv`) to see it.

`Settlement_proofs` begins with `Executor`, for any number of processes:
- `TypeCorrect`: `Spec => []TypeOK`. `TypeOK` is inductive. Each group of actions has a lemma
  (`ScheduleType`, `RecoverType`, ...); the lemmas rest on `LargestExists` (a nonempty bounded set of
  sequences has a largest) and `NextSeqIsNext` for `LastSeq`.
- `SentIsTrue`: `Spec => []SentHasLink`. Not inductive: a process may carry "sent" or "found" in
  memory before it writes. `SentInv` adds `WorkerSent`, what a process about to write knows, and the
  proof rests on `LinksGrow`: Razorpay never forgets a link.
- `StopRuleHolds`: `Spec => []StopRule`. `BudgetInv` adds that every due row and every process on the
  way to the send is within budget; `WorkerBudget` lists the program counters from which a send can
  be reached.
- `FollowupMakesNoSecondLink`: `NoCreateOverLanded`, under `Serial`, `~Crashes` and `~LookupFaults`. `OverInv` says that the rows
  before the newest of a payment have failed, or were found sent when the newest was about to go out (`InTurn`); that a request
  which may have reached Razorpay belongs to a sent row, to a failed one whose failure is ambiguous and so is looked up, or
  to the call at hand (`Accounted`); and that an executing row is the process's own (`Claimed`).

and goes on with `Settlement`:
- `SettlementTypeCorrect`: `SettlementTypeOK`, with `OneSide` (a process is in a handler or in
  `execute_job`, never both), for any number of processes.
- `PaidOrderIsSafe`: `PaidOrderNeverSends` under `Serial`. `execute_job` reads the order before it claims;
  `OrderGuard` carries the answer from the claim to the call.
- `MoneyIsReal`: `RecoveredIsPaid`, with late landing and crashes. `MoneyInv` adds what a handler has read of the
  link it is about to count. With several processes and part payments a handler's list of live links may
  hold one that another process has counted, so it takes `Serial` or a shop without part payments
  (`Offered = {}`).

`Refinement_proofs`, under `Serial` and `~LateLanding`, crashes included: `AttemptsFollow` proves
`AttemptsInTurn`, which is inductive, and from it
- `OneLinkAtATime`: `OneLiveLink`; `ClosedIsFinal`: `ClosedStaysClosed`;
- `PromiseIsImplemented`: `SSpec => ImplementsPromise`. The initial states map to initial states; a lemma
  for each kind of step shows which step of the promise it is (a new row begins a try, a create opens
  an offer, the customer pays or the link ends, the first outcome is the result) or that the
  mapping of no payment changes. With `PromiseKept` (`RecoveryPromise_proofs`: in the promise what is counted
  recovered was paid) this is what the refinement is for.

`Serve_proofs`, but for the last under `Serial` and, but for `ReportsTellTheSame`, `~Crashes`:
- `PaidOrderIsCleared`: `PaidOrderNothingPending`. `HandsInv` says which process holds a claimed row, `KnownInv` that
  every row belongs to a stored payment and so to the list the handler makes, `PaidPending` that a pending row
  of a recorded order is with the process that executes it or on the handler's list.
- `PaidOrderSendsNothing`: `NothingGoesOutAfterPaid`, late landing included.
- `NoLinkLeftSilent`: `NoSilentLiveLink`. `LinksInHand` says of each link that can be paid and has no outcome who has it: a
  sent row the handler will find, or the process that made it.
- `ReportsTellTheSame`: `ReportsAgree`, crashes included. The report counts outcomes and the digest payments; the sums are
  equal because recovered outcomes and recovered payments correspond one to one (`OneRecoveryEach`), and they do because
  by `AttemptsInTurn` only the newest row of a payment can have collected (`RecoveredLatest`).
- `NoPaymentForgotten`: `NothingIsForgotten`. `KeptInv` says that a newest row which is neither due, sent nor with a
  person has its outcome or is `Carried`: by the process that still has to finish, close or follow it up, or by the handler
  of its link's end; that a failed row whose link exists after all is the newest one and gets its outcome in
  `finish_job`; and that a stored payment has a row or the process about to insert it.
- `OneOutcomeEach`: `OutcomeOncePerProcess`, for one process that serves and any number that poll, crashes included (`OneServe`,
  `~LateLanding`, finite `Workers`). `AttemptsInTurn` is lost there, so the invariant is a weaker one about each row: `RowsOpen` says what
  status and link a row without an outcome has and what each position of a process or a handler knows of the row it is at, and
  `RoomToWrite` counts: the outcomes of a job and the processes on the way to write one are together at most as many as
  there are processes. A process that begins has looked and found none.

`Cadence_proofs`:
- `AllowedSend`: the next allowed send is outside the quiet hours, never earlier, at most twelve hours later.
- `CadenceTypeCorrect`: `CadenceTypeOK` in one process (`OneProcess`): `ResultInv` says that a link has at most one outcome, and `HandInv` that the process at work on
  its end is the one that may write it.
- `NotifiedOnce`: `OneNotifyPerClaim`, for any finite number of processes. `NotifyInv`
  counts, for a reminder and a medium, the calls made, the processes still to make one and the claim
  still to come: together at most one more than the recovered claims.
- `OpenLinksOnly`, `EndedLinksAreQuiet`, `HoursKept`, `ScheduledInTime`, `CapKept`: the five properties of a reminder, under `OneProcess`.
  `CInv` is `MintInv` (reminders belong to a link that is out), `TimeInv` (a waiting row has a time it may go out at, a sent
  one went out at such a time) and `GuardInv` (the verdict a process acts on is still true: the clock stands
  while a process is inside a call, and no other process acts).

`Operator_proofs`, one person (`OnePerson`) beside one `serve` process under its lock (`OneServe`), crashes included: `OperatorTypeCorrect`,
`BookedOnce` (`RecoveredOnce`), `CancelledForGood` (`CancelledIsTrue`), and `NotifiedOnceByBoth` (`OneNotifyPerClaim` beside retries and
resends). `OInv` adds `LinkInv` and `Known`. `LinkInv`: an event and a person book a link once each; unless it is `orphaned`, a link a person
booked is parked and was not paid, and a parked link has its outcome or a process on the way to write it, so that no event finds it
open. `Known` is what the two have read and may still rely on at their commits.

`Intake_proofs`, for any payments, error objects, files, guesses and processes:
- `HardDeclineWins`: whatever softer rules match, a hard decline is classified as one, or as a risk. The
  argument is about the order of `RULES`: the first rule that matches decides (`FirstRuleDecides`), and the
  risk and hard-decline rules come first.
- `RiskStaysHuman`: `ISpec => []RiskIsNeverAutomatic`. `IInv` adds that the class a process holds between the
  model's answer and the commit is the one the payment's error object gives; `PinnedEntry` shows that
  no merchant layer moves a pinned class, `StaysWithAPerson` that no later override does.
- `OverridesTighten`: `ISpec => []DecisionsOnlyTighten`. `DecideTightens` compares the row of the table with the row any files
  make of it, `LaterTightens` adds the subscription and the history.
- `RiskStopsCustomer`: `ISpec => []RepeatRiskStops`, by `HistoryCounts`: a decision on record about a failure in the window is in the count that the
  next decision reads in its own transaction, with the `now` of its event. `TightInv` adds that a decided payment was stored and that a
  stored row never changes, so a decision stays explained by it.
- `TrailsAlwaysUndo`: `ISpec => []TrailUndoes`. A commit replaces a file by what its clerk made of an older reading, so `TrailsUndo`
  asks the same of every reading at hand. A write by another clerk in between is lost as a whole: the entry and its record
  go together, and so the trail stays sound.
- `SoonerIsBacked`: `ISpec => []SoonerDecisionIsBacked`. `FilesBacked` follows a delay shorter than the table's to wherever it may
  come from: a file, the entries its trail would put back, a clerk's reading, what a process has read. The
  first decision of a payment waits the delay of its entry (the back-off has power 0), and no later layer shortens it.
- `IntakeTypeCorrect`: `ISpec => []IntakeTypeOK`. `FilesTyped` says what the schema accepts is all there is in files and in
  memory; `HandsTyped` adds that a decision about to be scheduled is about the payment at hand.

`Drafting_proofs`, for any number of processes, jobs and recordings and whatever the model writes; `DraftInv` is the invariant of the three:
- `MessagesKeepTheRules`: `DSpec => []MessageKeepsTheRules`. A stored message is looked at no more, so the draft a process is about to
  store keeps the rules already (`AttachOK`): an accepted answer by the check (`AcceptedKeeps`), anything else by the template
  (`TemplateKeeps`); the offer sentence adds its amount and takes nothing away (`SuffixedKeeps`).
- `ReplaysRepeat`: `DSpec => []ReplayRepeats`. A replay takes two steps and others record in between, so the invariant says at once what both will
  answer: `Replayed` is what a draft ends with when it is answered from given replies, and the last complete recording of
  a job ended with `Replayed` of the file (`Recorded`), of what a process has loaded of it too (`Read`). `IndexAfterAppend` says that a new record changes
  one answer; `RecordingKept` that the repair of an answer another recording has replaced changes nothing a replay will read.
- `DraftingTypeCorrect`: `DSpec => []DraftingTypeOK`.

The hypotheses, and what happens without them:
- `Serial`, `OneProcess`: one process runs the handlers, sweeps and, in turn with them, polls; the lock of `serve` makes the first two one.
  Section 3 lists what a second process can do to a claim, and what the poll beside `serve` can do.
- `OneServe`: one `serve`, the other processes are polls (`Settlement`) or a person (`Operator`).
- `~LateLanding`: no create request completes after its answer was lost. Otherwise two links can be open at once,
  whatever the code does (`raced`); `RecoveredIsPaid`, the paid order's create calls and its pending rows are
  proved with late landing.
- All three of `FollowupMakesNoSecondLink` are needed: with a second process, a crash or a lookup that fails, TLC finds the
  property of `executor_late` violated. Beside the crash of Disagreements, a claim that crashed in its create call and meets only a 429 when
  it is made again is recorded as throttled, so no follow-up looks for the first request's link.
- `~Crashes` in `Serve_proofs` but for `ReportsTellTheSame`: a crash between the last commit of a job and `finish_job` loses
  its outcome and its successor (section 5), a crash inside `record_order_paid` leaves rows pending until the event is delivered
  again, and a claim that crashed before the capture is recovered as sent after it (executor.py:515).
- `~OrderCheck` in two of them: the order check of `execute_job` records an order paid and stops that job only; the siblings
  wait for the webhook.
- No payment routed to a subscription in `NoPaymentForgotten`: the page of a halted subscription goes out as a sent row
  without a link, which no poll asks about: its loop closes by a re-activation, which the code leaves out of its scope
  (executor.py:616), or when the order is paid another way. `Workers # {}`: there is a process.
- `Offered = {}`: a link that takes part payments gets its outcome with the first part and can still be paid.
- `OnePerson`: two persons may book one recovery twice (Disagreements). `MonthsGoOn`: the given starts of months reach past every failure, so that the
  salary window has an answer. Finiteness of `Workers` and `Payments`, where something is counted.
- Constants: `NoneAssumption` (the null is no action), `IntakeAssumption`, `ConstantsAssumption`: kinds of values and distinct nulls.

Model-checked only: liveness and fairness, ENABLED and induction over data, which are out of the prover's reach: `EveryJobSettles`, `EveryLinkCloses`,
`ExpiryEarnsNextAttempt`, `EveryReminderSettles` and `EveryEventHasAJob`. Every invariant and action property a passing run
checks is stated by a theorem. `Insights` computes roots by recursion.

## 5. Not modelled, and the plan

Not modelled, and why:
- A crash between the last commit of a job and `finish_job` (or between the outcome of an expired
  link and its follow-up) happens in `settlement_crash` and loses the outcome, the nudge and the
  successor; no property claims otherwise.
- `process_all`, the CSV and Payments API imports, signatures, delivery rows (`record_delivery`), `mark_paid`:
  they call what is modelled, or write rows the control never reads.
- Rendering, texts, prompts, the ranking's score, rule candidates, configuration, the database engine
  and the scripts keep no state of the recovery.
- The weekly cap does not count a person's resends, and a draft's check looks at the job's link only: both are
  listed as hazards with the reason no property covers them.

Next: compose `Intake`'s decisions with `Executor`, so that a follow-up keeps the decision it was scheduled from.
