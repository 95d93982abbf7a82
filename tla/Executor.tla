------------------------------ MODULE Executor ------------------------------
(***************************************************************************)
(* The life of a recovery job: app/executor.py, the routing of its result  *)
(* (finish_job and schedule_followup of app/pipeline.py) and the sweep     *)
(* that runs due jobs (app/scheduler.py), against a Razorpay that may      *)
(* throttle, fail, lose an answer or complete a request late.              *)
(*                                                                         *)
(* A job is <<payment, retry_seq>>: that pair is what idempotency_key      *)
(* hashes, so it also names the Payment Link (reference_id is a prefix of  *)
(* the key).  The database is the variables job, outcome and orderPaid;    *)
(* Razorpay is link, inflight and captured; a process is a worker whose    *)
(* record wk[w] holds its position and the row it has in memory.  A step   *)
(* is at most one commit or one call.  Crash forgets only the worker.      *)
(***************************************************************************)
EXTENDS Naturals, Sequences, FiniteSets

CONSTANTS
  Payments,      (* razorpay_payment_id values, one attempt row each        *)
  OrderOf,       (* order_id of each payment                                *)
  Route,         (* what execute_job does for each payment's action         *)
  Offered,       (* payments whose link payload carries offer fields        *)
  Workers,       (* processes that ingest, sweep, or both                   *)
  MaxAttempts,   (* max_attempts of the policy row                          *)
  MaxSeq,        (* bound on retry_seq; above MaxAttempts + 1               *)
  MaxHttp,       (* MAX_HTTP_ATTEMPTS                                       *)
  FirstActs,     (* decisions policy.decide may take on the first delivery  *)
  LateLanding,   (* may a request complete after its answer was lost?       *)
  LookupFaults,  (* may a lookup by reference_id fail to answer?            *)
  Crashes,       (* may a process die, or lose the database, between steps? *)
  OrderCheck,    (* CHECK_ORDER_BEFORE_SEND                                 *)
  ContactCap,    (* may the weekly contact cap refuse a link job?           *)
  Modes,         (* PRA_MODE values the processes are started with          *)
  NoJob

Routes == {"link", "subscription", "token", "refused"}

ASSUME ConstantsAssumption ==
  /\ Route \in [Payments -> Routes]
  /\ Offered \subseteq Payments
  /\ MaxAttempts \in Nat \ {0}
  /\ MaxSeq \in Nat
  /\ MaxSeq > MaxAttempts
  /\ MaxHttp \in Nat \ {0}
  /\ FirstActs \subseteq {"send", "human_queue", "no_action"}
  /\ Modes \subseteq {"live", "shadow"}
  /\ {LateLanding, LookupFaults, Crashes, OrderCheck, ContactCap} \subseteq BOOLEAN
  /\ NoJob \notin Payments \X (1..MaxSeq)

Jobs == Payments \X (1..MaxSeq)
Orders == {OrderOf[p] : p \in Payments}

(***************************************************************************)
(* The vocabulary: job statuses and the failure kinds of last_error.       *)
(***************************************************************************)
Terminal == {"sent", "stubbed", "human_queue", "no_action", "executing", "cancelled", "shadow"}
Statuses == Terminal \cup {"absent", "pending", "failed"}
Parked == {"human_queue", "no_action"}

AmbiguousKinds == {"server_error", "transport", "client_error"}
\* broken: a request that got no answer counts as one that never left
EagerRetryableKinds == {"rate_limited", "transport"}
RetryableKinds == {"rate_limited"}
DeliveryFailureKinds == {"rate_limited", "transport"}
ReachedKinds == {"server_error", "final_4xx", "client_error"}
FailureKinds == AmbiguousKinds \cup RetryableKinds \cup {"final_4xx", "local_guard"}

VARIABLES
  job,        (* recovery_jobs: status, failure kind, link id?, nudge?      *)
  outcome,    (* outcomes per job, in insertion order                       *)
  attempts,   (* payments that have their attempt row                      *)
  orderPaid,  (* orders with order_paid_at recorded on an attempt row       *)
  link,       (* the link Razorpay holds under the job's reference_id       *)
  inflight,   (* create requests whose answer was lost, still to complete   *)
  captured,   (* orders paid some other way, as Razorpay knows              *)
  raced,      (* observation: links that landed while a follow-up of the    *)
              (* same payment was already past its check                    *)
  wk          (* the workers                                                *)

payments == <<attempts, orderPaid>>
db == <<job, outcome, payments>>
razorpay == <<link, inflight, captured, raced>>
vars == <<job, outcome, attempts, orderPaid, link, inflight, captured, raced, wk>>

Pcs == {"idle", "insert", "park", "recover", "recovered", "execute", "void", "voided",
        "stub", "refuse", "claim", "shadow", "direct", "check", "earlier", "superseded",
        "create", "duplicate", "record", "finish", "close", "followup"}

LinkStates == {"none", "created", "partial", "paid", "expired", "cancelled"}
Row == [status : Statuses, kind : FailureKinds \cup {"none"}, link : BOOLEAN, nudged : BOOLEAN]
NoRow == [status |-> "absent", kind |-> "none", link |-> FALSE, nudged |-> FALSE]
Idle == [pc |-> "idle", job |-> NoJob, status |-> "absent", kind |-> "none",
         tries |-> 0, plain |-> FALSE, answer |-> "none"]
WorkerState ==
  [pc : Pcs, job : Jobs \cup {NoJob}, status : Statuses, kind : FailureKinds \cup {"none"},
   tries : 0..(MaxHttp - 1), plain : BOOLEAN, answer : {"none", "found", "absent", "error", "send"} \cup Parked]

TypeOK ==
  /\ job \in [Jobs -> Row]
  /\ outcome \in [Jobs -> Seq({"recovered", "lost"})]
  /\ attempts \subseteq Payments
  /\ orderPaid \subseteq Orders
  /\ link \in [Jobs -> LinkStates]
  /\ inflight \subseteq Jobs
  /\ captured \subseteq Orders
  /\ raced \subseteq Jobs
  /\ wk \in [Workers -> WorkerState]
  /\ \A w \in Workers : wk[w].pc # "idle" => wk[w].job \in Jobs

Init ==
  /\ job = [j \in Jobs |-> NoRow]
  /\ outcome = [j \in Jobs |-> <<>>]
  /\ attempts = {}
  /\ orderPaid = {}
  /\ link = [j \in Jobs |-> "none"]
  /\ inflight = {}
  /\ captured = {}
  /\ raced = {}
  /\ wk = [w \in Workers |-> Idle]

-----------------------------------------------------------------------------
(* Reading the tables. *)

Exists(j) == job[j].status # "absent"
\* broken: the columns are never read
NeverPaid(j) == FALSE
OrderIsPaid(j) == OrderOf[j[1]] \in orderPaid
SeqsOf(p) == {s \in 1..MaxSeq : Exists(<<p, s>>)}
LastSeq(p) == IF SeqsOf(p) = {} THEN 0 ELSE CHOOSE s \in SeqsOf(p) : \A t \in SeqsOf(p) : t <= s
\* broken: off by one, the last sequence again
SameSeq(p) == IF SeqsOf(p) = {} THEN 1 ELSE LastSeq(p)
NextRetrySeq(p) == LastSeq(p) + 1
ReachedRazorpay(p) ==
  \E s \in SeqsOf(p) : \/ job[<<p, s>>].status \in {"sent", "stubbed"}
                       \/ job[<<p, s>>].status = "failed" /\ job[<<p, s>>].kind \in ReachedKinds

(* The answer of GET /payment_links?reference_id=: it may also fail. *)
LookupByReference(j) ==
  {IF link[j] = "none" THEN "absent" ELSE "found"} \cup (IF LookupFaults THEN {"error"} ELSE {})

(* Writing them: a commit sets the status and the failure kind of one row. *)
Commit(j, status, kind, linked) ==
  job' = [job EXCEPT ![j] = [@ EXCEPT !.status = status, !.kind = kind, !.link = job[j].link \/ linked]]
RecordOutcome(j, result) == outcome' = [outcome EXCEPT ![j] = Append(@, result)]

(* The worker moves on, with the row it now has in memory. *)
Goto(w, pc) == wk' = [wk EXCEPT ![w].pc = pc]
GotoWith(w, pc, status, kind) == wk' = [wk EXCEPT ![w] = [@ EXCEPT !.pc = pc, !.status = status, !.kind = kind]]
Done(w) == wk' = [wk EXCEPT ![w] = Idle]

-----------------------------------------------------------------------------
(* Scheduling: one row per idempotency key. *)

(* A delivery of payment.failed, the first or a repeat: the attempt row is   *)
(* there, the decision is taken, and the job is always seq 1.               *)
ProcessAttempt(w, p) ==
  /\ wk[w].pc = "idle"
  /\ \E act \in FirstActs :
       wk' = [wk EXCEPT ![w] = [Idle EXCEPT !.pc = "insert", !.job = <<p, 1>>, !.answer = act]]
  /\ attempts' = attempts \cup {p}
  /\ UNCHANGED <<job, outcome, orderPaid, razorpay>>

(* The stop rule, read by policy.decide and again by schedule_job. *)
\* broken: off by one
WithinBudgetAndOne(seq) == seq <= MaxAttempts + 1
WithinBudget(seq) == seq <= MaxAttempts

(* What schedule_followup decides for the next sequence: the policy row, or, *)
(* past the stop rule, a person when the last failure was a delivery failure *)
(* and no attempt ever reached Razorpay.                                     *)
FollowupAct(p) ==
  LET failed == {s \in SeqsOf(p) : job[<<p, s>>].status = "failed"}
      lastFailed == {s \in failed : \A t \in failed : t <= s}
      deliveryRetry == /\ \E s \in lastFailed : job[<<p, s>>].kind \in DeliveryFailureKinds
                       /\ ~ReachedRazorpay(p)
  IN IF WithinBudget(NextRetrySeq(p)) THEN "send" ELSE IF deliveryRetry THEN "human_queue" ELSE "no_action"

Followup(w) ==
  LET p == wk[w].job[1] IN
  /\ wk[w].pc = "followup"
  /\ NextRetrySeq(p) <= MaxSeq
  /\ wk' = [wk EXCEPT ![w] = [Idle EXCEPT !.pc = "insert", !.job = <<p, NextRetrySeq(p)>>, !.answer = FollowupAct(p)]]
  /\ UNCHANGED <<db, razorpay>>

(* The status schedule_job may write for the decision the worker holds. *)
ScheduleStatuses(j, act) ==
  IF act \in Parked THEN {act}
  ELSE IF ~WithinBudget(j[2]) \/ OrderIsPaid(j) THEN {"no_action"}
  ELSE {"pending"} \cup (IF ContactCap /\ Route[j[1]] # "token" THEN {"human_queue"} ELSE {})

(* The UNIQUE constraint on idempotency_key. *)
\* broken: a delivery may schedule a parked payment again
KeyTakenUnlessParked(j) == job[j].status \notin Parked \cup {"absent"}
KeyTaken(j) == Exists(j)

InsertDuplicate(w) ==
  /\ wk[w].pc = "insert"
  /\ KeyTaken(wk[w].job)
  /\ Done(w)
  /\ UNCHANGED <<db, razorpay>>

Insert(w) ==
  LET j == wk[w].job IN
  /\ wk[w].pc = "insert"
  /\ ~KeyTaken(j)
  /\ \E status \in ScheduleStatuses(j, wk[w].answer) :
       /\ job' = [job EXCEPT ![j] = [NoRow EXCEPT !.status = status]]
       /\ \/ status \in Parked /\ GotoWith(w, "park", status, "none")
          \/ status = "pending" /\ j[2] = 1 /\ GotoWith(w, "execute", status, "none")
          \/ status = "pending" /\ Done(w)
  /\ UNCHANGED <<outcome, payments, razorpay>>

(* A row parked when it was scheduled is closed by its outcome. *)
Park(w) ==
  /\ wk[w].pc = "park"
  /\ RecordOutcome(wk[w].job, "lost")
  /\ Done(w)
  /\ UNCHANGED <<job, payments, razorpay>>

-----------------------------------------------------------------------------
(* The sweep, and the recovery of a claim a crash left behind. *)

DueStatuses == {"pending", "executing"}

Sweep(w, j) ==
  /\ wk[w].pc = "idle"
  /\ job[j].status \in DueStatuses
  /\ wk' = [wk EXCEPT ![w] = [Idle EXCEPT !.pc = IF job[j].status = "executing" THEN "recover" ELSE "execute",
                                          !.job = j, !.status = job[j].status]]
  /\ UNCHANGED <<db, razorpay>>

RecoverLookup(w) ==
  LET j == wk[w].job IN
  /\ wk[w].pc = "recover"
  /\ \E answer \in LookupByReference(j) :
       wk' = [wk EXCEPT ![w] = [@ EXCEPT !.pc = "recovered", !.status = job[j].status, !.answer = answer]]
  /\ UNCHANGED <<db, razorpay>>

(* found: sent with the link; absent: due again; no answer: a person. *)
\* broken: a claim somebody made is taken for a link
RecoveredAsSent(answer) == IF answer = "error" THEN "human_queue" ELSE "sent"
RecoveredStatus(answer) ==
  CASE answer = "found" -> "sent" [] answer = "absent" -> "pending" [] OTHER -> "human_queue"

(* Assigning the status the row was read with writes nothing. *)
RecoverStaleExecution(w) ==
  LET j == wk[w].job
      status == RecoveredStatus(wk[w].answer)
  IN /\ wk[w].pc = "recovered"
     /\ IF status = wk[w].status THEN UNCHANGED job ELSE Commit(j, status, "none", status = "sent")
     /\ GotoWith(w, IF status = "pending" THEN "execute" ELSE "finish", status, "none")
     /\ UNCHANGED <<outcome, payments, razorpay>>

-----------------------------------------------------------------------------
(* execute_job up to the claim. *)

(* The row is read again; every refusal is decided here. *)
Execute(w) ==
  LET j == wk[w].job
      next == IF job[j].status \in Terminal THEN "finish"
              ELSE IF OrderIsPaid(j) THEN "void"
              ELSE IF Route[j[1]] = "token" THEN "stub"
              ELSE IF Route[j[1]] = "refused" THEN "refuse"
              ELSE "claim"
  IN /\ wk[w].pc = "execute"
     /\ GotoWith(w, next, job[j].status, job[j].kind)
     /\ UNCHANGED <<db, razorpay>>

VoidOrderPaid(w) ==
  /\ wk[w].pc = "void"
  /\ Commit(wk[w].job, "no_action", "none", FALSE)
  /\ Goto(w, "voided")
  /\ UNCHANGED <<outcome, payments, razorpay>>

VoidOutcome(w) ==
  /\ wk[w].pc = "voided"
  /\ RecordOutcome(wk[w].job, "lost")
  /\ Done(w)
  /\ UNCHANGED <<job, payments, razorpay>>

(* A token retry is a stub: recorded, with no claim. *)
StubTokenRetry(w) ==
  /\ wk[w].pc = "stub"
  /\ Commit(wk[w].job, "stubbed", "none", FALSE)
  /\ GotoWith(w, "finish", "stubbed", "none")
  /\ UNCHANGED <<outcome, payments, razorpay>>

(* An unknown action or an amount no link can carry. *)
RefuseLocally(w) ==
  /\ wk[w].pc = "refuse"
  /\ Commit(wk[w].job, "failed", "local_guard", FALSE)
  /\ GotoWith(w, "finish", "failed", "local_guard")
  /\ UNCHANGED <<outcome, payments, razorpay>>

(* UPDATE ... WHERE status = 'pending': one caller wins. *)
ClaimForExecution(w) ==
  LET j == wk[w].job
      live == IF Route[j[1]] = "subscription" THEN "direct" ELSE "check"
  IN /\ wk[w].pc = "claim"
     /\ job[j].status = "pending"
     /\ job' = [job EXCEPT ![j].status = "executing"]
     /\ \E mode \in Modes : GotoWith(w, IF mode = "shadow" THEN "shadow" ELSE live, "executing", "none")
     /\ UNCHANGED <<outcome, payments, razorpay>>

ClaimRefused(w) ==
  LET j == wk[w].job IN
  /\ wk[w].pc = "claim"
  /\ job[j].status # "pending"
  /\ GotoWith(w, "finish", job[j].status, job[j].kind)
  /\ UNCHANGED <<db, razorpay>>

-----------------------------------------------------------------------------
(* After the claim: the last checks, then the create calls. *)

(* PRA_MODE=shadow, and a halted subscription's own page: nothing is created. *)
FinishShadow(w) ==
  /\ wk[w].pc = "shadow"
  /\ Commit(wk[w].job, "shadow", "none", FALSE)
  /\ GotoWith(w, "finish", "shadow", "none")
  /\ UNCHANGED <<outcome, payments, razorpay>>

SendSubscriptionPage(w) ==
  /\ wk[w].pc = "direct"
  /\ Commit(wk[w].job, "sent", "none", FALSE)
  /\ GotoWith(w, "finish", "sent", "none")
  /\ UNCHANGED <<outcome, payments, razorpay>>

(* CHECK_ORDER_BEFORE_SEND: a captured payment voids the job; no answer is  *)
(* not fatal, the send goes on.                                             *)
OrderCheckPaid(w) ==
  LET o == OrderOf[wk[w].job[1]] IN
  /\ wk[w].pc = "check"
  /\ OrderCheck
  /\ o \in captured
  /\ orderPaid' = orderPaid \cup {o}
  /\ Goto(w, "void")
  /\ UNCHANGED <<job, outcome, attempts, razorpay>>

OrderCheckPasses(w) ==
  /\ wk[w].pc = "check"
  /\ OrderCheck => (LookupFaults \/ OrderOf[wk[w].job[1]] \notin captured)
  /\ Goto(w, "earlier")
  /\ UNCHANGED <<db, razorpay>>

(* _earlier_landed: the earlier FAILED ambiguous attempts are looked up in  *)
(* order.  A lookup that cannot answer is ignored, like an absent link.     *)
AmbiguousFailures(j) ==
  {<<j[1], s>> : s \in {t \in 1..(j[2] - 1) : /\ job[<<j[1], t>>].status = "failed"
                                              /\ job[<<j[1], t>>].kind \in AmbiguousKinds}}
\* broken: only the attempt just before
SuspectsJustBefore(j) == {k \in AmbiguousFailures(j) : k[2] = j[2] - 1}
Suspects(j) == AmbiguousFailures(j)
LandedSuspects(j) == {k \in Suspects(j) : link[k] # "none"}

EarlierLanded(w) ==
  /\ wk[w].pc = "earlier"
  /\ \E k \in LandedSuspects(wk[w].job) :
       /\ LookupFaults \/ \A i \in LandedSuspects(wk[w].job) : k[2] <= i[2]
       /\ Commit(k, "sent", "none", TRUE)
  /\ Goto(w, "superseded")
  /\ UNCHANGED <<outcome, payments, razorpay>>

EarlierNone(w) ==
  /\ wk[w].pc = "earlier"
  /\ LookupFaults \/ LandedSuspects(wk[w].job) = {}
  /\ wk' = [wk EXCEPT ![w] = [@ EXCEPT !.pc = "create", !.kind = "none", !.tries = 0]]
  /\ UNCHANGED <<db, razorpay>>

(* The follow-up itself is closed as a row, and finish_job has no branch    *)
(* for no_action: no outcome, and the earlier attempt gets no nudge.        *)
Superseded(w) ==
  /\ wk[w].pc = "superseded"
  /\ Commit(wk[w].job, "no_action", "none", FALSE)
  /\ Done(w)
  /\ UNCHANGED <<outcome, payments, razorpay>>

(* One POST /payment_links of the loop.  wk[w].kind is the last ambiguous   *)
(* failure the loop has seen: it wins over a later 429 or 4xx.              *)
CreateLink(w) ==
  LET j == wk[w].job IN
  /\ wk[w].pc = "create"
  /\ link[j] = "none"
  /\ link' = [link EXCEPT ![j] = "created"]
  /\ GotoWith(w, "record", "sent", "none")
  /\ UNCHANGED <<db, inflight, captured, raced>>

CreateDuplicate(w) ==
  /\ wk[w].pc = "create"
  /\ link[wk[w].job] # "none"
  /\ Goto(w, "duplicate")
  /\ UNCHANGED <<db, razorpay>>

FailureOf(w, kind) ==
  IF kind \in AmbiguousKinds \/ wk[w].kind = "none" THEN kind ELSE wk[w].kind
\* broken: off by one
OneMoreTry(w, kind) == kind \in {"final_4xx", "client_error"} \/ wk[w].tries = MaxHttp
LastTry(w, kind) == kind \in {"final_4xx", "client_error"} \/ wk[w].tries + 1 = MaxHttp
AfterFailure(w, kind) ==
  IF LastTry(w, kind)
  THEN wk' = [wk EXCEPT ![w] = [@ EXCEPT !.pc = "record", !.status = "failed", !.kind = FailureOf(w, kind)]]
  ELSE wk' = [wk EXCEPT ![w] = [@ EXCEPT !.tries = wk[w].tries + 1,
                                         !.kind = IF kind \in AmbiguousKinds THEN kind ELSE wk[w].kind]]

(* A 429, or a 4xx: Razorpay answered and created nothing. *)
CreateRefused(w) ==
  /\ wk[w].pc = "create"
  /\ \E kind \in {"rate_limited", "final_4xx"} : AfterFailure(w, kind)
  /\ UNCHANGED <<db, razorpay>>

(* A 4xx that names an offer field: the loop starts again without the offer. *)
OfferRejected(w) ==
  /\ wk[w].pc = "create"
  /\ wk[w].job[1] \in Offered
  /\ ~wk[w].plain
  /\ FailureOf(w, "final_4xx") = "final_4xx"
  /\ wk' = [wk EXCEPT ![w] = [@ EXCEPT !.plain = TRUE, !.tries = 0, !.kind = "none"]]
  /\ UNCHANGED <<db, razorpay>>

(* A 5xx, no answer, a 2xx with no link id, or an exception in the client:  *)
(* the request did nothing, did its work, or is still under way.            *)
CreateUnanswered(w) ==
  LET j == wk[w].job IN
  /\ wk[w].pc = "create"
  /\ \E kind \in AmbiguousKinds : AfterFailure(w, kind)
  /\ \/ UNCHANGED <<link, inflight>>
     \/ /\ link[j] = "none"
        /\ link' = [link EXCEPT ![j] = "created"]
        /\ UNCHANGED inflight
     \/ /\ LateLanding
        /\ link[j] = "none"
        /\ inflight' = inflight \cup {j}
        /\ UNCHANGED link
  /\ UNCHANGED <<db, captured, raced>>

(* Razorpay says the reference_id is taken: recover the link, or a person. *)
FinishDuplicate(w) ==
  /\ wk[w].pc = "duplicate"
  /\ \E answer \in LookupByReference(wk[w].job) :
       LET status == IF answer = "found" THEN "sent" ELSE "human_queue"
       IN /\ Commit(wk[w].job, status, "none", answer = "found")
          /\ GotoWith(w, "finish", status, "none")
  /\ UNCHANGED <<outcome, payments, razorpay>>

(* The result of the loop is committed. *)
RecordResult(w) ==
  /\ wk[w].pc = "record"
  /\ Commit(wk[w].job, wk[w].status, wk[w].kind, wk[w].status = "sent")
  /\ Goto(w, "finish")
  /\ UNCHANGED <<outcome, payments, razorpay>>

-----------------------------------------------------------------------------
(* finish_job: it routes the row the worker has in memory. *)

FinishSent(w) ==
  /\ wk[w].pc = "finish"
  /\ wk[w].status \in {"sent", "shadow"}
  /\ job' = [job EXCEPT ![wk[w].job].nudged = TRUE]
  /\ Done(w)
  /\ UNCHANGED <<outcome, payments, razorpay>>

(* One not-recovered outcome per job, if it has none yet. *)
\* broken: the test the wrong way round
ToCloseAgain(w) == IF outcome[wk[w].job] # <<>> THEN Goto(w, "close") ELSE Done(w)
ToClose(w) == IF outcome[wk[w].job] = <<>> THEN Goto(w, "close") ELSE Done(w)

(* A stub, a parked job, and a failure the same request would meet again. *)
FinishClosed(w) ==
  /\ wk[w].pc = "finish"
  /\ \/ wk[w].status \in {"stubbed", "human_queue"}
     \/ wk[w].status = "failed" /\ wk[w].kind \in {"final_4xx", "local_guard"}
  /\ ToClose(w)
  /\ UNCHANGED <<db, razorpay>>

FinishThrottled(w) ==
  /\ wk[w].pc = "finish"
  /\ wk[w].status = "failed"
  /\ wk[w].kind \in RetryableKinds
  /\ Goto(w, "followup")
  /\ UNCHANGED <<db, razorpay>>

(* reconcile_failed_job: only a definite absence earns a follow-up. *)
Reconcile(w) ==
  /\ wk[w].pc = "finish"
  /\ wk[w].status = "failed"
  /\ wk[w].kind \in AmbiguousKinds
  /\ \E answer \in LookupByReference(wk[w].job) :
       \/ /\ answer = "found"
          /\ Commit(wk[w].job, "sent", "none", TRUE)
          /\ GotoWith(w, "finish", "sent", "none")
       \/ answer = "absent" /\ Goto(w, "followup") /\ UNCHANGED job
       \/ answer = "error" /\ ToClose(w) /\ UNCHANGED job
  /\ UNCHANGED <<outcome, payments, razorpay>>

(* Nothing to do: no_action, cancelled, or a claim somebody else holds. *)
FinishOther(w) ==
  /\ wk[w].pc = "finish"
  /\ wk[w].status \in {"no_action", "cancelled", "executing"}
  /\ Done(w)
  /\ UNCHANGED <<db, razorpay>>

Close(w) ==
  /\ wk[w].pc = "close"
  /\ RecordOutcome(wk[w].job, "lost")
  /\ Done(w)
  /\ UNCHANGED <<job, payments, razorpay>>

-----------------------------------------------------------------------------
(* The environment. *)

(* A request whose answer was lost completes. *)
Land(j) ==
  /\ j \in inflight
  /\ inflight' = inflight \ {j}
  /\ link' = [link EXCEPT ![j] = IF @ = "none" THEN "created" ELSE @]
  /\ raced' = IF \E w \in Workers : wk[w].pc = "create" /\ wk[w].job[1] = j[1] /\ wk[w].job # j
              THEN raced \cup {j} ELSE raced
  /\ UNCHANGED <<db, captured, wk>>

(* The customer pays the order without the agent's link. *)
Capture(o) ==
  /\ o \notin captured
  /\ captured' = captured \cup {o}
  /\ UNCHANGED <<db, link, inflight, raced, wk>>

(* The process dies, or the database refuses the next write: what was       *)
(* committed stays, the row in memory is gone.                              *)
Crash(w) ==
  /\ Crashes
  /\ wk[w].pc # "idle"
  /\ Done(w)
  /\ UNCHANGED <<db, razorpay>>

-----------------------------------------------------------------------------
ScheduleStep(w) == Followup(w) \/ InsertDuplicate(w) \/ Insert(w) \/ Park(w)
RecoverStep(w) == RecoverLookup(w) \/ RecoverStaleExecution(w)
GuardStep(w) ==
  \/ Execute(w) \/ VoidOrderPaid(w) \/ VoidOutcome(w) \/ StubTokenRetry(w) \/ RefuseLocally(w)
  \/ ClaimForExecution(w) \/ ClaimRefused(w)
SendStep(w) ==
  \/ FinishShadow(w) \/ SendSubscriptionPage(w) \/ OrderCheckPaid(w) \/ OrderCheckPasses(w)
  \/ EarlierLanded(w) \/ EarlierNone(w) \/ Superseded(w)
  \/ CreateLink(w) \/ CreateDuplicate(w) \/ CreateRefused(w) \/ OfferRejected(w) \/ CreateUnanswered(w)
  \/ FinishDuplicate(w) \/ RecordResult(w)
FinishStep(w) ==
  \/ FinishSent(w) \/ FinishClosed(w) \/ FinishThrottled(w) \/ Reconcile(w) \/ FinishOther(w) \/ Close(w)

(* A worker that has begun goes on to its end. *)
Step(w) == ScheduleStep(w) \/ RecoverStep(w) \/ GuardStep(w) \/ SendStep(w) \/ FinishStep(w)

Begin(w) == (\E p \in Payments : ProcessAttempt(w, p)) \/ (\E j \in Jobs : Sweep(w, j))
(* Here only the order check can see a capture.                            *)
Environment ==
  \/ \E j \in Jobs : Land(j)
  \/ OrderCheck /\ \E o \in Orders : Capture(o)
  \/ \E w \in Workers : Crash(w)

Next == (\E w \in Workers : Begin(w) \/ Step(w)) \/ Environment

Spec == Init /\ [][Next]_vars

(* run_due executes every due row of a sweep, serve sweeps for ever under a *)
(* lock the receiver gives back after each delivery, and a call returns:    *)
(* each HTTP request has a timeout.                                         *)
Fairness ==
  /\ \A w \in Workers : WF_vars(Step(w))
  /\ \A j \in Jobs : SF_vars(\E w \in Workers : Sweep(w, j))

FairSpec == Spec /\ Fairness

-----------------------------------------------------------------------------
(* Invariants. *)

Live(j) == link[j] \in {"created", "partial"}

(* A job says sent only when its link exists at Razorpay, whatever lost the *)
(* answer: the recovery by lookup, the duplicate reference and the         *)
(* reconcile never record a link that was not created.  A subscription's    *)
(* page is the one thing sent without a link (execute_job).                *)
SentHasLink ==
  \A j \in Jobs :
    /\ job[j].link => link[j] # "none"
    /\ job[j].status = "sent" => job[j].link \/ Route[j[1]] = "subscription"

(* The stop rule bounds the links, not only the jobs: whatever is retried,  *)
(* reclaimed or followed up, a payment never has more than max_attempts    *)
(* links, nor a request for one more on its way.                           *)
StopRule == \A j \in Jobs : link[j] # "none" \/ j \in inflight => j[2] <= MaxAttempts

(* The claim of ARCHITECTURE.md, Failure recovery: at most one Payment Link *)
(* that can be paid per payment.                                            *)
OneLiveLink == \A p \in Payments : \A s, t \in 1..MaxSeq : Live(<<p, s>>) /\ Live(<<p, t>>) => s = t

-----------------------------------------------------------------------------
(* What a step may never do. *)

NewLink(j) == link[j] = "none" /\ link'[j] = "created"

(* Once an outcome closes a job nothing is created for it any more, except   *)
(* by a request that was already under way: no path reopens a parked or    *)
(* failed job.                                                              *)
ClosedStaysClosed == [][\A j \in Jobs : NewLink(j) /\ j \notin inflight => outcome[j] = <<>>]_vars

(* After the order is recorded paid no create call is made for it, by any   *)
(* job of any payment of the order (money_path.md, the order-paid boundary).*)
PaidOrderNeverSends == [][\A j \in Jobs : NewLink(j) /\ j \notin inflight => OrderOf[j[1]] \notin orderPaid]_vars

(* _earlier_landed: a follow-up creates no link beside the live link of an  *)
(* earlier attempt that landed late, unless it landed while the create call *)
(* itself was being made.                                                   *)
NoCreateOverLanded ==
  [][\A j \in Jobs : NewLink(j) /\ j \notin inflight =>
       \A k \in Jobs : k[1] = j[1] /\ Live(k) => k \in raced]_vars

-----------------------------------------------------------------------------
(* What must happen. *)

(* A job is settled when its link or shadow is out with a nudge drafted, its *)
(* outcome is written, or a follow-up of the payment took over.              *)
Settled(j) ==
  \/ job[j].status \in {"sent", "shadow"} /\ job[j].nudged
  \/ outcome[j] # <<>>
  \/ job[j].status = "failed" /\ \E s \in SeqsOf(j[1]) : s > j[2]

(* No scheduled job is left behind: whatever Razorpay answers, the sweeps    *)
(* and the routing of finish_job settle it.                                  *)
EveryJobSettles == \A j \in Jobs : Exists(j) ~> Settled(j)

=============================================================================
