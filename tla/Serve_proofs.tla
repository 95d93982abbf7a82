---------------------------- MODULE Serve_proofs ----------------------------
(***************************************************************************)
(* What serve leaves behind when it is at rest, under its lock.  The order-  *)
(* paid boundary (money_path.md 1.5): what a recorded order leaves pending,  *)
(* what still goes out for it, and which of its links can still be paid.    *)
(* The reports: that they count the same money, and that no payment is      *)
(* where none of them looks.  Each invariant says where an unfinished row   *)
(* is: with the process that executes it, or on the list of the handler     *)
(* that stops its order.  Last, how often a job is closed when the poll runs *)
(* beside serve, in processes of its own.                                   *)
(***************************************************************************)
EXTENDS Refinement_proofs, Reports

-----------------------------------------------------------------------------
(* A claimed row is in the hands of the process that claimed it, and what is *)
(* on its way out belongs to an order that is not recorded paid.            *)

PendingPcs == {"execute", "stub", "refuse", "claim"}
ClaimedPcs == {"void", "shadow", "direct", "check", "earlier", "superseded", "create", "duplicate", "record"}
OutgoingPcs == {"stub", "refuse", "claim", "shadow", "direct", "check", "earlier", "superseded", "create",
               "duplicate", "record", "finish", "close"}

RowInHand(r) ==
  /\ r.pc \notin {"recover", "recovered"}
  /\ r.pc \in PendingPcs => job[r.job].status = "pending"
  /\ r.pc \in OutgoingPcs => ~OrderIsPaid(r.job)
  /\ r.pc = "record" => r.status \in {"sent", "failed"}
  /\ \A j \in Jobs : job[j].status = "executing" => r.job = j /\ r.pc \in ClaimedPcs

HandsInv == \A w \in Workers : RowInHand(wk[w])

LEMMA HandsBegin ==
  ASSUME TypeOK, NEW w \in Workers, RowInHand(wk[w]), Begin(w)
  PROVE  RowInHand(wk[w])'
<1>1. wk[w].pc = "idle" /\ UNCHANGED job /\ \A j \in Jobs : job[j].status # "executing"
  BY DEF Begin, ProcessAttempt, Sweep, RowInHand, ClaimedPcs, db
<1>2. ASSUME NEW p \in Payments, ProcessAttempt(w, p) PROVE RowInHand(wk[w])'
  <2>1. wk'[w].pc = "insert"
    BY <1>2 DEF ProcessAttempt, TypeOK, Idle
  <2> QED
    BY <1>1, <2>1 DEF RowInHand, PendingPcs, OutgoingPcs
<1>3. ASSUME NEW j \in Jobs, Sweep(w, j) PROVE RowInHand(wk[w])'
  <2>1. job[j].status = "pending"
    BY <1>1, <1>3 DEF Sweep, DueStatuses
  <2>2. wk'[w].pc = "execute" /\ wk'[w].job = j
    BY <1>3, <2>1 DEF Sweep, TypeOK, Idle
  <2> QED
    BY <1>1, <2>1, <2>2 DEF RowInHand, OutgoingPcs
<1> QED
  BY <1>2, <1>3 DEF Begin

LEMMA HandsSchedule ==
  ASSUME TypeOK, NEW w \in Workers, RowInHand(wk[w]), NEW j, Busy(w, j), ScheduleStep(w)
  PROVE  RowInHand(wk[w])'
<1>1. /\ j \in Jobs /\ wk[w].job = j /\ wk[w] \in WorkerState /\ wk \in [Workers -> WorkerState]
      /\ wk[w].pc \in {"followup", "insert", "park"}
      /\ \A k \in Jobs : job[k].status # "executing"
  BY BusyJob DEF Busy, ScheduleStep, Followup, InsertDuplicate, Insert, Park, RowInHand, ClaimedPcs
<1>2. CASE Followup(w)
  <2>1. wk'[w].pc = "insert" /\ UNCHANGED job
    BY <1>1, <1>2 DEF Followup, Idle, db
  <2> QED
    BY <1>1, <2>1 DEF RowInHand, PendingPcs, OutgoingPcs
<1>3. CASE InsertDuplicate(w) \/ Park(w)
  <2>1. wk'[w].pc = "idle" /\ UNCHANGED job
    BY <1>3, DoneAt DEF InsertDuplicate, Park, db
  <2> QED
    BY <1>1, <2>1 DEF RowInHand, PendingPcs, OutgoingPcs
<1>4. CASE Insert(w)
  <2>1. PICK status \in ScheduleStatuses(j, wk[w].answer) :
          /\ job' = [job EXCEPT ![j] = [NoRow EXCEPT !.status = status]]
          /\ \/ status \in Parked /\ GotoWith(w, "park", status, "none")
             \/ status = "pending" /\ j[2] = 1 /\ GotoWith(w, "execute", status, "none")
             \/ status = "pending" /\ Done(w)
    BY <1>1, <1>4 DEF Insert
  <2>2. job'[j].status = status /\ \A k \in Jobs \ {j} : job'[k] = job[k]
    BY <1>1, <2>1 DEF TypeOK, NoRow
  <2>3. status # "executing"
    BY <2>1 DEF Parked
  <2>4. \A k \in Jobs : job'[k].status # "executing"
    BY <1>1, <2>2, <2>3
  <2>5. wk'[w].pc \in {"park", "idle"} \/ (wk'[w].pc = "execute" /\ wk'[w].job = j /\ status = "pending")
    BY <1>1, <2>1, DoneAt, GotoWithAt
  <2> QED
    BY <1>1, <2>2, <2>4, <2>5 DEF RowInHand, PendingPcs, OutgoingPcs
<1> QED
  BY <1>2, <1>3, <1>4 DEF ScheduleStep

LEMMA HandsGuard ==
  ASSUME TypeOK, NEW w \in Workers, RowInHand(wk[w]), NEW j, Busy(w, j), GuardStep(w)
  PROVE  RowInHand(wk[w])' /\ UNCHANGED orderPaid
<1>1. /\ j \in Jobs /\ wk[w].job = j /\ wk[w] \in WorkerState
      /\ \A k \in Jobs \ {j} : job[k].status # "executing"
      /\ wk[w].pc \in PendingPcs => job[j].status = "pending"
      /\ wk[w].pc \in OutgoingPcs => ~OrderIsPaid(j)
  BY BusyJob DEF Busy, RowInHand
<1>2. UNCHANGED orderPaid
  BY DEF GuardStep, Execute, VoidOrderPaid, VoidOutcome, StubTokenRetry, RefuseLocally, ClaimForExecution,
         ClaimRefused, db, payments
<1>3. CASE Execute(w)
  <2>1. job[j].status = "pending" /\ UNCHANGED job
    BY <1>1, <1>3 DEF Execute, PendingPcs, db
  <2>2. PICK next \in {"void", "stub", "refuse", "claim"} :
          /\ GotoWith(w, next, job[j].status, job[j].kind)
          /\ next # "void" => ~OrderIsPaid(j)
    BY <1>1, <1>3, <2>1 DEF Execute, Terminal
  <2>3. wk'[w].pc = next /\ wk'[w].job = j
    BY <1>1, <2>2, GotoWithAt
  <2> QED
    BY <1>1, <1>2, <2>1, <2>2, <2>3 DEF RowInHand, OutgoingPcs, OrderIsPaid
<1>4. CASE VoidOrderPaid(w)
  <2>1. job'[j].status = "no_action" /\ \A k \in Jobs \ {j} : job'[k] = job[k]
    BY <1>1, <1>4, CommitAt DEF VoidOrderPaid
  <2>2. wk'[w].pc = "voided" /\ wk'[w].job = j
    BY <1>1, <1>4, GotoAt DEF VoidOrderPaid
  <2> QED
    BY <1>1, <1>2, <2>1, <2>2 DEF RowInHand, OutgoingPcs, PendingPcs
<1>5. CASE VoidOutcome(w)
  <2>1. wk'[w].pc = "idle" /\ UNCHANGED job /\ wk[w].pc = "voided"
    BY <1>5, DoneAt DEF VoidOutcome
  <2>2. \A k \in Jobs : job[k].status # "executing"
    BY <2>1 DEF RowInHand, ClaimedPcs
  <2> QED
    BY <1>2, <2>1, <2>2 DEF RowInHand, OutgoingPcs, PendingPcs
<1>6. CASE StubTokenRetry(w) \/ RefuseLocally(w)
  <2>1. PICK status \in {"stubbed", "failed"}, kind \in {"none", "local_guard"} :
          Commit(j, status, kind, FALSE) /\ GotoWith(w, "finish", status, kind)
    BY <1>1, <1>6 DEF StubTokenRetry, RefuseLocally
  <2>2. job'[j].status = status /\ \A k \in Jobs \ {j} : job'[k] = job[k]
    BY <1>1, <2>1, CommitAt
  <2>3. wk'[w].pc = "finish" /\ wk'[w].job = j
    BY <1>1, <2>1, GotoWithAt
  <2>4. ~OrderIsPaid(j)
    BY <1>1, <1>6 DEF StubTokenRetry, RefuseLocally, OutgoingPcs
  <2> QED
    BY <1>1, <1>2, <2>2, <2>3, <2>4 DEF RowInHand, PendingPcs, OrderIsPaid
<1>7. CASE ClaimForExecution(w)
  <2>1. job'[j].status = "executing" /\ \A k \in Jobs \ {j} : job'[k] = job[k]
    BY <1>1, <1>7 DEF ClaimForExecution, TypeOK, Row
  <2>2. PICK pc \in {"shadow", "direct", "check"} : GotoWith(w, pc, "executing", "none")
    BY <1>1, <1>7 DEF ClaimForExecution
  <2>3. wk'[w].pc = pc /\ wk'[w].job = j
    BY <1>1, <2>2, GotoWithAt
  <2>4. ~OrderIsPaid(j)
    BY <1>1, <1>7 DEF ClaimForExecution, OutgoingPcs
  <2> QED
    BY <1>1, <1>2, <2>1, <2>3, <2>4 DEF RowInHand, PendingPcs, ClaimedPcs, OrderIsPaid
<1>8. ~ClaimRefused(w)
  BY <1>1 DEF ClaimRefused, PendingPcs
<1> QED
  BY <1>2, <1>3, <1>4, <1>5, <1>6, <1>7, <1>8 DEF GuardStep

LEMMA HandsSend ==
  ASSUME TypeOK, NEW w \in Workers, RowInHand(wk[w]), NEW j, Busy(w, j), SendStep(w)
  PROVE  RowInHand(wk[w])'
<1>1. /\ j \in Jobs /\ wk[w].job = j /\ wk[w] \in WorkerState /\ wk \in [Workers -> WorkerState]
      /\ \A k \in Jobs \ {j} : job[k].status # "executing"
      /\ wk[w].pc \in {"shadow", "direct", "check", "earlier", "superseded", "create", "duplicate", "record"}
      /\ ~OrderIsPaid(j)
  BY BusyJob DEF Busy, RowInHand, OutgoingPcs, SendStep, FinishShadow, SendSubscriptionPage, OrderCheckPaid,
         OrderCheckPasses, EarlierLanded, EarlierNone, Superseded, CreateLink, CreateDuplicate, CreateRefused,
         OfferRejected, CreateUnanswered, FinishDuplicate, RecordResult
<1>2. ASSUME UNCHANGED orderPaid PROVE ~OrderIsPaid(j)'
  BY <1>1, <1>2 DEF OrderIsPaid
(* The row is committed and the process goes to finish_job. *)
<1>3. ASSUME NEW status \in Statuses \ {"executing"}, NEW kind, NEW linked \in BOOLEAN,
             Commit(j, status, kind, linked), UNCHANGED orderPaid,
             wk'[w].pc \in {"finish", "idle"}, wk'[w].pc = "finish" => wk'[w].job = j
      PROVE  RowInHand(wk[w])'
  <2>1. job'[j].status = status /\ \A k \in Jobs \ {j} : job'[k] = job[k]
    BY <1>1, <1>3, CommitAt
  <2> QED
    BY <1>1, <1>2, <1>3, <2>1 DEF RowInHand, OutgoingPcs, PendingPcs
(* The process goes on with the claimed row. *)
<1>4. ASSUME UNCHANGED <<job, orderPaid>>, wk'[w].job = j, wk'[w].pc \in {"earlier", "create", "duplicate", "record"},
             wk'[w].pc = "record" => wk'[w].status \in {"sent", "failed"}
      PROVE  RowInHand(wk[w])'
  BY <1>1, <1>2, <1>4 DEF RowInHand, ClaimedPcs, PendingPcs
<1>5. CASE FinishShadow(w) \/ SendSubscriptionPage(w)
  <2>1. PICK status \in {"shadow", "sent"} : Commit(j, status, "none", FALSE) /\ GotoWith(w, "finish", status, "none")
    BY <1>1, <1>5 DEF FinishShadow, SendSubscriptionPage
  <2> QED
    BY <1>1, <1>3, <1>5, <2>1, GotoWithAt DEF FinishShadow, SendSubscriptionPage, payments, Statuses, Terminal
<1>6. CASE OrderCheckPaid(w)
  <2>1. UNCHANGED job /\ wk'[w].pc = "void" /\ wk'[w].job = j
    BY <1>1, <1>6, GotoAt DEF OrderCheckPaid
  <2> QED
    BY <1>1, <2>1 DEF RowInHand, ClaimedPcs, PendingPcs, OutgoingPcs
<1>7. CASE OrderCheckPasses(w)
  BY <1>1, <1>4, <1>7, GotoAt DEF OrderCheckPasses, db, payments
<1>8. CASE EarlierLanded(w)
  <2>1. PICK k \in LandedSuspects(j) : Commit(k, "sent", "none", TRUE)
    BY <1>1, <1>8 DEF EarlierLanded
  <2>2. k \in Jobs
    BY <1>1, <2>1, SuspectsAreJobs DEF LandedSuspects
  <2>3. job'[k].status = "sent" /\ \A i \in Jobs \ {k} : job'[i] = job[i]
    BY <2>1, <2>2, CommitAt
  <2>4. wk'[w].pc = "superseded" /\ wk'[w].job = j /\ UNCHANGED orderPaid
    BY <1>1, <1>8, GotoAt DEF EarlierLanded, payments
  <2> QED
    BY <1>1, <1>2, <2>3, <2>4 DEF RowInHand, ClaimedPcs, PendingPcs
<1>9. CASE EarlierNone(w)
  <2>1. wk'[w].pc = "create" /\ wk'[w].job = j /\ UNCHANGED <<job, orderPaid>>
    BY <1>1, <1>9 DEF EarlierNone, db, payments, WorkerState
  <2> QED
    BY <1>4, <2>1
<1>10. CASE Superseded(w)
  <2>1. wk'[w].pc = "idle" /\ Commit(j, "no_action", "none", FALSE) /\ UNCHANGED orderPaid
    BY <1>1, <1>10, DoneAt DEF Superseded, payments
  <2> QED
    BY <1>3, <2>1 DEF Statuses, Terminal
<1>11. CASE CreateLink(w) \/ CreateDuplicate(w)
  <2>1. /\ wk'[w].pc \in {"record", "duplicate"} /\ wk'[w].job = j /\ UNCHANGED <<job, orderPaid>>
        /\ wk'[w].pc = "record" => wk'[w].status = "sent"
    BY <1>1, <1>11, GotoAt, GotoWithAt DEF CreateLink, CreateDuplicate, db, payments
  <2> QED
    BY <1>4, <2>1
<1>12. CASE OfferRejected(w)
  <2>1. wk'[w].pc = "create" /\ wk'[w].job = j /\ UNCHANGED <<job, orderPaid>>
    BY <1>1, <1>12 DEF OfferRejected, db, payments, WorkerState
  <2> QED
    BY <1>4, <2>1
<1>13. CASE CreateRefused(w) \/ CreateUnanswered(w)
  <2>1. wk[w].pc = "create" /\ UNCHANGED <<job, orderPaid>> /\ \E kind : AfterFailure(w, kind)
    BY <1>13 DEF CreateRefused, CreateUnanswered, db, payments
  <2>2. /\ wk'[w].pc \in {"record", "create"} /\ wk'[w].job = j
        /\ wk'[w].pc = "record" => wk'[w].status = "failed"
    BY <1>1, <2>1, AfterFailureAt
  <2> QED
    BY <1>4, <2>1, <2>2
<1>14. CASE FinishDuplicate(w)
  <2>1. PICK answer \in LookupByReference(j), status \in {"sent", "human_queue"} :
          Commit(j, status, "none", answer = "found") /\ GotoWith(w, "finish", status, "none")
    BY <1>1, <1>14 DEF FinishDuplicate
  <2>2. wk'[w].pc = "finish" /\ wk'[w].job = j
    BY <1>1, <2>1, GotoWithAt
  <2>3. UNCHANGED orderPaid /\ status \in Statuses \ {"executing"}
    BY <1>14 DEF FinishDuplicate, payments, Statuses, Terminal
  <2> QED
    BY <1>3, <2>1, <2>2, <2>3
<1>15. CASE RecordResult(w)
  <2>1. Commit(j, wk[w].status, wk[w].kind, wk[w].status = "sent") /\ Goto(w, "finish") /\ UNCHANGED orderPaid
    BY <1>1, <1>15 DEF RecordResult, payments
  <2>2. wk'[w].pc = "finish" /\ wk'[w].job = j
    BY <1>1, <2>1, GotoAt
  <2>3. wk[w].status \in Statuses \ {"executing"}
    BY <1>15 DEF RecordResult, RowInHand, Statuses, Terminal
  <2> QED
    BY <1>3, <2>1, <2>2, <2>3
<1> QED
  BY <1>5, <1>6, <1>7, <1>8, <1>9, <1>10, <1>11, <1>12, <1>13, <1>14, <1>15 DEF SendStep

LEMMA HandsFinish ==
  ASSUME TypeOK, NEW w \in Workers, RowInHand(wk[w]), NEW j, Busy(w, j), FinishStep(w)
  PROVE  RowInHand(wk[w])' /\ UNCHANGED orderPaid
<1>1. /\ j \in Jobs /\ wk[w].job = j /\ wk[w].pc \in {"finish", "close"} /\ ~OrderIsPaid(j)
      /\ \A k \in Jobs : job[k].status # "executing"
      /\ UNCHANGED orderPaid
  BY BusyJob DEF Busy, RowInHand, OutgoingPcs, ClaimedPcs, FinishStep, FinishSent, FinishClosed, FinishThrottled,
         Reconcile, FinishOther, Close, db, payments
<1>2. ~OrderIsPaid(j)'
  BY <1>1 DEF OrderIsPaid
<1>3. \A k \in Jobs : job'[k].status # "executing"
  <2>1. CASE FinishSent(w)
    <3>1. job'[j].status = job[j].status /\ \A k \in Jobs \ {j} : job'[k] = job[k]
      BY <1>1, <2>1 DEF FinishSent, TypeOK, Row
    <3> QED
      BY <1>1, <3>1
  <2>2. CASE Commit(j, "sent", "none", TRUE)
    <3>1. job'[j].status = "sent" /\ \A k \in Jobs \ {j} : job'[k] = job[k]
      BY <1>1, <2>2, CommitAt
    <3> QED
      BY <1>1, <3>1
  <2>3. CASE UNCHANGED job
    BY <1>1, <2>3
  <2> QED
    BY <1>1, <2>1, <2>2, <2>3 DEF FinishStep, FinishClosed, FinishThrottled, Reconcile, FinishOther, Close, db
<1>4. wk'[w].pc = "idle" \/ (wk'[w].pc \in {"finish", "close", "followup"} /\ wk'[w].job = j)
  <2>1. Done(w) \/ (\E pc \in {"close", "followup"} : Goto(w, pc)) \/ GotoWith(w, "finish", "sent", "none")
    BY DEF FinishStep, FinishSent, FinishClosed, FinishThrottled, Reconcile, FinishOther, Close, ToClose
  <2> QED
    BY <1>1, <2>1, DoneAt, GotoAt, GotoWithAt
<1> QED
  BY <1>1, <1>2, <1>3, <1>4 DEF RowInHand, PendingPcs, OutgoingPcs

(* The handlers run while the process executes nothing: no row is claimed,   *)
(* and what they write claims none.                                         *)
LEMMA SettleClaimsNothing ==
  ASSUME STypeInv, NEW w \in Workers, SettleStep(w)
  PROVE  /\ wk[w] = Idle
         /\ wk'[w].pc \in {"idle", "followup"}
         /\ \A j \in Jobs : job'[j].status = "executing" => job[j].status = "executing"
         /\ \A j \in Jobs : job'[j].status = "pending" => job[j].status = "pending"
<1>1. Handling(w, hd[w], hd[w].job)
  BY SettleIsHandling
<1>2. PICK h, j : Handling(w, h, j)
  BY <1>1
<1>3. /\ TypeOK /\ h \in HandlerState /\ hd[w] = h /\ h.job = j /\ wk[w] = Idle
      /\ h.pc \in JobPcs => j \in Jobs
  BY <1>2 DEF STypeInv, HandlerTypeOK, OneSide, Handling
<1>4. wk'[w].pc \in {"idle", "followup"}
  <2>1. CASE ExpiryFollowup(w)
    BY <1>3, <2>1 DEF ExpiryFollowup, TypeOK, Idle
  <2>2. CASE UNCHANGED wk
    BY <1>3, <2>2, IdleType
  <2> QED
    BY <2>1, <2>2 DEF SettleStep, PaidIgnored, PaidChecked, ClosePaidLink, MarkOrderPaid, TakeAttempt,
           AttemptsDone, VoidPending, CancelLink, CancelSkipped, RecordCancel, CloseStopped, ExpiredIgnored,
           ExpiredChecked, StillOpen, FetchLink, RecordSeen, vars
<1>5. ASSUME UNCHANGED job
      PROVE  \A k \in Jobs : job'[k] = job[k]
  BY <1>5
<1>6. ASSUME NEW i \in Jobs, NEW status \in {"sent", "no_action", "cancelled", "human_queue"}, NEW kind,
             NEW linked \in BOOLEAN, Commit(i, status, kind, linked)
      PROVE  \A k \in Jobs : job'[k] = job[k] \/ job'[k].status \in {"sent", "no_action", "cancelled", "human_queue"}
  BY <1>3, <1>6, CommitAt
<1>7. \A k \in Jobs : \/ job'[k].status = job[k].status
                      \/ job'[k].status \in {"sent", "no_action", "cancelled", "human_queue"}
  <2>1. CASE ClosePaidLink(w)
    <3>1. j \in Jobs /\ (UNCHANGED job \/ Commit(j, "sent", job[j].kind, TRUE))
      BY <1>3, <2>1 DEF ClosePaidLink, JobPcs
    <3> QED
      BY <1>5, <1>6, <3>1
  <2>2. CASE VoidPending(w)
    <3>1. h.pending \subseteq Jobs
      BY <1>3 DEF HandlerState
    <3>2. PICK i \in h.pending : i = First(h.pending)
      BY <1>3, <2>2, <3>1, FirstIsMember DEF VoidPending
    <3>3. i \in Jobs /\ Commit(i, "no_action", "none", FALSE)
      BY <1>3, <2>2, <3>1, <3>2 DEF VoidPending
    <3> QED
      BY <1>6, <3>3
  <2>3. CASE RecordCancel(w)
    <3>1. j \in Jobs /\ \E status \in {"cancelled", "human_queue"} : Commit(j, status, "none", FALSE)
      BY <1>3, <2>3 DEF RecordCancel, JobPcs
    <3> QED
      BY <1>6, <3>1
  <2>4. CASE RecordSeen(w)
    <3>1. j \in Jobs /\ job' = [job EXCEPT ![j].link = TRUE]
      BY <1>3, <2>4 DEF RecordSeen, JobPcs
    <3>2. (\A k \in Jobs \ {j} : job'[k] = job[k]) /\ job'[j].status = job[j].status
      BY <1>3, <3>1 DEF TypeOK, Row
    <3> QED
      BY <3>2
  <2>5. CASE UNCHANGED job
    BY <2>5
  <2> QED
    BY <2>1, <2>2, <2>3, <2>4, <2>5 DEF SettleStep, PaidIgnored, PaidChecked, MarkOrderPaid, TakeAttempt,
           AttemptsDone, CancelLink, CancelSkipped, CloseStopped, ExpiredIgnored,
           ExpiredChecked, StillOpen, FetchLink, ExpiryFollowup, vars, db
<1> QED
  BY <1>3, <1>4, <1>7

LEMMA HandsStep ==
  ASSUME Serial, ~Crashes, STypeInv, HandsInv, [SNext]_svars
  PROVE  HandsInv'
<1>0. TypeOK
  BY DEF STypeInv
<1>1. ASSUME NEW w \in Workers, RowInHand(wk[w])' PROVE HandsInv'
  BY <1>1 DEF Serial, HandsInv
<1>2. ASSUME UNCHANGED <<job, orderPaid, wk>> PROVE HandsInv'
  BY <1>2 DEF HandsInv, RowInHand, OrderIsPaid
<1>3. ASSUME NEW w \in Workers, Execution(w) PROVE HandsInv'
  <2>1. RowInHand(wk[w])
    BY DEF HandsInv
  <2>2. CASE Begin(w)
    BY <1>0, <1>1, <2>1, <2>2, HandsBegin
  <2>3. CASE Step(w)
    <3>1. Busy(w, wk[w].job)
      BY <1>0, <2>3, StepIsBusy
    <3>2. PICK j : Busy(w, j)
      BY <3>1
    <3>3. ~RecoverStep(w)
      BY <2>1 DEF RowInHand, RecoverStep, RecoverLookup, RecoverStaleExecution
    <3> QED
      BY <1>0, <1>1, <2>1, <2>3, <3>2, <3>3, HandsSchedule, HandsGuard, HandsSend, HandsFinish DEF Step
  <2> QED
    BY <1>3, <2>2, <2>3 DEF Execution
<1>4. ASSUME NEW w \in Workers, SettleStep(w) PROVE HandsInv'
  <2>1. /\ wk[w] = Idle /\ wk'[w].pc \in {"idle", "followup"} /\ RowInHand(wk[w])
        /\ \A j \in Jobs : job'[j].status = "executing" => job[j].status = "executing"
    BY <1>4, SettleClaimsNothing DEF HandsInv
  <2>2. \A j \in Jobs : job[j].status # "executing"
    BY <2>1, IdleType DEF RowInHand, ClaimedPcs
  <2>3. RowInHand(wk[w])'
    BY <2>1, <2>2 DEF RowInHand, PendingPcs, OutgoingPcs
  <2> QED
    BY <1>1, <2>3
<1>5. ASSUME NEW w \in Workers, Receive(w) PROVE HandsInv'
  BY <1>2, <1>5 DEF Receive, ReceivePaid, ReceiveExpired, PollLink, ReceiveCaptured, vars
<1>6. CASE World
  BY <1>2, <1>6 DEF World, PayLink, PayPart, EndLink, Land, PayElsewhere, Capture, SettlementCrash, db, payments
<1>7. CASE UNCHANGED svars
  BY <1>2, <1>7 DEF svars, vars
<1> QED
  BY <1>3, <1>4, <1>5, <1>6, <1>7 DEF SNext

LEMMA HandsCorrect ==
  ASSUME Serial, ~Crashes
  PROVE  SSpec => []HandsInv
<1>1. SInit => HandsInv
  BY DEF SInit, Init, HandsInv, RowInHand, Idle, NoRow, PendingPcs, OutgoingPcs
<1>2. STypeInv /\ HandsInv /\ [SNext]_svars => HandsInv'
  BY HandsStep
<1> QED
  BY <1>1, <1>2, STypeCorrect, PTL DEF SSpec

-----------------------------------------------------------------------------
(* Whatever is at hand belongs to a payment that is stored: its row comes    *)
(* first, and the handler of its order finds it (AttemptsOf).               *)

Touched(j) == Exists(j) \/ link[j] # "none" \/ j \in inflight

KnownInv ==
  /\ \A j \in Jobs : Touched(j) => j[1] \in attempts
  /\ \A w \in Workers : wk[w].pc # "idle" => wk[w].job[1] \in attempts
  /\ \A w \in Workers : hd[w].pc \in JobPcs => hd[w].job[1] \in attempts
  /\ \A w \in Workers : \A j \in hd[w].pending \cup hd[w].live : j[1] \in attempts

LEMMA CommitTouches ==
  ASSUME TypeOK, NEW j \in Jobs, NEW status, NEW kind, NEW linked \in BOOLEAN, Commit(j, status, kind, linked)
  PROVE  \A k \in Jobs : k # j => (Exists(k)' <=> Exists(k))
BY CommitAt DEF Exists

LEMMA ExecutionTouches ==
  ASSUME TypeOK, NEW w \in Workers, NEW j, Busy(w, j), Step(w)
  PROVE  /\ \A k \in Jobs : Touched(k)' => Touched(k) \/ k[1] = j[1]
         /\ wk'[w].pc # "idle" => wk'[w].job[1] = j[1]
         /\ UNCHANGED attempts
<1>1. j \in Jobs /\ wk[w].job = j /\ wk[w] \in WorkerState /\ wk \in [Workers -> WorkerState]
  BY BusyJob DEF Busy
<1>2. \A k \in Suspects(j) : k \in Jobs /\ k[1] = j[1]
  <2>1. Suspects(j) \subseteq Jobs
    BY <1>1, SuspectsAreJobs
  <2>2. ASSUME NEW k \in Suspects(j) PROVE k[1] = j[1]
    <3>1. \E s \in 1..(j[2] - 1) : k = <<j[1], s>>
      BY DEF Suspects, AmbiguousFailures
    <3> QED
      BY <3>1
  <2> QED
    BY <2>1, <2>2
<1>3. UNCHANGED attempts
  BY DEF Step, ScheduleStep, Followup, InsertDuplicate, Insert, Park,
     RecoverStep, RecoverLookup, RecoverStaleExecution, GuardStep, Execute, VoidOrderPaid, VoidOutcome,
     StubTokenRetry, RefuseLocally, ClaimForExecution, ClaimRefused, FinishStep, FinishSent, FinishClosed,
     FinishThrottled, Reconcile, FinishOther, Close, SendStep, FinishShadow, SendSubscriptionPage, OrderCheckPaid,
     OrderCheckPasses, EarlierLanded, EarlierNone, Superseded, CreateLink, CreateDuplicate, CreateRefused,
     OfferRejected, CreateUnanswered, FinishDuplicate, RecordResult, db, payments
<1>4. \A k \in Jobs : Exists(k)' => Exists(k) \/ k[1] = j[1]
  <2>1. ASSUME NEW i \in Jobs, i[1] = j[1], NEW status, NEW kind, NEW linked \in BOOLEAN, Commit(i, status, kind, linked)
        PROVE  \A k \in Jobs : Exists(k)' => Exists(k) \/ k[1] = j[1]
    BY <2>1, CommitTouches
  <2>2. ASSUME UNCHANGED job PROVE \A k \in Jobs : Exists(k)' => Exists(k) \/ k[1] = j[1]
    BY <2>2 DEF Exists
  <2>3. ASSUME NEW r, job' = [job EXCEPT ![j] = r] PROVE \A k \in Jobs : Exists(k)' => Exists(k) \/ k[1] = j[1]
    <3>1. \A k \in Jobs : k # j => job'[k] = job[k]
      BY <2>3 DEF TypeOK
    <3> QED
      BY <3>1 DEF Exists
  <2>4. CASE ScheduleStep(w)
    BY <1>1, <2>2, <2>3, <2>4 DEF ScheduleStep, Followup, InsertDuplicate, Insert, Park, db
  <2>5. CASE RecoverStep(w)
    BY <1>1, <2>1, <2>2, <2>5 DEF RecoverStep, RecoverLookup, RecoverStaleExecution, db
  <2>6. CASE GuardStep(w)
    BY <1>1, <2>1, <2>2, <2>3, <2>6 DEF GuardStep, Execute, VoidOrderPaid, VoidOutcome, StubTokenRetry,
       RefuseLocally, ClaimForExecution, ClaimRefused, db
  <2>7. CASE EarlierLanded(w)
    BY <1>1, <1>2, <2>1, <2>7 DEF EarlierLanded, LandedSuspects
  <2>8. CASE SendStep(w) /\ ~EarlierLanded(w)
    BY <1>1, <2>1, <2>2, <2>8 DEF SendStep, FinishShadow, SendSubscriptionPage, OrderCheckPaid, OrderCheckPasses,
       EarlierNone, Superseded, CreateLink, CreateDuplicate, CreateRefused, OfferRejected, CreateUnanswered,
       FinishDuplicate, RecordResult, db
  <2>9. CASE FinishStep(w)
    BY <1>1, <2>1, <2>2, <2>3, <2>9 DEF FinishStep, FinishSent, FinishClosed, FinishThrottled, Reconcile,
       FinishOther, Close, db
  <2> QED
    BY <2>4, <2>5, <2>6, <2>7, <2>8, <2>9 DEF Step
<1>5. \A k \in Jobs : link'[k] # "none" \/ k \in inflight' => link[k] # "none" \/ k \in inflight \/ k = j
  <2>1. CASE CreateLink(w)
    BY <1>1, <2>1 DEF CreateLink, TypeOK
  <2>2. CASE CreateUnanswered(w)
    BY <1>1, <2>2 DEF CreateUnanswered, TypeOK
  <2>3. CASE UNCHANGED <<link, inflight>>
    BY <2>3
  <2> QED
    BY <2>1, <2>2, <2>3 DEF Step, ScheduleStep, Followup, InsertDuplicate, Insert, Park,
     RecoverStep, RecoverLookup, RecoverStaleExecution, GuardStep, Execute, VoidOrderPaid, VoidOutcome,
     StubTokenRetry, RefuseLocally, ClaimForExecution, ClaimRefused, FinishStep, FinishSent, FinishClosed,
     FinishThrottled, Reconcile, FinishOther, Close, SendStep, FinishShadow, SendSubscriptionPage, OrderCheckPaid,
     OrderCheckPasses, EarlierLanded, EarlierNone, Superseded, CreateDuplicate, CreateRefused,
     OfferRejected, FinishDuplicate, RecordResult, razorpay
<1>6. wk'[w].pc # "idle" => wk'[w].job[1] = j[1]
  <2>1. CASE Done(w)
    BY <2>1, DoneAt
  <2>2. ASSUME NEW pc, Goto(w, pc) PROVE wk'[w].job[1] = j[1]
    BY <1>1, <2>2, GotoAt
  <2>3. ASSUME NEW pc, NEW status, NEW kind, GotoWith(w, pc, status, kind) PROVE wk'[w].job[1] = j[1]
    BY <1>1, <2>3, GotoWithAt
  <2>4. CASE Followup(w)
    BY <1>1, <2>4 DEF Followup, Idle
  <2>5. CASE RecoverLookup(w) \/ EarlierNone(w) \/ OfferRejected(w)
    <3>1. ASSUME NEW r, r.job = j, wk' = [wk EXCEPT ![w] = r] PROVE wk'[w].job[1] = j[1]
      BY <1>1, <3>1
    <3>2. CASE RecoverLookup(w)
      <4>1. PICK answer : wk' = [wk EXCEPT ![w] = [wk[w] EXCEPT !.pc = "recovered", !.status = job[j].status, !.answer = answer]]
        BY <1>1, <3>2 DEF RecoverLookup
      <4> QED
        BY <1>1, <3>1, <4>1 DEF WorkerState
    <3>3. CASE EarlierNone(w)
      BY <1>1, <3>1, <3>3 DEF EarlierNone, WorkerState
    <3>4. CASE OfferRejected(w)
      BY <1>1, <3>1, <3>4 DEF OfferRejected, WorkerState
    <3> QED
      BY <2>5, <3>2, <3>3, <3>4
  <2>6. CASE CreateRefused(w) \/ CreateUnanswered(w)
    BY <1>1, <2>6, AfterFailureAt DEF CreateRefused, CreateUnanswered
  <2>7. CASE ScheduleStep(w) /\ ~Followup(w)
    BY <2>1, <2>3, <2>7 DEF ScheduleStep, InsertDuplicate, Insert, Park
  <2>8. CASE RecoverStaleExecution(w) \/ GuardStep(w)
    BY <2>1, <2>2, <2>3, <2>8 DEF RecoverStaleExecution, GuardStep, Execute, VoidOrderPaid, VoidOutcome,
       StubTokenRetry, RefuseLocally, ClaimForExecution, ClaimRefused
  <2>9. CASE FinishStep(w)
    BY <2>1, <2>2, <2>3, <2>9 DEF FinishStep, FinishSent, FinishClosed, FinishThrottled, Reconcile, FinishOther,
       Close, ToClose
  <2>10. CASE SendStep(w)
    BY <2>1, <2>2, <2>3, <2>5, <2>6, <2>10 DEF SendStep, FinishShadow, SendSubscriptionPage, OrderCheckPaid,
       OrderCheckPasses, EarlierLanded, Superseded, CreateLink, CreateDuplicate, FinishDuplicate, RecordResult
  <2> QED
    BY <2>4, <2>5, <2>7, <2>8, <2>9, <2>10 DEF Step, RecoverStep
<1> QED
  BY <1>3, <1>4, <1>5, <1>6 DEF Touched

(* A handler goes on with the job it has, or with one of its lists. *)
LEMMA HandlerGoesOn ==
  ASSUME STypeInv, NEW w \in Workers, NEW h, h = hd[w], SettleStep(w)
  PROVE  /\ hd'[w].pc \in JobPcs => (h.pc \in JobPcs /\ hd'[w].job = h.job) \/ hd'[w].job \in h.pending \cup h.live
         /\ \A i \in hd'[w].pending \cup hd'[w].live : i \in h.pending \cup h.live \/ (i \in Jobs /\ Exists(i))
         /\ \A v \in Workers \ {w} : hd'[v] = hd[v]
<1>1. h \in HandlerState /\ h.pending \subseteq Jobs /\ h.live \subseteq Jobs
  BY DEF STypeInv, HandlerTypeOK, HandlerState
<1>2. CASE Answered(w)
  <2>1. hd'[w] = NoHandler /\ \A v \in Workers \ {w} : hd'[v] = hd[v]
    BY <1>2, MovedAt DEF Answered
  <2> QED
    BY <2>1 DEF NoHandler, JobPcs
<1>3. ASSUME NEW pc, h.pc \in JobPcs, Handle(w, pc)
      PROVE  /\ hd'[w].job = h.job
             /\ hd'[w].pending = h.pending
             /\ hd'[w].live = h.live
             /\ \A v \in Workers \ {w} : hd'[v] = hd[v]
  BY <1>3, HandleAt
<1>4. ASSUME NEW r, hd' = [hd EXCEPT ![w] = r],
             r.pc \in JobPcs => (h.pc \in JobPcs /\ r.job = h.job) \/ r.job \in h.pending \cup h.live,
             \A i \in r.pending \cup r.live : i \in h.pending \cup h.live \/ (i \in Jobs /\ Exists(i))
      PROVE  /\ hd'[w].pc \in JobPcs => (h.pc \in JobPcs /\ hd'[w].job = h.job) \/ hd'[w].job \in h.pending \cup h.live
             /\ \A i \in hd'[w].pending \cup hd'[w].live : i \in h.pending \cup h.live \/ (i \in Jobs /\ Exists(i))
             /\ \A v \in Workers \ {w} : hd'[v] = hd[v]
  <2>1. hd'[w] = r /\ \A v \in Workers \ {w} : hd'[v] = hd[v]
    BY <1>4, MovedAt
  <2> QED
    BY <1>4, <2>1
<1>5. CASE PaidIgnored(w) \/ AttemptsDone(w) \/ ExpiredIgnored(w) \/ StillOpen(w) \/ ExpiryFollowup(w)
  BY <1>2, <1>5 DEF PaidIgnored, AttemptsDone, ExpiredIgnored, StillOpen, ExpiryFollowup
<1>6. CASE PaidChecked(w) \/ ExpiredChecked(w) \/ RecordCancel(w)
  BY <1>3, <1>6 DEF PaidChecked, ExpiredChecked, RecordCancel, JobPcs
<1>7. CASE RecordSeen(w)
  BY <1>2, <1>3, <1>7 DEF RecordSeen, JobPcs
<1>8. CASE ClosePaidLink(w)
  <2> DEFINE r == [NoHandler EXCEPT !.pc = "mark", !.order = OrderOf[h.job[1]]]
  <2>1. r.pc = "mark" /\ r.pending = {} /\ r.live = {}
    BY DEF NoHandler
  <2> HIDE DEF r
  <2>2. Answered(w) \/ hd' = [hd EXCEPT ![w] = r]
    BY <1>8 DEF ClosePaidLink, r
  <2> QED
    BY <1>2, <1>4, <2>1, <2>2 DEF JobPcs
<1>9. CASE MarkOrderPaid(w)
  <2> DEFINE r == [h EXCEPT !.pc = "attempt", !.todo = AttemptsOf(h.order)]
  <2>1. r.pc = "attempt" /\ r.pending = h.pending /\ r.live = h.live
    BY <1>1 DEF HandlerState
  <2> HIDE DEF r
  <2>2. Answered(w) \/ hd' = [hd EXCEPT ![w] = r]
    BY <1>9 DEF MarkOrderPaid, r
  <2> QED
    BY <1>2, <1>4, <2>1, <2>2 DEF JobPcs
<1>10. CASE TakeAttempt(w)
  <2>1. PICK p \in h.todo :
          hd' = [hd EXCEPT ![w] = [@ EXCEPT !.todo = h.todo \ {p}, !.pending = PendingOf(p), !.live = LiveOf(p)]]
    BY <1>10 DEF TakeAttempt
  <2> DEFINE r == [h EXCEPT !.todo = h.todo \ {p}, !.pending = PendingOf(p), !.live = LiveOf(p)]
  <2>2. r.pc = "attempt" /\ r.pending = PendingOf(p) /\ r.live = LiveOf(p) /\ hd' = [hd EXCEPT ![w] = r]
    BY <1>1, <1>10, <2>1 DEF HandlerState, TakeAttempt
  <2> HIDE DEF r
  <2>3. \A i \in PendingOf(p) \cup LiveOf(p) : i \in Jobs /\ Exists(i)
    BY DEF PendingOf, LiveOf, Exists
  <2> QED
    BY <1>4, <2>2, <2>3 DEF JobPcs
<1>11. CASE VoidPending(w)
  <2>1. PICK i \in h.pending : i = First(h.pending)
    BY <1>1, <1>11, FirstIsMember DEF VoidPending
  <2> DEFINE r == [h EXCEPT !.pc = "closed", !.job = i, !.pending = h.pending \ {i}]
  <2>2. r.pc = "closed" /\ r.job = i /\ r.pending = h.pending \ {i} /\ r.live = h.live /\ hd' = [hd EXCEPT ![w] = r]
    BY <1>1, <1>11, <2>1 DEF HandlerState, VoidPending
  <2> HIDE DEF r
  <2> QED
    BY <1>4, <2>2
<1>12. CASE CancelLink(w)
  <2>1. PICK i \in h.live : i = First(h.live)
    BY <1>1, <1>12, FirstIsMember DEF CancelLink
  <2>2. PICK pc \in {"cancelled", "parked"} :
          hd' = [hd EXCEPT ![w] = [@ EXCEPT !.pc = pc, !.job = i, !.live = h.live \ {i}]]
    BY <1>12, <2>1 DEF CancelLink
  <2> DEFINE r == [h EXCEPT !.pc = pc, !.job = i, !.live = h.live \ {i}]
  <2>3. r.job = i /\ r.pending = h.pending /\ r.live = h.live \ {i} /\ hd' = [hd EXCEPT ![w] = r]
    BY <1>1, <2>2 DEF HandlerState
  <2> HIDE DEF r
  <2> QED
    BY <1>4, <2>3
<1>13. CASE CancelSkipped(w)
  <2> DEFINE r == [h EXCEPT !.live = h.live \ {First(h.live)}]
  <2>1. r.pc = "attempt" /\ r.pending = h.pending /\ r.live \subseteq h.live /\ hd' = [hd EXCEPT ![w] = r]
    BY <1>1, <1>13 DEF HandlerState, CancelSkipped
  <2> HIDE DEF r
  <2> QED
    BY <1>4, <2>1 DEF JobPcs
<1>14. CASE CloseStopped(w)
  <2> DEFINE r == [h EXCEPT !.pc = "attempt", !.job = NoJob]
  <2>1. r.pc = "attempt" /\ r.pending = h.pending /\ r.live = h.live /\ hd' = [hd EXCEPT ![w] = r]
    BY <1>1, <1>14 DEF HandlerState, CloseStopped
  <2> HIDE DEF r
  <2> QED
    BY <1>4, <2>1 DEF JobPcs
<1>15. CASE FetchLink(w)
  <2> DEFINE r == [h EXCEPT !.pc = "polled", !.seen = link[h.job]]
  <2>1. r.job = h.job /\ r.pending = h.pending /\ r.live = h.live /\ h.pc = "fetch" /\ hd' = [hd EXCEPT ![w] = r]
    BY <1>1, <1>15 DEF HandlerState, FetchLink
  <2> HIDE DEF r
  <2> QED
    BY <1>4, <2>1 DEF JobPcs
<1> QED
  BY <1>5, <1>6, <1>7, <1>8, <1>9, <1>10, <1>11, <1>12, <1>13, <1>14, <1>15 DEF SettleStep

(* It writes the row of that job, and one by one the rows it voids. *)
LEMMA SettleWrites ==
  ASSUME STypeInv, NEW w \in Workers, NEW h, h = hd[w], SettleStep(w)
  PROVE  /\ \A k \in Jobs : job'[k] = job[k] \/ (h.pc \in JobPcs /\ k = h.job) \/ k \in h.pending
         /\ \A k \in Jobs : link'[k] # "none" => link[k] # "none"
         /\ UNCHANGED <<attempts, inflight>>
         /\ wk'[w].pc # "idle" => h.pc \in JobPcs /\ wk'[w].job = h.job
         /\ \A v \in Workers \ {w} : wk'[v] = wk[v]
<1>1. TypeOK /\ h.pending \subseteq Jobs /\ h.live \subseteq Jobs /\ wk[w] = Idle /\ (h.pc \in JobPcs => h.job \in Jobs)
  <2>1. h.pc # "idle"
    BY SettleIsHandling DEF Handling
  <2> QED
    BY <2>1 DEF STypeInv, HandlerTypeOK, HandlerState, OneSide
<1>2. \A k \in Jobs : job'[k] = job[k] \/ (h.pc \in JobPcs /\ k = h.job) \/ k \in h.pending
  <2>1. ASSUME NEW i \in Jobs, NEW status, NEW kind, NEW linked \in BOOLEAN, Commit(i, status, kind, linked)
        PROVE  \A k \in Jobs \ {i} : job'[k] = job[k]
    BY <1>1, <2>1, CommitAt
  <2>2. CASE ClosePaidLink(w)
    BY <1>1, <2>1, <2>2 DEF ClosePaidLink, JobPcs
  <2>3. CASE VoidPending(w)
    <3>1. PICK i \in h.pending : i = First(h.pending)
      BY <1>1, <2>3, FirstIsMember DEF VoidPending
    <3> QED
      BY <1>1, <2>1, <2>3, <3>1 DEF VoidPending
  <2>4. CASE RecordCancel(w)
    BY <1>1, <2>1, <2>4 DEF RecordCancel, JobPcs
  <2>5. CASE RecordSeen(w)
    BY <1>1, <2>5 DEF RecordSeen, JobPcs, TypeOK
  <2>6. CASE UNCHANGED job
    BY <2>6
  <2> QED
    BY <2>2, <2>3, <2>4, <2>5, <2>6 DEF SettleStep, PaidIgnored, PaidChecked, MarkOrderPaid, TakeAttempt,
           AttemptsDone, CancelLink, CancelSkipped, CloseStopped, ExpiredIgnored,
           ExpiredChecked, StillOpen, FetchLink, ExpiryFollowup, vars, db
<1>3. \A k \in Jobs : link'[k] # "none" => link[k] # "none"
  <2>1. CASE CancelLink(w)
    <3>1. PICK i \in h.live : i = First(h.live)
      BY <1>1, <2>1, FirstIsMember DEF CancelLink
    <3> QED
      BY <1>1, <2>1, <3>1 DEF CancelLink, Live, TypeOK
  <2>2. CASE UNCHANGED link
    BY <2>2
  <2> QED
    BY <2>1, <2>2 DEF SettleStep, PaidIgnored, PaidChecked, ClosePaidLink, MarkOrderPaid, TakeAttempt,
           AttemptsDone, VoidPending, CancelSkipped, RecordCancel, CloseStopped, ExpiredIgnored,
           ExpiredChecked, StillOpen, FetchLink, RecordSeen, ExpiryFollowup, vars, razorpay
<1>4. UNCHANGED <<attempts, inflight>>
  BY DEF SettleStep, PaidIgnored, PaidChecked, ClosePaidLink, MarkOrderPaid, TakeAttempt,
         AttemptsDone, VoidPending, CancelLink, CancelSkipped, RecordCancel, CloseStopped, ExpiredIgnored,
         ExpiredChecked, StillOpen, FetchLink, RecordSeen, ExpiryFollowup, vars, razorpay, db, payments
<1>5. (wk'[w].pc # "idle" => h.pc \in JobPcs /\ wk'[w].job = h.job) /\ \A v \in Workers \ {w} : wk'[v] = wk[v]
  <2>1. CASE ExpiryFollowup(w)
    BY <1>1, <2>1, IdleType DEF ExpiryFollowup, TypeOK, Idle, JobPcs
  <2>2. CASE UNCHANGED wk
    BY <1>1, <2>2, IdleType
  <2> QED
    BY <2>1, <2>2 DEF SettleStep, PaidIgnored, PaidChecked, ClosePaidLink, MarkOrderPaid, TakeAttempt,
           AttemptsDone, VoidPending, CancelLink, CancelSkipped, RecordCancel, CloseStopped, ExpiredIgnored,
           ExpiredChecked, StillOpen, FetchLink, RecordSeen, vars
<1> QED
  BY <1>2, <1>3, <1>4, <1>5

LEMMA KnownStep ==
  ASSUME STypeInv, KnownInv, [SNext]_svars
  PROVE  KnownInv'
<1>1. /\ TypeOK
      /\ \A w \in Workers : hd[w].pending \subseteq Jobs /\ hd[w].live \subseteq Jobs
      /\ \A w \in Workers : hd[w].pc \in JobPcs => hd[w].job \in Jobs
  BY DEF STypeInv, HandlerTypeOK, HandlerState
<1>2. CASE UNCHANGED svars
  BY <1>2 DEF KnownInv, Touched, Exists, svars, vars
<1>3. ASSUME NEW w \in Workers, Execution(w) PROVE KnownInv'
  <2>1. UNCHANGED hd /\ \A v \in Workers \ {w} : wk'[v] = wk[v]
    BY <1>1, <1>3, ExecutionMoves DEF Execution, TypeOK
  <2>2. ASSUME NEW p \in Payments, ProcessAttempt(w, p) PROVE KnownInv'
    <3>1. attempts' = attempts \cup {p} /\ UNCHANGED <<job, link, inflight>> /\ wk'[w].job[1] = p
      BY <1>1, <2>2 DEF ProcessAttempt, razorpay, TypeOK, Idle
    <3> QED
      BY <2>1, <3>1 DEF KnownInv, Touched, Exists
  <2>3. ASSUME NEW j \in Jobs, Sweep(w, j) PROVE KnownInv'
    <3>1. UNCHANGED <<attempts, job, link, inflight>> /\ wk'[w].job = j /\ Exists(j)
      BY <1>1, <2>3 DEF Sweep, db, payments, razorpay, TypeOK, Idle, Exists, DueStatuses
    <3> QED
      BY <2>1, <3>1 DEF KnownInv, Touched, Exists
  <2>4. CASE Step(w)
    <3>1. Busy(w, wk[w].job)
      BY <1>1, <2>4, StepIsBusy
    <3>2. PICK j : Busy(w, j)
      BY <3>1
    <3>3. j[1] \in attempts
      BY <3>2 DEF Busy, KnownInv
    <3>4. /\ \A k \in Jobs : Touched(k)' => Touched(k) \/ k[1] = j[1]
          /\ wk'[w].pc # "idle" => wk'[w].job[1] = j[1]
          /\ UNCHANGED attempts
      BY <1>1, <2>4, <3>2, ExecutionTouches
    <3> QED
      BY <2>1, <3>3, <3>4 DEF KnownInv
  <2> QED
    BY <1>3, <2>2, <2>3, <2>4 DEF Execution, Begin
<1>4. ASSUME NEW w \in Workers, NEW h, h = hd[w], SettleStep(w) PROVE KnownInv'
  <2>1. /\ \A k \in Jobs : job'[k] = job[k] \/ (h.pc \in JobPcs /\ k = h.job) \/ k \in h.pending
        /\ \A k \in Jobs : link'[k] # "none" => link[k] # "none"
        /\ UNCHANGED <<attempts, inflight>>
        /\ wk'[w].pc # "idle" => h.pc \in JobPcs /\ wk'[w].job = h.job
        /\ \A v \in Workers \ {w} : wk'[v] = wk[v]
    BY <1>4, SettleWrites
  <2>2. /\ hd'[w].pc \in JobPcs => (h.pc \in JobPcs /\ hd'[w].job = h.job) \/ hd'[w].job \in h.pending \cup h.live
        /\ \A i \in hd'[w].pending \cup hd'[w].live : i \in h.pending \cup h.live \/ (i \in Jobs /\ Exists(i))
        /\ \A v \in Workers \ {w} : hd'[v] = hd[v]
    BY <1>4, HandlerGoesOn
  <2>3. (h.pc \in JobPcs => h.job[1] \in attempts) /\ \A i \in h.pending \cup h.live : i[1] \in attempts
    BY <1>4 DEF KnownInv
  <2>4. \A k \in Jobs : Touched(k)' => k[1] \in attempts
    BY <2>1, <2>3 DEF KnownInv, Touched, Exists
  <2> QED
    BY <2>1, <2>2, <2>3, <2>4 DEF KnownInv, Touched
<1>5. ASSUME NEW w \in Workers, Receive(w) PROVE KnownInv'
  <2>1. UNCHANGED vars /\ hd[w] = NoHandler
    BY <1>5 DEF Receive, ReceivePaid, ReceiveExpired, PollLink, ReceiveCaptured, Free
  <2>2. ASSUME NEW r, hd' = [hd EXCEPT ![w] = r], r.pending = {}, r.live = {}, r.pc \in JobPcs => r.job[1] \in attempts
        PROVE  KnownInv'
    <3>1. hd'[w] = r /\ \A v \in Workers \ {w} : hd'[v] = hd[v]
      BY <2>2, MovedAt
    <3> QED
      BY <2>1, <2>2, <3>1 DEF KnownInv, Touched, Exists, vars
  <2>3. ASSUME NEW j \in Jobs, NEW pc, NEW seen, hd' = [hd EXCEPT ![w] = [NoHandler EXCEPT !.pc = pc, !.job = j, !.seen = seen]],
               Touched(j)
        PROVE  KnownInv'
    <3> DEFINE r == [NoHandler EXCEPT !.pc = pc, !.job = j, !.seen = seen]
    <3>1. r.pending = {} /\ r.live = {} /\ r.job = j
      BY DEF NoHandler
    <3>2. j[1] \in attempts
      BY <2>3 DEF KnownInv
    <3> HIDE DEF r
    <3>3. hd' = [hd EXCEPT ![w] = r]
      BY <2>3 DEF r
    <3> QED
      BY <2>2, <3>1, <3>2, <3>3
  <2>4. ASSUME NEW j \in Jobs, ReceivePaid(w, j) PROVE KnownInv'
    BY <2>1, <2>3, <2>4 DEF ReceivePaid, PaymentLinkPaid, Touched
  <2>5. ASSUME NEW j \in Jobs, ReceiveExpired(w, j) PROVE KnownInv'
    BY <2>1, <2>3, <2>5 DEF ReceiveExpired, PaymentLinkExpired, Touched
  <2>6. ASSUME NEW j \in Jobs, PollLink(w, j) PROVE KnownInv'
    <3>1. Exists(j)
      BY <2>6 DEF PollLink, OpenLinks, Exists
    <3> DEFINE r == [NoHandler EXCEPT !.pc = "fetch", !.job = j]
    <3>2. r.pending = {} /\ r.live = {} /\ r.job = j
      BY DEF NoHandler
    <3>3. j[1] \in attempts
      BY <3>1 DEF KnownInv, Touched
    <3> HIDE DEF r
    <3>4. hd' = [hd EXCEPT ![w] = r]
      BY <2>1, <2>6 DEF PollLink, r
    <3> QED
      BY <2>2, <3>2, <3>3, <3>4
  <2>7. ASSUME NEW o \in Orders, ReceiveCaptured(w, o) PROVE KnownInv'
    <3> DEFINE r == [NoHandler EXCEPT !.pc = "mark", !.order = o]
    <3>1. r.pc = "mark" /\ r.pending = {} /\ r.live = {}
      BY DEF NoHandler
    <3> HIDE DEF r
    <3>2. hd' = [hd EXCEPT ![w] = r]
      BY <2>1, <2>7 DEF ReceiveCaptured, r
    <3> QED
      BY <2>2, <3>1, <3>2 DEF JobPcs
  <2> QED
    BY <1>5, <2>4, <2>5, <2>6, <2>7 DEF Receive
<1>6. CASE World
  <2>1. ASSUME NEW j \in Jobs, NEW l, link' = [link EXCEPT ![j] = l], inflight' \subseteq inflight,
               Touched(j), UNCHANGED <<db, wk, hd>>
        PROVE  KnownInv'
    <3>1. \A k \in Jobs : link'[k] = link[k] \/ k = j
      BY <1>1, <2>1 DEF TypeOK
    <3> QED
      BY <2>1, <3>1 DEF KnownInv, Touched, Exists, db, payments
  <2>2. ASSUME NEW j \in Jobs, PayLink(j) \/ PayPart(j) \/ EndLink(j) PROVE KnownInv'
    BY <2>1, <2>2 DEF PayLink, PayPart, EndLink, Live, Touched
  <2>3. ASSUME NEW j \in Jobs, Land(j), UNCHANGED hd PROVE KnownInv'
    BY <2>1, <2>3 DEF Land, Touched
  <2>4. ASSUME NEW o \in Orders, PayElsewhere(o) PROVE KnownInv'
    BY <2>4 DEF PayElsewhere, Capture, KnownInv, Touched, Exists, db, payments
  <2>5. ASSUME NEW w \in Workers, SettlementCrash(w) PROVE KnownInv'
    <3>1. hd'[w] = NoHandler /\ (\A v \in Workers \ {w} : hd'[v] = hd[v])
      BY <2>5, MovedAt DEF SettlementCrash, Answered
    <3>2. wk'[w].pc = "idle" /\ \A v \in Workers \ {w} : wk'[v] = wk[v]
      BY <1>1, <2>5, DoneAt DEF SettlementCrash, Done, TypeOK
    <3> QED
      BY <2>5, <3>1, <3>2 DEF SettlementCrash, KnownInv, Touched, Exists, NoHandler, JobPcs, db, payments, razorpay
  <2> QED
    BY <1>6, <2>2, <2>3, <2>4, <2>5 DEF World
<1> QED
  BY <1>2, <1>3, <1>4, <1>5, <1>6 DEF SNext

LEMMA KnownCorrect == SSpec => []KnownInv
<1>1. SInit => KnownInv
  BY DEF SInit, Init, KnownInv, Touched, Exists, NoRow, Idle, NoHandler, JobPcs
<1>2. STypeInv /\ KnownInv /\ [SNext]_svars => KnownInv'
  BY KnownStep
<1> QED
  BY <1>1, <1>2, STypeCorrect, PTL DEF SSpec

-----------------------------------------------------------------------------
(* A pending row of a recorded order is about to be voided: the process that *)
(* executes it reads the order next, or the handler of the order has its     *)
(* payment or the row itself on its list.                                   *)

Stopping(h, j) == h.pc \in CancelPcs /\ (j[1] \in h.todo \/ j \in h.pending)

PaidPending ==
  \A j \in Jobs : OrderIsPaid(j) /\ job[j].status = "pending" =>
     \E w \in Workers : (wk[w].job = j /\ wk[w].pc \in {"execute", "void"}) \/ Stopping(hd[w], j)

(* Nothing becomes pending for a recorded order. *)
LEMMA PendingIsOld ==
  ASSUME ~OrderCheck, TypeOK, NEW w \in Workers, RowInHand(wk[w]), NEW j, Busy(w, j), Step(w), NEW k \in Jobs,
         OrderIsPaid(k)', job'[k].status = "pending"
  PROVE  OrderIsPaid(k) /\ job[k].status = "pending"
<1>1. j \in Jobs /\ wk[w].job = j
  BY BusyJob DEF Busy
<1>2. ~OrderCheckPaid(w) /\ ~RecoverStep(w)
  BY DEF OrderCheckPaid, RecoverStep, RecoverLookup, RecoverStaleExecution, RowInHand
<1>3. OrderIsPaid(k)
  BY <1>2 DEF OrderIsPaid, Step, ScheduleStep, Followup, InsertDuplicate, Insert, Park,
     GuardStep, Execute, VoidOrderPaid, VoidOutcome,
     StubTokenRetry, RefuseLocally, ClaimForExecution, ClaimRefused, FinishStep, FinishSent, FinishClosed,
     FinishThrottled, Reconcile, FinishOther, Close, SendStep, FinishShadow, SendSubscriptionPage,
     OrderCheckPasses, EarlierLanded, EarlierNone, Superseded, CreateLink, CreateDuplicate, CreateRefused,
     OfferRejected, CreateUnanswered, FinishDuplicate, RecordResult, db, payments
<1> SUFFICES job[k].status = "pending"
  BY <1>3
<1>4. ASSUME NEW i \in Jobs, NEW status, status # "pending", NEW kind, NEW linked \in BOOLEAN, Commit(i, status, kind, linked)
      PROVE  job[k].status = "pending"
  BY <1>4, CommitAt
<1>5. CASE Insert(w)
  <2>1. PICK status \in ScheduleStatuses(j, wk[w].answer) : job' = [job EXCEPT ![j] = [NoRow EXCEPT !.status = status]]
    BY <1>1, <1>5 DEF Insert
  <2>2. CASE k = j
    <3>1. job'[j].status = status
      BY <1>1, <2>1 DEF TypeOK, NoRow
    <3> QED
      BY <1>3, <2>1, <2>2, <3>1 DEF ScheduleStatuses, Parked
  <2>3. CASE k # j
    BY <1>1, <2>1, <2>3 DEF TypeOK
  <2> QED
    BY <2>2, <2>3
<1>6. CASE ScheduleStep(w) /\ ~Insert(w)
  BY <1>6 DEF ScheduleStep, Followup, InsertDuplicate, Park, db
<1>7. CASE GuardStep(w)
  <2>1. CASE ClaimForExecution(w)
    BY <1>1, <2>1 DEF ClaimForExecution, TypeOK, Row
  <2> QED
    BY <1>1, <1>4, <1>7, <2>1 DEF GuardStep, Execute, VoidOrderPaid, VoidOutcome, StubTokenRetry, RefuseLocally,
       ClaimRefused, db
<1>8. CASE EarlierLanded(w)
  BY <1>1, <1>4, <1>8, SuspectsAreJobs DEF EarlierLanded, LandedSuspects
<1>9. CASE RecordResult(w)
  BY <1>1, <1>4, <1>9 DEF RecordResult, RowInHand
<1>10. CASE FinishDuplicate(w)
  BY <1>1, <1>4, <1>10 DEF FinishDuplicate
<1>11. CASE SendStep(w) /\ ~EarlierLanded(w) /\ ~RecordResult(w) /\ ~FinishDuplicate(w)
  BY <1>1, <1>2, <1>4, <1>11 DEF SendStep, FinishShadow, SendSubscriptionPage, OrderCheckPasses,
     EarlierNone, Superseded, CreateLink, CreateDuplicate, CreateRefused, OfferRejected, CreateUnanswered, db
<1>12. CASE FinishStep(w)
  <2>1. CASE FinishSent(w)
    BY <1>1, <2>1 DEF FinishSent, TypeOK, Row
  <2> QED
    BY <1>1, <1>4, <1>12, <2>1 DEF FinishStep, FinishClosed, FinishThrottled, Reconcile, FinishOther, Close, db
<1> QED
  BY <1>2, <1>3, <1>5, <1>6, <1>7, <1>8, <1>9, <1>10, <1>11, <1>12 DEF Step

LEMMA ExecutionPending ==
  ASSUME Serial, ~OrderCheck, STypeInv, HandsInv, PaidPending, NEW w \in Workers, Execution(w)
  PROVE  PaidPending'
<1>1. TypeOK /\ UNCHANGED hd /\ hd[w] = NoHandler /\ RowInHand(wk[w]) /\ Workers = {w}
  BY DEF STypeInv, Execution, HandsInv, Serial
<1>2. ASSUME NEW k \in Jobs, OrderIsPaid(k), job[k].status = "pending"
      PROVE  wk[w].job = k /\ wk[w].pc \in {"execute", "void"}
  BY <1>1, <1>2 DEF PaidPending, Stopping, NoHandler, CancelPcs
<1>3. CASE Begin(w)
  <2>1. wk[w].pc = "idle" /\ UNCHANGED <<job, orderPaid>>
    BY <1>3 DEF Begin, ProcessAttempt, Sweep, db, payments
  <2> QED
    BY <1>2, <2>1 DEF PaidPending, OrderIsPaid
<1>4. CASE Step(w)
  <2>1. Busy(w, wk[w].job)
    BY <1>1, <1>4, StepIsBusy
  <2>2. PICK j : Busy(w, j)
    BY <2>1
  <2>3. j \in Jobs /\ wk[w].job = j
    BY <1>1, <2>2, BusyJob DEF Busy
  <2>4. SUFFICES ASSUME NEW k \in Jobs, OrderIsPaid(k)', job'[k].status = "pending"
                 PROVE  wk'[w].job = k /\ wk'[w].pc \in {"execute", "void"}
    BY <1>1 DEF PaidPending
  <2>5. OrderIsPaid(k) /\ job[k].status = "pending"
    BY <1>1, <1>4, <2>2, <2>4, PendingIsOld
  <2>6. k = j /\ wk[w].pc \in {"execute", "void"}
    BY <1>2, <2>3, <2>5
  <2>7. Execute(w) \/ VoidOrderPaid(w)
    BY <1>4, <2>6 DEF Step, ScheduleStep, Followup, InsertDuplicate, Insert, Park,
     RecoverStep, RecoverLookup, RecoverStaleExecution, GuardStep, VoidOutcome,
     StubTokenRetry, RefuseLocally, ClaimForExecution, ClaimRefused, FinishStep, FinishSent, FinishClosed,
     FinishThrottled, Reconcile, FinishOther, Close, SendStep, FinishShadow, SendSubscriptionPage, OrderCheckPaid,
     OrderCheckPasses, EarlierLanded, EarlierNone, Superseded, CreateLink, CreateDuplicate, CreateRefused,
     OfferRejected, CreateUnanswered, FinishDuplicate, RecordResult
  <2>8. ~VoidOrderPaid(w)
    <3>1. ASSUME Commit(j, "no_action", "none", FALSE) PROVE FALSE
      <4>1. job'[j].status = "no_action"
        BY <1>1, <2>3, <3>1, CommitAt
      <4> QED
        BY <2>4, <2>6, <4>1
    <3> QED
      BY <2>3, <3>1 DEF VoidOrderPaid
  <2>9. GotoWith(w, "void", job[j].status, job[j].kind)
    BY <2>3, <2>5, <2>6, <2>7, <2>8 DEF Execute, Terminal
  <2> QED
    BY <1>1, <2>3, <2>6, <2>9, GotoWithAt
<1> QED
  BY <1>1, <1>3, <1>4 DEF Execution

(* What the handler of an order still has to void stays on its list. *)
LEMMA StoppingGoesOn ==
  ASSUME STypeInv, NEW w \in Workers, NEW h, h = hd[w], SettleStep(w), NEW j \in Jobs, Stopping(h, j),
         job[j].status = "pending", job'[j].status = "pending"
  PROVE  Stopping(hd[w], j)'
<1>1. TypeOK /\ h \in HandlerState /\ h.pending \subseteq Jobs /\ h.live \subseteq Jobs /\ h.pc \in CancelPcs
  BY DEF STypeInv, HandlerTypeOK, HandlerState, Stopping
<1>2. ASSUME hd'[w].pc \in CancelPcs, hd'[w].todo = h.todo, j \in h.pending => j \in hd'[w].pending
      PROVE  Stopping(hd[w], j)'
  BY <1>2 DEF Stopping
<1>3. CASE TakeAttempt(w)
  <2>1. PICK p \in h.todo :
          hd' = [hd EXCEPT ![w] = [@ EXCEPT !.todo = h.todo \ {p}, !.pending = PendingOf(p), !.live = LiveOf(p)]]
    BY <1>3 DEF TakeAttempt
  <2> DEFINE r == [h EXCEPT !.todo = h.todo \ {p}, !.pending = PendingOf(p), !.live = LiveOf(p)]
  <2>2. r.pc = "attempt" /\ r.todo = h.todo \ {p} /\ r.pending = PendingOf(p) /\ hd' = [hd EXCEPT ![w] = r]
    BY <1>1, <1>3, <2>1 DEF HandlerState, TakeAttempt
  <2> HIDE DEF r
  <2>3. hd'[w].pc = "attempt" /\ hd'[w].todo = h.todo \ {p} /\ hd'[w].pending = PendingOf(p)
    BY <2>2, MovedAt
  <2>4. j[1] \in h.todo
    BY <1>3 DEF Stopping, TakeAttempt
  <2>5. j[1] \in h.todo \ {p} \/ j \in PendingOf(p)
    BY <2>4 DEF PendingOf
  <2> QED
    BY <2>3, <2>5 DEF Stopping, CancelPcs
<1>4. CASE VoidPending(w)
  <2>1. PICK i \in h.pending : i = First(h.pending)
    BY <1>1, <1>4, FirstIsMember DEF VoidPending
  <2> DEFINE r == [h EXCEPT !.pc = "closed", !.job = i, !.pending = h.pending \ {i}]
  <2>2. r.pc = "closed" /\ r.todo = h.todo /\ r.pending = h.pending \ {i} /\ hd' = [hd EXCEPT ![w] = r]
    BY <1>1, <1>4, <2>1 DEF HandlerState, VoidPending
  <2> HIDE DEF r
  <2>3. job'[i].status = "no_action"
    BY <1>1, <1>4, <2>1, CommitAt DEF VoidPending
  <2>4. hd'[w].pc = "closed" /\ hd'[w].todo = h.todo /\ hd'[w].pending = h.pending \ {i}
    BY <2>2, MovedAt
  <2> QED
    BY <1>2, <2>3, <2>4 DEF CancelPcs
<1>5. CASE CancelLink(w)
  <2>0. PICK i : i = First(h.live)
    OBVIOUS
  <2>1. PICK pc \in {"cancelled", "parked"} :
          hd' = [hd EXCEPT ![w] = [@ EXCEPT !.pc = pc, !.job = i, !.live = h.live \ {i}]]
    BY <1>5, <2>0 DEF CancelLink
  <2> DEFINE r == [h EXCEPT !.pc = pc, !.job = i, !.live = h.live \ {i}]
  <2>2. r.pc = pc /\ r.todo = h.todo /\ r.pending = h.pending /\ hd' = [hd EXCEPT ![w] = r]
    BY <1>1, <2>1 DEF HandlerState
  <2> HIDE DEF r
  <2>3. hd'[w].pc = pc /\ hd'[w].todo = h.todo /\ hd'[w].pending = h.pending
    BY <2>2, MovedAt
  <2> QED
    BY <1>2, <2>3 DEF CancelPcs
<1>6. CASE CancelSkipped(w)
  <2> DEFINE r == [h EXCEPT !.live = h.live \ {First(h.live)}]
  <2>1. r.pc = "attempt" /\ r.todo = h.todo /\ r.pending = h.pending /\ hd' = [hd EXCEPT ![w] = r]
    BY <1>1, <1>6 DEF HandlerState, CancelSkipped
  <2> HIDE DEF r
  <2>2. hd'[w].pc = "attempt" /\ hd'[w].todo = h.todo /\ hd'[w].pending = h.pending
    BY <2>1, MovedAt
  <2> QED
    BY <1>2, <2>2 DEF CancelPcs
<1>7. CASE RecordCancel(w)
  BY <1>2, <1>7, HandleAt DEF RecordCancel, CancelPcs
<1>8. CASE CloseStopped(w)
  <2> DEFINE r == [h EXCEPT !.pc = "attempt", !.job = NoJob]
  <2>1. r.pc = "attempt" /\ r.todo = h.todo /\ r.pending = h.pending /\ hd' = [hd EXCEPT ![w] = r]
    BY <1>1, <1>8 DEF HandlerState, CloseStopped
  <2> HIDE DEF r
  <2>2. hd'[w].pc = "attempt" /\ hd'[w].todo = h.todo /\ hd'[w].pending = h.pending
    BY <2>1, MovedAt
  <2> QED
    BY <1>2, <2>2 DEF CancelPcs
<1>9. ~AttemptsDone(w)
  BY DEF AttemptsDone, Stopping
<1> QED
  BY <1>1, <1>3, <1>4, <1>5, <1>6, <1>7, <1>8, <1>9 DEF SettleStep, CancelPcs, PaidIgnored, PaidChecked, ClosePaidLink,
     MarkOrderPaid, ExpiredIgnored, ExpiredChecked, StillOpen, FetchLink, RecordSeen, ExpiryFollowup

(* mark_order_paid records an order that has an attempt row with its order   *)
(* id, and then stops every attempt that is stored for it.                   *)
LEMMA MarkFindsAll ==
  ASSUME NEW w \in Workers, NEW p \in attempts \cap Payments, MarkOrderPaid(w), OrderOf[p] \notin orderPaid,
         OrderOf[p] \in orderPaid'
  PROVE  /\ p \in AttemptsOf(hd[w].order)
         /\ hd' = [hd EXCEPT ![w] = [@ EXCEPT !.pc = "attempt", !.todo = AttemptsOf(hd[w].order)]]
<1>1. /\ AttemptsOf(hd[w].order) # {} /\ orderPaid' = orderPaid \cup {hd[w].order}
      /\ hd' = [hd EXCEPT ![w] = [@ EXCEPT !.pc = "attempt", !.todo = AttemptsOf(hd[w].order)]]
  BY DEF MarkOrderPaid
<1>2. OrderOf[p] = hd[w].order
  BY <1>1
<1>3. PICK q \in Ordered : OrderOf[q] = hd[w].order
  BY <1>1 DEF AttemptsOf
<1>4. p \in Ordered
  BY <1>2, <1>3, SettlementAssumption
<1> QED
  BY <1>1, <1>2, <1>4 DEF AttemptsOf

LEMMA SettlePending ==
  ASSUME Serial, STypeInv, KnownInv, PaidPending, NEW w \in Workers, SettleStep(w)
  PROVE  PaidPending'
<1>1. /\ TypeOK /\ Workers = {w} /\ wk[w] = Idle /\ hd[w] \in HandlerState
      /\ \A j \in Jobs : job'[j].status = "pending" => job[j].status = "pending"
  BY SettleClaimsNothing DEF STypeInv, Serial, HandlerTypeOK
<1>2. SUFFICES ASSUME NEW j \in Jobs, OrderIsPaid(j)', job'[j].status = "pending"
               PROVE  Stopping(hd[w], j)'
  BY <1>1 DEF PaidPending
<1>3. job[j].status = "pending"
  BY <1>1, <1>2
<1>4. CASE OrderIsPaid(j)
  <2>1. Stopping(hd[w], j)
    BY <1>1, <1>3, <1>4, IdleType DEF PaidPending
  <2>2. ASSUME NEW h, h = hd[w] PROVE Stopping(hd[w], j)'
    BY <1>2, <1>3, <2>1, <2>2, StoppingGoesOn
  <2> QED
    BY <2>2
<1>5. CASE ~OrderIsPaid(j)
  <2>1. MarkOrderPaid(w)
    BY <1>2, <1>5 DEF OrderIsPaid, SettleStep, PaidIgnored, PaidChecked, ClosePaidLink, TakeAttempt,
           AttemptsDone, VoidPending, CancelLink, CancelSkipped, RecordCancel, CloseStopped, ExpiredIgnored,
           ExpiredChecked, StillOpen, FetchLink, RecordSeen, ExpiryFollowup, vars, db, payments
  <2>2. j[1] \in attempts \cap Payments
    BY <1>3 DEF KnownInv, Touched, Exists, Jobs
  <2>3. OrderOf[j[1]] \notin orderPaid /\ OrderOf[j[1]] \in orderPaid'
    BY <1>2, <1>5 DEF OrderIsPaid
  <2>4. /\ j[1] \in AttemptsOf(hd[w].order)
        /\ hd' = [hd EXCEPT ![w] = [@ EXCEPT !.pc = "attempt", !.todo = AttemptsOf(hd[w].order)]]
    BY <2>1, <2>2, <2>3, MarkFindsAll
  <2> DEFINE r == [hd[w] EXCEPT !.pc = "attempt", !.todo = AttemptsOf(hd[w].order)]
  <2>5. r.pc = "attempt" /\ j[1] \in r.todo /\ hd' = [hd EXCEPT ![w] = r]
    BY <1>1, <2>4 DEF HandlerState
  <2> HIDE DEF r
  <2>6. hd'[w].pc = "attempt" /\ j[1] \in hd'[w].todo
    BY <2>5, MovedAt
  <2> QED
    BY <2>6 DEF Stopping, CancelPcs
<1> QED
  BY <1>4, <1>5

LEMMA PaidPendingStep ==
  ASSUME Serial, ~Crashes, ~OrderCheck, STypeInv, HandsInv, KnownInv, PaidPending, [SNext]_svars
  PROVE  PaidPending'
<1>1. CASE UNCHANGED svars
  BY <1>1 DEF PaidPending, Stopping, OrderIsPaid, svars, vars
<1>2. ASSUME NEW w \in Workers, Execution(w) PROVE PaidPending'
  BY <1>2, ExecutionPending
<1>3. ASSUME NEW w \in Workers, SettleStep(w) PROVE PaidPending'
  BY <1>3, SettlePending
<1>4. ASSUME NEW w \in Workers, Receive(w) PROVE PaidPending'
  <2>1. UNCHANGED <<job, orderPaid>> /\ hd[w] = NoHandler /\ wk[w] = Idle /\ Workers = {w}
    BY <1>4 DEF Receive, ReceivePaid, ReceiveExpired, PollLink, ReceiveCaptured, Free, vars, Serial
  <2>2. \A j \in Jobs : ~(OrderIsPaid(j) /\ job[j].status = "pending")
    BY <2>1, IdleType DEF PaidPending, Stopping, NoHandler, CancelPcs
  <2> QED
    BY <2>1, <2>2 DEF PaidPending, OrderIsPaid
<1>5. CASE World
  BY <1>5 DEF World, PayLink, PayPart, EndLink, Land, PayElsewhere, Capture, SettlementCrash, db, payments,
     PaidPending, Stopping, OrderIsPaid
<1> QED
  BY <1>1, <1>2, <1>3, <1>4, <1>5 DEF SNext

LEMMA PaidPendingCorrect ==
  ASSUME Serial, ~Crashes, ~OrderCheck
  PROVE  SSpec => []PaidPending
<1>1. SInit => PaidPending
  BY DEF SInit, Init, PaidPending, NoRow
<1>2. STypeInv /\ HandsInv /\ KnownInv /\ PaidPending /\ [SNext]_svars => PaidPending'
  BY PaidPendingStep
<1> QED
  BY <1>1, <1>2, STypeCorrect, HandsCorrect, KnownCorrect, PTL DEF SSpec

(* Whatever was scheduled when the event of the order arrived, and whatever  *)
(* is scheduled for it later: once the handler is done no job of a recorded  *)
(* order is pending.  With requests that land late, too.                     *)
THEOREM PaidOrderIsCleared ==
  ASSUME Serial, ~Crashes, ~OrderCheck
  PROVE  SSpec => []PaidOrderNothingPending
<1>1. PaidPending => PaidOrderNothingPending
  BY IdleType DEF PaidPending, PaidOrderNothingPending, OrderIsPaid, AllFree, Free, Stopping, NoHandler, CancelPcs
<1> QED
  BY <1>1, PaidPendingCorrect, PTL


-----------------------------------------------------------------------------
(* Nothing goes out for a recorded order. *)

(* A row that becomes sent is of the payment whose job is on its way out. *)
LEMMA SentByItsSender ==
  ASSUME TypeOK, NEW w \in Workers, RowInHand(wk[w]), NEW j, Busy(w, j), Step(w), NEW k \in Jobs,
         job'[k].status = "sent", job[k].status # "sent"
  PROVE  k[1] = j[1] /\ wk[w].pc \in OutgoingPcs
<1>1. j \in Jobs /\ wk[w].job = j
  BY BusyJob DEF Busy
<1>2. ~RecoverStep(w)
  BY DEF RecoverStep, RecoverLookup, RecoverStaleExecution, RowInHand
<1>3. ASSUME NEW i \in Jobs, i[1] = j[1], NEW status, NEW kind, NEW linked \in BOOLEAN, Commit(i, status, kind, linked)
      PROVE  k[1] = j[1] /\ status = "sent"
  BY <1>3, CommitAt
<1>4. job' # job
  OBVIOUS
<1>5. ~ScheduleStep(w)
  <2>1. ASSUME Insert(w) PROVE FALSE
    <3>1. PICK status \in ScheduleStatuses(j, wk[w].answer) : job' = [job EXCEPT ![j] = [NoRow EXCEPT !.status = status]]
      BY <1>1, <2>1 DEF Insert
    <3>2. job'[j].status = status /\ \A i \in Jobs \ {j} : job'[i] = job[i]
      BY <1>1, <3>1 DEF TypeOK, NoRow
    <3>3. status # "sent"
      BY <3>1 DEF ScheduleStatuses, Parked
    <3> QED
      BY <3>2, <3>3
  <2> QED
    BY <1>4, <2>1 DEF ScheduleStep, Followup, InsertDuplicate, Park, db
<1>6. ~GuardStep(w)
  <2>1. ASSUME ClaimForExecution(w) PROVE FALSE
    <3>1. job'[j].status = "executing" /\ \A i \in Jobs \ {j} : job'[i] = job[i]
      BY <1>1, <2>1 DEF ClaimForExecution, TypeOK, Row
    <3> QED
      BY <3>1
  <2>2. ASSUME VoidOrderPaid(w) \/ StubTokenRetry(w) \/ RefuseLocally(w) PROVE FALSE
    <3>1. PICK status \in {"no_action", "stubbed", "failed"}, kind \in {"none", "local_guard"} : Commit(j, status, kind, FALSE)
      BY <1>1, <2>2 DEF VoidOrderPaid, StubTokenRetry, RefuseLocally
    <3> QED
      BY <1>1, <1>3, <3>1
  <2> QED
    BY <1>4, <2>1, <2>2 DEF GuardStep, Execute, VoidOutcome, ClaimRefused, db
<1>7. CASE FinishStep(w)
  <2>1. ASSUME FinishSent(w) PROVE FALSE
    <3>1. job'[j].status = job[j].status /\ \A i \in Jobs \ {j} : job'[i] = job[i]
      BY <1>1, <2>1 DEF FinishSent, TypeOK, Row
    <3> QED
      BY <3>1
  <2>2. wk[w].pc = "finish" /\ Commit(j, "sent", "none", TRUE)
    BY <1>1, <1>4, <1>7, <2>1 DEF FinishStep, FinishClosed, FinishThrottled, Reconcile, FinishOther, Close, db
  <2> QED
    BY <1>1, <1>3, <2>2 DEF OutgoingPcs
<1>8. CASE EarlierLanded(w)
  <2>1. PICK i \in LandedSuspects(j) : Commit(i, "sent", "none", TRUE)
    BY <1>1, <1>8 DEF EarlierLanded
  <2>2. i \in Suspects(j) /\ Suspects(j) \subseteq Jobs
    BY <1>1, SuspectsAreJobs DEF LandedSuspects
  <2>3. PICK s \in 1..(j[2] - 1) : i = <<j[1], s>>
    BY <2>2 DEF Suspects, AmbiguousFailures
  <2>4. i \in Jobs /\ i[1] = j[1] /\ wk[w].pc = "earlier"
    BY <1>8, <2>2, <2>3 DEF EarlierLanded
  <2> QED
    BY <1>3, <2>1, <2>4 DEF OutgoingPcs
<1>9. CASE SendStep(w) /\ ~EarlierLanded(w)
  <2>1. /\ wk[w].pc \in {"shadow", "direct", "superseded", "duplicate", "record"}
        /\ \E linked \in BOOLEAN : \E status, kind : Commit(j, status, kind, linked)
    BY <1>1, <1>4, <1>9 DEF SendStep, FinishShadow, SendSubscriptionPage, OrderCheckPaid, OrderCheckPasses,
       EarlierNone, Superseded, CreateLink, CreateDuplicate, CreateRefused, OfferRejected, CreateUnanswered,
       FinishDuplicate, RecordResult, db
  <2>2. PICK linked \in BOOLEAN : \E status, kind : Commit(j, status, kind, linked)
    BY <2>1
  <2>3. PICK status, kind : Commit(j, status, kind, linked)
    BY <2>2
  <2> QED
    BY <1>1, <1>3, <2>1, <2>3 DEF OutgoingPcs
<1> QED
  BY <1>2, <1>5, <1>6, <1>7, <1>8, <1>9 DEF Step

(* A handler repairs a row to sent only for a link that was paid. *)
LEMMA SentWhenPaid ==
  ASSUME STypeInv, MoneyInv, NEW w \in Workers, SettleStep(w), NEW k \in Jobs, job'[k].status = "sent", job[k].status # "sent"
  PROVE  Collected(k)'
<1>1. PICK h, j : Handling(w, h, j)
  BY SettleIsHandling
<1>2. TypeOK /\ hd[w] = h /\ h.job = j /\ (h.pc \in JobPcs => j \in Jobs) /\ h.pending \subseteq Jobs
  BY <1>1 DEF STypeInv, HandlerTypeOK, HandlerState, Handling
<1>3. job' # job
  OBVIOUS
<1>4. ~VoidPending(w)
  <2>1. ASSUME VoidPending(w) PROVE FALSE
    <3>1. PICK i \in h.pending : i = First(h.pending)
      BY <1>2, <2>1, FirstIsMember DEF VoidPending
    <3>2. i \in Jobs /\ Commit(i, "no_action", "none", FALSE)
      BY <1>2, <2>1, <3>1 DEF VoidPending
    <3>3. job'[i].status = "no_action" /\ \A l \in Jobs \ {i} : job'[l] = job[l]
      BY <1>2, <3>2, CommitAt
    <3> QED
      BY <3>3
  <2> QED
    BY <2>1
<1>5. ~RecordCancel(w)
  <2>1. ASSUME RecordCancel(w) PROVE FALSE
    <3>1. PICK status \in {"cancelled", "human_queue"} : Commit(j, status, "none", FALSE)
      BY <1>2, <2>1 DEF RecordCancel
    <3>2. j \in Jobs
      BY <1>2, <2>1 DEF RecordCancel, JobPcs
    <3>3. job'[j].status = status /\ \A l \in Jobs \ {j} : job'[l] = job[l]
      BY <1>2, <3>1, <3>2, CommitAt
    <3> QED
      BY <3>1, <3>3
  <2> QED
    BY <2>1
<1>6. ~RecordSeen(w)
  <2>1. ASSUME RecordSeen(w) PROVE FALSE
    <3>1. j \in Jobs /\ job' = [job EXCEPT ![j].link = TRUE]
      BY <1>2, <2>1 DEF RecordSeen, JobPcs
    <3>2. job'[j].status = job[j].status /\ \A i \in Jobs \ {j} : job'[i] = job[i]
      BY <1>2, <3>1 DEF TypeOK, Row
    <3> QED
      BY <3>2
  <2> QED
    BY <2>1
<1>7. ClosePaidLink(w)
  BY <1>3, <1>4, <1>5, <1>6 DEF SettleStep, PaidIgnored, PaidChecked, MarkOrderPaid, TakeAttempt,
           AttemptsDone, CancelLink, CancelSkipped, CloseStopped, ExpiredIgnored,
           ExpiredChecked, StillOpen, FetchLink, ExpiryFollowup, vars, db
<1>8. h.pc = "recovered" /\ j \in Jobs /\ UNCHANGED link /\ Commit(j, "sent", job[j].kind, TRUE)
  BY <1>2, <1>3, <1>7 DEF ClosePaidLink, JobPcs, razorpay
<1>9. k = j
  BY <1>2, <1>8, CommitAt
<1> QED
  BY <1>2, <1>8, <1>9 DEF MoneyInv, HandlerMoney, Collected

(* Under the lock of serve no job of a recorded order becomes sent while its *)
(* link can still be paid: not by the create call, by the lookup of an       *)
(* earlier or a duplicate link, by the reconcile or by a repair; a repair    *)
(* for a part payment is the one exception, so no link takes one here.       *)
THEOREM PaidOrderSendsNothing ==
  ASSUME Serial, ~Crashes, Offered = {}
  PROVE  SSpec => NothingGoesOutAfterPaid
<1>1. STypeInv /\ HandsInv /\ MoneyInv /\ MoneyInv' /\ [SNext]_svars
        => [\A j \in Jobs : job'[j].status = "sent" /\ job[j].status # "sent" /\ link'[j] \in {"created", "partial"}
              => OrderOf[j[1]] \notin orderPaid]_svars
  <2> SUFFICES ASSUME STypeInv, HandsInv, MoneyInv, MoneyInv', [SNext]_svars, NEW k \in Jobs, job'[k].status = "sent",
                      job[k].status # "sent", link'[k] \in {"created", "partial"}
               PROVE  ~OrderIsPaid(k)
    BY DEF OrderIsPaid
  <2>1. job' # job
    OBVIOUS
  <2>2. ASSUME NEW w \in Workers, Execution(w) PROVE ~OrderIsPaid(k)
    <3>1. TypeOK /\ RowInHand(wk[w]) /\ Step(w)
      BY <2>1, <2>2 DEF Execution, Begin, ProcessAttempt, Sweep, db, STypeInv, HandsInv
    <3>2. PICK j : Busy(w, j)
      BY <3>1, StepIsBusy
    <3>3. k[1] = j[1] /\ wk[w].pc \in OutgoingPcs
      BY <3>1, <3>2, SentByItsSender
    <3> QED
      BY <3>1, <3>2, <3>3 DEF RowInHand, Busy, OrderIsPaid
  <2>3. ASSUME NEW w \in Workers, SettleStep(w) PROVE FALSE
    <3>1. Collected(k)'
      BY <2>3, SentWhenPaid
    <3>2. link'[k] # "partial"
      BY DEF MoneyInv
    <3> QED
      BY <3>1, <3>2 DEF Collected
  <2>4. ~World /\ \A w \in Workers : ~Receive(w)
    BY <2>1 DEF World, PayLink, PayPart, EndLink, Land, PayElsewhere, Capture, SettlementCrash, Receive, ReceivePaid,
       ReceiveExpired, PollLink, ReceiveCaptured, db, vars
  <2>5. SNext
    BY <2>1 DEF svars, vars
  <2> QED
    BY <2>2, <2>3, <2>4, <2>5 DEF SNext
<1> QED
  BY <1>1, STypeCorrect, HandsCorrect, MoneyCorrect, PTL DEF SSpec, NothingGoesOutAfterPaid


-----------------------------------------------------------------------------
(* A link that can be paid and has no outcome is never out of sight: its row *)
(* says so (and the handler of a recorded order has it on its list), or the  *)
(* process that made the request is still on its way to say so, or the       *)
(* handler that could not cancel it is about to hand it to a person.         *)

SentLink(j) == job[j].status = "sent" /\ job[j].link
Cancelling(h, j) == h.pc \in CancelPcs /\ (j[1] \in h.todo \/ j \in h.live)
Asking(r, j) == r.job = j /\ r.pc \in {"create", "duplicate", "record", "finish", "close"}
GivingUp(h, j) == h.job = j /\ h.pc \in {"cancelled", "parked", "closed"}

LinkInHand(j) ==
  \/ SentLink(j) /\ (OrderIsPaid(j) => \E w \in Workers : Cancelling(hd[w], j))
  \/ \E w \in Workers : Asking(wk[w], j) \/ GivingUp(hd[w], j)

(* finish_job is called with the row as it was committed. *)
FinishKnows(r) ==
  r.pc = "finish" =>
    /\ r.status \in {"sent", "shadow", "stubbed", "failed", "human_queue"}
    /\ r.status = "sent" /\ link[r.job] # "none" => SentLink(r.job)
    /\ r.status = "shadow" => link[r.job] = "none"

LinksInHand ==
  /\ \A j \in Jobs : Live(j) /\ outcome[j] = <<>> => LinkInHand(j)
  /\ \A w \in Workers : FinishKnows(wk[w])

LEMMA FinishKnowsStep ==
  ASSUME TypeOK, NEW w \in Workers, NEW j, Busy(w, j), Step(w), RowInHand(wk[w]), WorkerInTurn(wk[w]), FinishKnows(wk[w]),
         wk'[w].pc = "finish"
  PROVE  FinishKnows(wk[w])'
<1>1. j \in Jobs /\ wk[w].job = j /\ wk[w] \in WorkerState /\ wk \in [Workers -> WorkerState]
  BY BusyJob DEF Busy
<1>0. ASSUME NEW pc, pc # "finish" PROVE ~Goto(w, pc) /\ \A status, kind : ~GotoWith(w, pc, status, kind)
  <2>1. ~Goto(w, pc)
    BY <1>0, GotoAt
  <2>2. ASSUME NEW status, NEW kind, GotoWith(w, pc, status, kind) PROVE FALSE
    BY <1>0, <2>2, GotoWithAt
  <2> QED
    BY <2>1, <2>2
<1>2. ~RecoverStep(w)
  BY DEF RecoverStep, RecoverLookup, RecoverStaleExecution, RowInHand
<1>3. ASSUME NEW status, NEW kind, NEW linked \in BOOLEAN, Commit(j, status, kind, linked), wk'[w].job = j, wk'[w].status = status,
             status \in {"stubbed", "failed", "human_queue"} \/ (status = "sent" /\ linked)
               \/ (status \in {"sent", "shadow"} /\ link'[j] = "none")
      PROVE  FinishKnows(wk[w])'
  <2>1. job'[j].status = status /\ job'[j].link = (job[j].link \/ linked)
    BY <1>1, <1>3, CommitAt
  <2> QED
    BY <1>3, <2>1 DEF FinishKnows, SentLink
<1>4. ~ScheduleStep(w)
  <2>1. ~(Followup(w) \/ InsertDuplicate(w) \/ Park(w))
    BY <1>1, DoneAt DEF Followup, Idle, InsertDuplicate, Park
  <2>2. ASSUME Insert(w) PROVE FALSE
    <3>1. Done(w) \/ \E pc \in {"park", "execute"} : \E status : GotoWith(w, pc, status, "none")
      BY <2>2 DEF Insert
    <3> QED
      BY <1>1, <3>1, DoneAt, GotoWithAt
  <2> QED
    BY <2>1, <2>2 DEF ScheduleStep
<1>5. CASE GuardStep(w)
  <2>1. ~Execute(w)
    <3>1. ASSUME Execute(w) PROVE FALSE
      <4>1. job[j].status = "pending"
        BY <1>1, <3>1 DEF Execute, RowInHand, PendingPcs
      <4>2. PICK next \in {"void", "stub", "refuse", "claim"} : GotoWith(w, next, job[j].status, job[j].kind)
        BY <1>1, <3>1, <4>1 DEF Execute, Terminal
      <4> QED
        BY <1>1, <4>2, GotoWithAt
    <3> QED
      BY <3>1
  <2>2. ~(VoidOrderPaid(w) \/ VoidOutcome(w) \/ ClaimRefused(w))
    BY <1>0, <1>1, DoneAt DEF VoidOrderPaid, VoidOutcome, ClaimRefused, RowInHand, PendingPcs
  <2>3. ~ClaimForExecution(w)
    <3>1. ASSUME ClaimForExecution(w) PROVE FALSE
      <4>1. PICK pc \in {"shadow", "direct", "check"} : GotoWith(w, pc, "executing", "none")
        BY <1>1, <3>1 DEF ClaimForExecution
      <4> QED
        BY <1>1, <4>1, GotoWithAt
    <3> QED
      BY <3>1
  <2>4. PICK status \in {"stubbed", "failed"}, kind \in {"none", "local_guard"} :
          Commit(j, status, kind, FALSE) /\ GotoWith(w, "finish", status, kind)
    BY <1>1, <1>5, <2>1, <2>2, <2>3 DEF GuardStep, StubTokenRetry, RefuseLocally
  <2> QED
    BY <1>1, <1>3, <2>4, GotoWithAt
<1>6. CASE FinishShadow(w) \/ SendSubscriptionPage(w)
  <2>1. link'[j] = "none"
    BY <1>1, <1>6 DEF FinishShadow, SendSubscriptionPage, WorkerInTurn, razorpay
  <2>2. PICK status \in {"shadow", "sent"} : Commit(j, status, "none", FALSE) /\ GotoWith(w, "finish", status, "none")
    BY <1>1, <1>6 DEF FinishShadow, SendSubscriptionPage
  <2>3. wk'[w].job = j /\ wk'[w].status = status
    BY <1>1, <2>2, GotoWithAt
  <2> QED
    BY <1>3, <2>1, <2>2, <2>3
<1>7. CASE FinishDuplicate(w)
  <2>1. PICK answer \in LookupByReference(j) :
          LET status == IF answer = "found" THEN "sent" ELSE "human_queue"
          IN  Commit(j, status, "none", answer = "found") /\ GotoWith(w, "finish", status, "none")
    BY <1>1, <1>7 DEF FinishDuplicate
  <2>2. CASE answer = "found"
    <3>1. Commit(j, "sent", "none", TRUE) /\ GotoWith(w, "finish", "sent", "none")
      BY <2>1, <2>2
    <3> QED
      BY <1>1, <1>3, <3>1, GotoWithAt
  <2>3. CASE answer # "found"
    <3>1. Commit(j, "human_queue", "none", FALSE) /\ GotoWith(w, "finish", "human_queue", "none")
      BY <2>1, <2>3
    <3> QED
      BY <1>1, <1>3, <3>1, GotoWithAt
  <2> QED
    BY <2>2, <2>3
<1>8. CASE RecordResult(w)
  <2>1. Commit(j, wk[w].status, wk[w].kind, wk[w].status = "sent") /\ Goto(w, "finish")
    BY <1>1, <1>8 DEF RecordResult
  <2>2. wk[w].status \in {"sent", "failed"}
    BY <1>8 DEF RecordResult, RowInHand
  <2> QED
    BY <1>1, <1>3, <2>1, <2>2, GotoAt
<1>9. CASE SendStep(w) /\ ~(FinishShadow(w) \/ SendSubscriptionPage(w) \/ FinishDuplicate(w) \/ RecordResult(w))
  <2>1. CASE CreateRefused(w) \/ CreateUnanswered(w)
    <3>1. wk[w].pc = "create" /\ \E kind : AfterFailure(w, kind)
      BY <2>1 DEF CreateRefused, CreateUnanswered
    <3> QED
      BY <1>1, <3>1, AfterFailureAt
  <2>2. CASE EarlierNone(w) \/ OfferRejected(w)
    <3>1. CASE EarlierNone(w)
      BY <1>1, <3>1 DEF EarlierNone, WorkerState
    <3>2. CASE OfferRejected(w)
      BY <1>1, <3>2 DEF OfferRejected, WorkerState
    <3> QED
      BY <2>2, <3>1, <3>2
  <2>3. CASE Superseded(w)
    BY <1>1, <2>3, DoneAt DEF Superseded
  <2>4. CASE OrderCheckPaid(w) \/ OrderCheckPasses(w) \/ EarlierLanded(w) \/ CreateLink(w) \/ CreateDuplicate(w)
    BY <1>0, <2>4 DEF OrderCheckPaid, OrderCheckPasses, EarlierLanded, CreateLink, CreateDuplicate
  <2> QED
    BY <1>9, <2>1, <2>2, <2>3, <2>4 DEF SendStep
<1>10. CASE FinishStep(w)
  <2>1. CASE Done(w) \/ \E pc \in {"close", "followup"} : Goto(w, pc)
    BY <1>1, <2>1, DoneAt, GotoAt
  <2>2. CASE Commit(j, "sent", "none", TRUE) /\ GotoWith(w, "finish", "sent", "none")
    BY <1>1, <1>3, <2>2, GotoWithAt
  <2> QED
    BY <1>1, <1>10, <2>1, <2>2 DEF FinishStep, FinishSent, FinishClosed, FinishThrottled, Reconcile, FinishOther, Close, ToClose
<1> QED
  BY <1>2, <1>4, <1>5, <1>6, <1>7, <1>8, <1>9, <1>10 DEF Step


(* A process writes its own row, and the row of an earlier attempt it found. *)
LEMMA OtherRows ==
  ASSUME TypeOK, NEW w \in Workers, NEW j, Busy(w, j), Step(w)
  PROVE  \A k \in Jobs \ {j} : job'[k] = job[k] \/ SentLink(k)'
<1>1. j \in Jobs /\ wk[w].job = j
  BY BusyJob DEF Busy
<1>2. ASSUME NEW status, NEW kind, NEW linked \in BOOLEAN, Commit(j, status, kind, linked)
      PROVE  \A k \in Jobs \ {j} : job'[k] = job[k]
  BY <1>1, <1>2, CommitAt
<1>3. ASSUME NEW r, job' = [job EXCEPT ![j] = r] PROVE \A k \in Jobs \ {j} : job'[k] = job[k]
  BY <1>1, <1>3 DEF TypeOK
<1>4. CASE UNCHANGED job
  BY <1>4
<1>5. CASE EarlierLanded(w)
  <2>1. PICK i \in LandedSuspects(j) : Commit(i, "sent", "none", TRUE)
    BY <1>1, <1>5 DEF EarlierLanded
  <2>2. i \in Jobs
    BY <1>1, <2>1, SuspectsAreJobs DEF LandedSuspects
  <2>3. job'[i].status = "sent" /\ job'[i].link /\ \A k \in Jobs \ {i} : job'[k] = job[k]
    BY <2>1, <2>2, CommitAt
  <2> QED
    BY <2>3 DEF SentLink
<1>6. CASE ScheduleStep(w)
  BY <1>1, <1>3, <1>4, <1>6 DEF ScheduleStep, Followup, InsertDuplicate, Insert, Park, db
<1>7. CASE RecoverStep(w)
  BY <1>1, <1>2, <1>4, <1>7 DEF RecoverStep, RecoverLookup, RecoverStaleExecution, db
<1>8. CASE GuardStep(w)
  BY <1>1, <1>2, <1>3, <1>4, <1>8 DEF GuardStep, Execute, VoidOrderPaid, VoidOutcome, StubTokenRetry,
     RefuseLocally, ClaimForExecution, ClaimRefused, db
<1>9. CASE SendStep(w) /\ ~EarlierLanded(w)
  BY <1>1, <1>2, <1>4, <1>9 DEF SendStep, FinishShadow, SendSubscriptionPage, OrderCheckPaid, OrderCheckPasses,
     EarlierNone, Superseded, CreateLink, CreateDuplicate, CreateRefused, OfferRejected, CreateUnanswered,
     FinishDuplicate, RecordResult, db
<1>10. CASE FinishStep(w)
  BY <1>1, <1>2, <1>3, <1>4, <1>10 DEF FinishStep, FinishSent, FinishClosed, FinishThrottled, Reconcile,
     FinishOther, Close, db
<1> QED
  BY <1>5, <1>6, <1>7, <1>8, <1>9, <1>10 DEF Step

(* The job a process executes: once its link exists the process holds it up  *)
(* to the row that says so, or up to the outcome.                            *)
LEMMA OwnLink ==
  ASSUME STypeInv, NEW w \in Workers, NEW j, Busy(w, j), Step(w), RowInHand(wk[w]), RowsInTurn, WorkerInTurn(wk[w]),
         FinishKnows(wk[w]), SentLink(j) \/ Asking(wk[w], j) \/ ~(Live(j) /\ outcome[j] = <<>>),
         Live(j)', outcome'[j] = <<>>
  PROVE  \/ Asking(wk[w], j)'
         \/ SentLink(j)' /\ (wk[w].pc \in OutgoingPcs \/ (SentLink(j) /\ Live(j) /\ outcome[j] = <<>> /\ ~Asking(wk[w], j)))
<1>1. TypeOK /\ j \in Jobs /\ wk[w].job = j /\ wk[w] \in WorkerState /\ wk \in [Workers -> WorkerState]
  BY BusyJob DEF Busy, STypeInv
<1>2. ~RecoverStep(w)
  BY DEF RecoverStep, RecoverLookup, RecoverStaleExecution, RowInHand
<1>3. link[j] # "none" \/ CreateLink(w) \/ CreateUnanswered(w)
  <2>1. CASE UNCHANGED link
    BY <1>1, <2>1 DEF Live
  <2> QED
    BY <2>1, ExecutionLinks DEF Live, Step, ScheduleStep, Followup, InsertDuplicate, Insert, Park,
     RecoverStep, RecoverLookup, RecoverStaleExecution, GuardStep, Execute, VoidOrderPaid, VoidOutcome,
     StubTokenRetry, RefuseLocally, ClaimForExecution, ClaimRefused, FinishStep, FinishSent, FinishClosed,
     FinishThrottled, Reconcile, FinishOther, Close, SendStep, FinishShadow, SendSubscriptionPage, OrderCheckPaid,
     OrderCheckPasses, EarlierLanded, EarlierNone, Superseded, CreateDuplicate, CreateRefused,
     OfferRejected, FinishDuplicate, RecordResult, razorpay
<1>4. CASE Park(w) \/ VoidOutcome(w) \/ Close(w)
  <2>1. RecordOutcome(j, "lost")
    BY <1>1, <1>4 DEF Park, VoidOutcome, Close
  <2>2. outcome'[j] = Append(outcome[j], "lost") /\ outcome[j] \in Seq({"recovered", "lost"})
    BY <1>1, <2>1 DEF RecordOutcome, TypeOK
  <2>3. Len(Append(outcome[j], "lost")) = Len(outcome[j]) + 1 /\ Len(outcome[j]) \in Nat /\ Len(<<>>) = 0
    BY <2>2
  <2> QED
    BY <2>2, <2>3
<1>5. CASE ScheduleStep(w) /\ ~Park(w)
  <2>1. wk[w].pc \in {"followup", "insert"} /\ UNCHANGED <<link, outcome>>
    BY <1>1, <1>5 DEF ScheduleStep, Followup, InsertDuplicate, Insert, db, razorpay
  <2>2. SentLink(j) /\ Live(j) /\ outcome[j] = <<>> /\ ~Asking(wk[w], j)
    BY <1>1, <2>1 DEF Asking, Live
  <2>3. ~Insert(w)
    BY <1>1, <2>2 DEF Insert, KeyTaken, Exists, SentLink
  <2>4. UNCHANGED job
    BY <1>5, <2>3 DEF ScheduleStep, Followup, InsertDuplicate, db
  <2> QED
    BY <2>2, <2>4 DEF SentLink
<1>6. ~(GuardStep(w) /\ ~VoidOutcome(w))
  <2>1. link[j] = "none" => ~GuardStep(w)
    BY <1>3 DEF GuardStep, Execute, VoidOrderPaid, VoidOutcome, StubTokenRetry, RefuseLocally, ClaimForExecution,
       ClaimRefused, CreateLink, CreateUnanswered
  <2>2. job[j].status = "pending" => link[j] = "none"
    BY <1>1 DEF RowsInTurn, RowInTurn
  <2> QED
    BY <1>1, <2>1, <2>2 DEF GuardStep, Execute, VoidOrderPaid, StubTokenRetry, RefuseLocally, ClaimForExecution,
       ClaimRefused, RowInHand, PendingPcs, WorkerInTurn
<1>7. ~(FinishShadow(w) \/ SendSubscriptionPage(w) \/ OrderCheckPaid(w) \/ OrderCheckPasses(w) \/ EarlierLanded(w)
          \/ EarlierNone(w) \/ Superseded(w))
  BY <1>1, <1>3 DEF FinishShadow, SendSubscriptionPage, OrderCheckPaid, OrderCheckPasses, EarlierLanded, EarlierNone,
     Superseded, WorkerInTurn, CreateLink, CreateUnanswered
<1>8. CASE CreateLink(w) \/ CreateDuplicate(w)
  <2>1. GotoWith(w, "record", "sent", "none") \/ Goto(w, "duplicate")
    BY <1>8 DEF CreateLink, CreateDuplicate
  <2>2. wk'[w].pc \in {"record", "duplicate"} /\ wk'[w].job = j
    BY <1>1, <2>1, GotoAt, GotoWithAt
  <2> QED
    BY <2>2 DEF Asking
<1>9. CASE CreateRefused(w) \/ CreateUnanswered(w)
  <2>1. wk[w].pc = "create" /\ \E kind : AfterFailure(w, kind)
    BY <1>9 DEF CreateRefused, CreateUnanswered
  <2>2. wk'[w].pc \in {"record", "create"} /\ wk'[w].job = j
    BY <1>1, <2>1, AfterFailureAt
  <2> QED
    BY <2>2 DEF Asking
<1>10. CASE OfferRejected(w)
  <2>1. wk'[w].pc = "create" /\ wk'[w].job = j
    BY <1>1, <1>10 DEF OfferRejected, WorkerState
  <2> QED
    BY <2>1 DEF Asking
<1>11. CASE FinishDuplicate(w) \/ RecordResult(w)
  <2>1. Goto(w, "finish") \/ \E status : GotoWith(w, "finish", status, "none")
    BY <1>11 DEF FinishDuplicate, RecordResult
  <2>2. wk'[w].pc = "finish" /\ wk'[w].job = j
    BY <1>1, <2>1, GotoAt, GotoWithAt
  <2> QED
    BY <2>2 DEF Asking
<1>12. CASE FinishStep(w) /\ ~Close(w)
  <2>1. wk[w].pc = "finish" /\ UNCHANGED <<link, outcome>> /\ link[j] # "none" /\ outcome[j] = <<>>
    BY <1>1, <1>12 DEF FinishStep, FinishSent, FinishClosed, FinishThrottled, Reconcile, FinishOther, db, razorpay, Live
  <2>2. CASE FinishSent(w)
    <3>1. SentLink(j)
      BY <1>1, <2>1, <2>2 DEF FinishSent, FinishKnows
    <3>2. job'[j].status = job[j].status /\ job'[j].link = job[j].link
      BY <1>1, <2>2 DEF FinishSent, TypeOK, Row
    <3> QED
      BY <2>1, <3>1, <3>2 DEF SentLink, OutgoingPcs
  <2>3. ~FinishThrottled(w) /\ ~FinishOther(w)
    BY <1>1, <2>1 DEF FinishThrottled, FinishOther, FinishKnows, WorkerInTurn, RetryableKinds, AmbiguousKinds
  <2>4. CASE FinishClosed(w) \/ Reconcile(w)
    <3>1. Goto(w, "close") \/ GotoWith(w, "finish", "sent", "none")
      BY <1>1, <2>1, <2>4 DEF FinishClosed, Reconcile, ToClose, LookupByReference
    <3>2. wk'[w].pc \in {"finish", "close"} /\ wk'[w].job = j
      BY <1>1, <3>1, GotoAt, GotoWithAt
    <3> QED
      BY <3>2 DEF Asking
  <2> QED
    BY <1>12, <2>2, <2>3, <2>4 DEF FinishStep
<1> QED
  BY <1>2, <1>4, <1>5, <1>6, <1>7, <1>8, <1>9, <1>10, <1>11, <1>12 DEF Step, SendStep, FinishStep, ScheduleStep


LEMMA ExecutionLive ==
  ASSUME Serial, ~LateLanding, ~OrderCheck, STypeInv, AttemptsInTurn, HandsInv, LinksInHand, NEW w \in Workers, Execution(w)
  PROVE  LinksInHand'
<1>1. /\ TypeOK /\ UNCHANGED hd /\ hd[w] = NoHandler /\ RowInHand(wk[w]) /\ RowsInTurn /\ WorkerInTurn(wk[w])
      /\ FinishKnows(wk[w]) /\ Workers = {w}
  BY DEF STypeInv, Execution, HandsInv, Serial, AttemptsInTurn, LinksInHand
<1>2. ASSUME NEW k \in Jobs, Live(k), outcome[k] = <<>>
      PROVE  (SentLink(k) /\ ~OrderIsPaid(k)) \/ Asking(wk[w], k)
  BY <1>1, <1>2 DEF LinksInHand, LinkInHand, Cancelling, GivingUp, NoHandler, CancelPcs
<1>3. CASE Begin(w)
  <2>1. wk[w].pc = "idle" /\ UNCHANGED <<job, orderPaid, link, outcome>>
    BY <1>3 DEF Begin, ProcessAttempt, Sweep, db, payments, razorpay
  <2>2. wk'[w].pc # "finish"
    <3>1. ASSUME NEW q \in Payments, ProcessAttempt(w, q) PROVE wk'[w].pc = "insert"
      BY <1>1, <3>1 DEF ProcessAttempt, TypeOK, Idle
    <3>2. ASSUME NEW k \in Jobs, Sweep(w, k) PROVE wk'[w].pc \in {"recover", "execute"}
      BY <1>1, <3>2 DEF Sweep, TypeOK, Idle
    <3> QED
      BY <1>3, <3>1, <3>2 DEF Begin
  <2>3. \A k \in Jobs : Live(k)' /\ outcome'[k] = <<>> => SentLink(k)' /\ ~OrderIsPaid(k)'
    BY <1>2, <2>1 DEF Live, Asking, SentLink, OrderIsPaid
  <2> QED
    BY <1>1, <2>2, <2>3 DEF LinksInHand, LinkInHand, FinishKnows
<1>4. CASE Step(w)
  <2>1. PICK j : Busy(w, j)
    BY <1>1, <1>4, StepIsBusy
  <2>2. j \in Jobs /\ wk[w].job = j
    BY <1>1, <2>1, BusyJob DEF Busy
  <2>3. UNCHANGED orderPaid
    BY <1>4 DEF OrderCheckPaid, Step, ScheduleStep, Followup, InsertDuplicate, Insert, Park, RecoverStep, RecoverLookup,
     RecoverStaleExecution, GuardStep, Execute, VoidOrderPaid, VoidOutcome,
     StubTokenRetry, RefuseLocally, ClaimForExecution, ClaimRefused, FinishStep, FinishSent, FinishClosed,
     FinishThrottled, Reconcile, FinishOther, Close, SendStep, FinishShadow, SendSubscriptionPage,
     OrderCheckPasses, EarlierLanded, EarlierNone, Superseded, CreateLink, CreateDuplicate, CreateRefused,
     OfferRejected, CreateUnanswered, FinishDuplicate, RecordResult, db, payments
  <2>4. FinishKnows(wk[w])'
    <3>1. CASE wk'[w].pc = "finish"
      BY <1>1, <1>4, <2>1, <3>1, FinishKnowsStep
    <3> QED
      BY <3>1 DEF FinishKnows
  <2>5. ASSUME NEW k \in Jobs, Live(k)', outcome'[k] = <<>>, k # j PROVE LinkInHand(k)'
    <3>1. link'[k] = link[k]
      BY <1>1, <1>4, <2>2, <2>5, ExecutionLinks DEF STypeInv, TypeOK
    <3>2. outcome'[k] = outcome[k]
      BY <1>1, <1>4, <2>2, <2>5, ExecutionOutcomes DEF TypeOK, RecordOutcome
    <3>3. SentLink(k) /\ ~OrderIsPaid(k)
      BY <1>2, <2>2, <2>5, <3>1, <3>2 DEF Live, Asking
    <3>4. job'[k] = job[k] \/ SentLink(k)'
      BY <1>1, <1>4, <2>1, <2>5, OtherRows
    <3> QED
      BY <2>3, <3>3, <3>4 DEF LinkInHand, SentLink, OrderIsPaid
  <2>6. ASSUME Live(j)', outcome'[j] = <<>> PROVE LinkInHand(j)'
    <3>1. SentLink(j) \/ Asking(wk[w], j) \/ ~(Live(j) /\ outcome[j] = <<>>)
      BY <1>2, <2>2
    <3>2. \/ Asking(wk[w], j)'
          \/ SentLink(j)' /\ (wk[w].pc \in OutgoingPcs \/ (SentLink(j) /\ Live(j) /\ outcome[j] = <<>> /\ ~Asking(wk[w], j)))
      BY <1>1, <1>4, <2>1, <2>6, <3>1, OwnLink
    <3>3. SentLink(j)' /\ ~Asking(wk[w], j)' => ~OrderIsPaid(j)
      BY <1>1, <1>2, <2>2, <3>2 DEF RowInHand
    <3> QED
      BY <2>3, <3>2, <3>3 DEF LinkInHand, OrderIsPaid
  <2> QED
    BY <1>1, <2>2, <2>4, <2>5, <2>6 DEF LinksInHand
<1> QED
  BY <1>1, <1>3, <1>4 DEF Execution

(* What the handler of an order still has to cancel stays on its list, or is *)
(* the link it just tried.                                                  *)
LEMMA CancellingGoesOn ==
  ASSUME "shadow" \notin Modes, STypeInv, NEW w \in Workers, NEW h, h = hd[w], SettleStep(w), NEW k \in Jobs,
         Cancelling(h, k), SentLink(k), outcome[k] = <<>>
  PROVE  Cancelling(hd[w], k)' \/ GivingUp(hd[w], k)'
<1>1. TypeOK /\ h \in HandlerState /\ h.pending \subseteq Jobs /\ h.live \subseteq Jobs /\ h.pc \in CancelPcs
  BY DEF STypeInv, HandlerTypeOK, HandlerState, Cancelling
<1>2. ASSUME hd'[w].pc \in CancelPcs, hd'[w].todo = h.todo, k \in h.live => k \in hd'[w].live
      PROVE  Cancelling(hd[w], k)'
  BY <1>2 DEF Cancelling
<1>3. CASE TakeAttempt(w)
  <2>1. PICK p \in h.todo :
          hd' = [hd EXCEPT ![w] = [@ EXCEPT !.todo = h.todo \ {p}, !.pending = PendingOf(p), !.live = LiveOf(p)]]
    BY <1>3 DEF TakeAttempt
  <2> DEFINE r == [h EXCEPT !.todo = h.todo \ {p}, !.pending = PendingOf(p), !.live = LiveOf(p)]
  <2>2. r.pc = "attempt" /\ r.todo = h.todo \ {p} /\ r.live = LiveOf(p) /\ hd' = [hd EXCEPT ![w] = r]
    BY <1>1, <1>3, <2>1 DEF HandlerState, TakeAttempt
  <2> HIDE DEF r
  <2>3. hd'[w].pc = "attempt" /\ hd'[w].todo = h.todo \ {p} /\ hd'[w].live = LiveOf(p)
    BY <2>2, MovedAt
  <2>4. k[1] \in h.todo
    BY <1>3 DEF Cancelling, TakeAttempt
  <2>5. k[1] \in h.todo \ {p} \/ k \in LiveOf(p)
    BY <2>4 DEF LiveOf, SentLink, HasOutcome
  <2> QED
    BY <2>3, <2>5 DEF Cancelling, CancelPcs
<1>4. CASE VoidPending(w)
  <2>1. PICK i : i = First(h.pending)
    OBVIOUS
  <2> DEFINE r == [h EXCEPT !.pc = "closed", !.job = i, !.pending = h.pending \ {i}]
  <2>2. r.pc = "closed" /\ r.todo = h.todo /\ r.live = h.live /\ hd' = [hd EXCEPT ![w] = r]
    BY <1>1, <1>4, <2>1 DEF HandlerState, VoidPending
  <2> HIDE DEF r
  <2>3. hd'[w].pc = "closed" /\ hd'[w].todo = h.todo /\ hd'[w].live = h.live
    BY <2>2, MovedAt
  <2> QED
    BY <1>2, <2>3 DEF CancelPcs
<1>5. CASE CancelLink(w)
  <2>1. PICK i : i = First(h.live)
    OBVIOUS
  <2>2. PICK pc \in {"cancelled", "parked"} :
          hd' = [hd EXCEPT ![w] = [@ EXCEPT !.pc = pc, !.job = i, !.live = h.live \ {i}]]
    BY <1>5, <2>1 DEF CancelLink
  <2> DEFINE r == [h EXCEPT !.pc = pc, !.job = i, !.live = h.live \ {i}]
  <2>3. r.pc = pc /\ r.job = i /\ r.todo = h.todo /\ r.live = h.live \ {i} /\ hd' = [hd EXCEPT ![w] = r]
    BY <1>1, <2>2 DEF HandlerState
  <2> HIDE DEF r
  <2>4. hd'[w].pc = pc /\ hd'[w].job = i /\ hd'[w].todo = h.todo /\ hd'[w].live = h.live \ {i}
    BY <2>3, MovedAt
  <2> QED
    BY <2>4 DEF Cancelling, GivingUp, CancelPcs
<1>6. ~CancelSkipped(w) /\ ~AttemptsDone(w)
  BY DEF CancelSkipped, AttemptsDone, Cancelling
<1>7. CASE RecordCancel(w)
  BY <1>2, <1>7, HandleAt DEF RecordCancel, CancelPcs
<1>8. CASE CloseStopped(w)
  <2> DEFINE r == [h EXCEPT !.pc = "attempt", !.job = NoJob]
  <2>1. r.pc = "attempt" /\ r.todo = h.todo /\ r.live = h.live /\ hd' = [hd EXCEPT ![w] = r]
    BY <1>1, <1>8 DEF HandlerState, CloseStopped
  <2> HIDE DEF r
  <2>2. hd'[w].pc = "attempt" /\ hd'[w].todo = h.todo /\ hd'[w].live = h.live
    BY <2>1, MovedAt
  <2> QED
    BY <1>2, <2>2 DEF CancelPcs
<1> QED
  BY <1>1, <1>3, <1>4, <1>5, <1>6, <1>7, <1>8 DEF SettleStep, CancelPcs, PaidIgnored, PaidChecked, ClosePaidLink,
     MarkOrderPaid, ExpiredIgnored, ExpiredChecked, StillOpen, FetchLink, RecordSeen, ExpiryFollowup

(* What a handler does to a link without an outcome that can still be paid:  *)
(* its row is the same, or the handler is on its way to close it.            *)
LEMMA SettleKeepsRow ==
  ASSUME STypeInv, AttemptsInTurn, NEW w \in Workers, NEW h, h = hd[w], SettleStep(w), NEW k \in Jobs,
         Live(k)', outcome'[k] = <<>>
  PROVE  /\ Live(k) /\ outcome[k] = <<>>
         /\ GivingUp(h, k) => GivingUp(hd[w], k)'
         /\ SentLink(k) => SentLink(k)' \/ GivingUp(hd[w], k)'
<1>1. Handling(w, h, h.job)
  BY SettleIsHandling
<1>2. /\ TypeOK /\ RowsInTurn /\ h \in HandlerState /\ hd[w] = h /\ wk[w] = Idle /\ HandlerInTurn(h)
      /\ h.pc \in JobPcs => h.job \in Jobs
  <2>1. ASSUME NEW j, j = h.job PROVE (h.pc \in JobPcs => j \in Jobs) /\ HandlerInTurn(h) /\ TypeOK /\ RowsInTurn
                                       /\ h \in HandlerState /\ hd[w] = h /\ wk[w] = Idle
    BY <1>1, <2>1, HandlingFacts
  <2> QED
    BY <2>1
<1>3. ASSUME NEW j \in Jobs, NEW result, RecordOutcome(j, result) PROVE k # j /\ outcome[k] = <<>>
  <2>1. k # j
    <3>1. ASSUME k = j PROVE FALSE
      <4>1. outcome'[k] = Append(outcome[k], result) /\ outcome[k] \in Seq({"recovered", "lost"})
        BY <1>2, <1>3, <3>1 DEF RecordOutcome, TypeOK
      <4>2. Len(Append(outcome[k], result)) = Len(outcome[k]) + 1 /\ Len(outcome[k]) \in Nat /\ Len(<<>>) = 0
        BY <4>1
      <4> QED
        BY <4>1, <4>2
    <3> QED
      BY <3>1
  <2> QED
    BY <1>2, <1>3, <2>1 DEF RecordOutcome, TypeOK
<1>4. Live(k)
  <2>1. CASE CancelLink(w)
    <3>1. h.live \subseteq Jobs
      BY <1>2 DEF HandlerState
    <3>2. PICK i \in h.live : i = First(h.live)
      BY <1>2, <2>1, <3>1, FirstIsMember DEF CancelLink
    <3> QED
      BY <1>2, <2>1, <3>1, <3>2 DEF CancelLink, Live, TypeOK
  <2>2. CASE UNCHANGED link
    BY <2>2 DEF Live
  <2> QED
    BY <2>1, <2>2 DEF SettleStep, PaidIgnored, PaidChecked, ClosePaidLink, MarkOrderPaid, TakeAttempt,
           AttemptsDone, VoidPending, CancelSkipped, RecordCancel, CloseStopped, ExpiredIgnored,
           ExpiredChecked, StillOpen, FetchLink, RecordSeen, ExpiryFollowup, vars, razorpay
<1>5. CASE ClosePaidLink(w)
  <2>1. h.pc = "recovered" /\ h.job \in Jobs /\ RecordOutcome(h.job, "recovered")
    BY <1>2, <1>5 DEF ClosePaidLink, JobPcs
  <2>2. k # h.job /\ outcome[k] = <<>>
    BY <1>3, <2>1
  <2>3. job'[k] = job[k]
    BY <1>5, <2>1, <2>2, <1>2, CommitAt DEF ClosePaidLink
  <2> QED
    BY <1>4, <2>1, <2>2, <2>3 DEF GivingUp, SentLink
<1>6. CASE RecordSeen(w)
  <2>1. h.pc = "polled" /\ h.job \in Jobs /\ \E result : RecordOutcome(h.job, result)
    BY <1>2, <1>6 DEF RecordSeen, JobPcs
  <2>2. k # h.job /\ outcome[k] = <<>>
    BY <1>3, <2>1
  <2>3. job'[k] = job[k]
    BY <1>2, <1>6, <2>1, <2>2 DEF RecordSeen, TypeOK
  <2> QED
    BY <1>4, <2>1, <2>2, <2>3 DEF GivingUp, SentLink
<1>7. CASE CloseStopped(w)
  <2>1. h.job \in Jobs /\ RecordOutcome(h.job, "lost") /\ UNCHANGED job
    BY <1>2, <1>7 DEF CloseStopped, JobPcs
  <2>2. k # h.job /\ outcome[k] = <<>>
    BY <1>3, <2>1
  <2> QED
    BY <1>4, <2>1, <2>2 DEF GivingUp, SentLink
<1>8. CASE RecordCancel(w)
  <2>1. /\ h.job \in Jobs /\ UNCHANGED outcome
        /\ \E status \in {"cancelled", "human_queue"} : Commit(h.job, status, "none", FALSE)
    BY <1>2, <1>8 DEF RecordCancel, JobPcs
  <2>2. hd'[w].pc = "closed" /\ hd'[w].job = h.job
    BY <1>2, <1>8, HandleAt DEF RecordCancel
  <2>3. k # h.job => job'[k] = job[k]
    BY <1>2, <2>1, CommitAt
  <2> QED
    BY <1>4, <2>1, <2>2, <2>3 DEF GivingUp, SentLink
<1>9. CASE VoidPending(w)
  <2>1. h.pending \subseteq Jobs
    BY <1>2 DEF HandlerState
  <2>2. PICK i \in h.pending : i = First(h.pending)
    BY <1>2, <1>9, <2>1, FirstIsMember DEF VoidPending
  <2>3. job[i].status = "pending" /\ Commit(i, "no_action", "none", FALSE) /\ UNCHANGED outcome /\ h.pc = "attempt"
    BY <1>2, <1>9, <2>2 DEF VoidPending, HandlerInTurn
  <2>4. k # i => job'[k] = job[k]
    BY <1>2, <2>1, <2>3, CommitAt
  <2> QED
    BY <1>4, <2>3, <2>4 DEF GivingUp, SentLink
<1>10. CASE SettleStep(w) /\ ~(ClosePaidLink(w) \/ RecordSeen(w) \/ CloseStopped(w) \/ RecordCancel(w) \/ VoidPending(w))
  <2>1. UNCHANGED <<job, outcome>> /\ h.pc \notin {"cancelled", "parked", "closed"}
    BY <1>10 DEF SettleStep, PaidIgnored, PaidChecked, MarkOrderPaid, TakeAttempt, AttemptsDone, CancelLink, CancelSkipped,
       ExpiredIgnored, ExpiredChecked, StillOpen, FetchLink, ExpiryFollowup, vars, db
  <2> QED
    BY <1>4, <2>1 DEF GivingUp, SentLink
<1> QED
  BY <1>5, <1>6, <1>7, <1>8, <1>9, <1>10


LEMMA SettleLive ==
  ASSUME Serial, "shadow" \notin Modes, STypeInv, AttemptsInTurn, KnownInv, LinksInHand, NEW w \in Workers, SettleStep(w)
  PROVE  LinksInHand'
<1>1. /\ TypeOK /\ Workers = {w} /\ wk[w] = Idle /\ wk'[w].pc \in {"idle", "followup"} /\ hd[w] \in HandlerState
  BY SettleClaimsNothing DEF STypeInv, Serial, HandlerTypeOK
<1>2. FinishKnows(wk[w])'
  BY <1>1 DEF FinishKnows
<1>3. SUFFICES ASSUME NEW k \in Jobs, Live(k)', outcome'[k] = <<>> PROVE LinkInHand(k)'
  BY <1>1, <1>2 DEF LinksInHand
<1>4. ASSUME NEW h, h = hd[w] PROVE LinkInHand(k)'
  <2>1. /\ Live(k) /\ outcome[k] = <<>>
        /\ GivingUp(h, k) => GivingUp(hd[w], k)'
        /\ SentLink(k) => SentLink(k)' \/ GivingUp(hd[w], k)'
    BY <1>3, <1>4, SettleKeepsRow
  <2>2. GivingUp(h, k) \/ (SentLink(k) /\ (OrderIsPaid(k) => Cancelling(h, k)))
    BY <1>1, <1>4, <2>1, IdleType DEF LinksInHand, LinkInHand, Asking
  <2>3. CASE GivingUp(hd[w], k)'
    BY <2>3 DEF LinkInHand
  <2>4. CASE SentLink(k) /\ SentLink(k)'
    <3>1. CASE OrderIsPaid(k) /\ Cancelling(h, k)
      <4>1. Cancelling(hd[w], k)' \/ GivingUp(hd[w], k)'
        BY <1>4, <2>1, <2>4, <3>1, CancellingGoesOn
      <4> QED
        BY <2>4, <4>1 DEF LinkInHand
    <3>2. CASE ~OrderIsPaid(k) /\ OrderIsPaid(k)'
      <4>1. MarkOrderPaid(w)
        BY <3>2 DEF OrderIsPaid, SettleStep, PaidIgnored, PaidChecked, ClosePaidLink, TakeAttempt,
           AttemptsDone, VoidPending, CancelLink, CancelSkipped, RecordCancel, CloseStopped, ExpiredIgnored,
           ExpiredChecked, StillOpen, FetchLink, RecordSeen, ExpiryFollowup, vars, db, payments
      <4>2. k[1] \in attempts \cap Payments
        BY <2>4 DEF KnownInv, Touched, Exists, Jobs, SentLink
      <4>3. OrderOf[k[1]] \notin orderPaid /\ OrderOf[k[1]] \in orderPaid'
        BY <3>2 DEF OrderIsPaid
      <4>4. /\ k[1] \in AttemptsOf(hd[w].order)
            /\ hd' = [hd EXCEPT ![w] = [@ EXCEPT !.pc = "attempt", !.todo = AttemptsOf(hd[w].order)]]
        BY <4>1, <4>2, <4>3, MarkFindsAll
      <4> DEFINE r == [hd[w] EXCEPT !.pc = "attempt", !.todo = AttemptsOf(hd[w].order)]
      <4>5. r.pc = "attempt" /\ k[1] \in r.todo /\ hd' = [hd EXCEPT ![w] = r]
        BY <1>1, <4>4 DEF HandlerState
      <4> HIDE DEF r
      <4>6. hd'[w].pc = "attempt" /\ k[1] \in hd'[w].todo
        BY <4>5, MovedAt
      <4> QED
        BY <2>4, <4>6 DEF LinkInHand, Cancelling, CancelPcs
    <3>3. CASE ~OrderIsPaid(k)'
      BY <2>4, <3>3 DEF LinkInHand
    <3>4. OrderIsPaid(k) => Cancelling(h, k) \/ GivingUp(hd[w], k)'
      BY <2>1, <2>2
    <3> QED
      BY <2>3, <3>1, <3>2, <3>3, <3>4
  <2> QED
    BY <2>1, <2>2, <2>3, <2>4
<1> QED
  BY <1>4

LEMMA LinksInHandStep ==
  ASSUME Serial, ~Crashes, ~LateLanding, ~OrderCheck, "shadow" \notin Modes, STypeInv, AttemptsInTurn, HandsInv, KnownInv,
         LinksInHand, [SNext]_svars
  PROVE  LinksInHand'
<1>1. TypeOK /\ inflight = {}
  BY DEF STypeInv, AttemptsInTurn
<1>2. ASSUME UNCHANGED <<job, orderPaid, outcome, wk, hd>>, \A k \in Jobs : Live(k)' => Live(k),
             \A k \in Jobs : link'[k] = "none" <=> link[k] = "none"
      PROVE  LinksInHand'
  <2>1. ASSUME NEW k \in Jobs, Live(k)', outcome'[k] = <<>> PROVE LinkInHand(k)'
    BY <1>2, <2>1 DEF LinksInHand, LinkInHand, SentLink, OrderIsPaid
  <2>2. ASSUME NEW w \in Workers PROVE FinishKnows(wk[w])'
    <3>1. ASSUME NEW j \in Jobs, wk[w].job = j PROVE FinishKnows(wk[w])'
      BY <1>2, <3>1 DEF LinksInHand, FinishKnows, SentLink
    <3>2. wk[w].pc = "finish" => wk[w].job \in Jobs
      BY <1>1 DEF TypeOK
    <3>3. wk[w].pc # "finish" => FinishKnows(wk[w])'
      BY <1>2 DEF FinishKnows
    <3> QED
      BY <3>1, <3>2, <3>3
  <2> QED
    BY <2>1, <2>2 DEF LinksInHand
<1>3. CASE UNCHANGED svars
  BY <1>2, <1>3 DEF Live, svars, vars
<1>4. ASSUME NEW w \in Workers, Execution(w) PROVE LinksInHand'
  BY <1>4, ExecutionLive
<1>5. ASSUME NEW w \in Workers, SettleStep(w) PROVE LinksInHand'
  BY <1>5, SettleLive
<1>6. ASSUME NEW w \in Workers, Receive(w) PROVE LinksInHand'
  <2>1. UNCHANGED vars /\ hd[w] = NoHandler /\ wk[w] = Idle /\ Workers = {w}
    BY <1>6 DEF Receive, ReceivePaid, ReceiveExpired, PollLink, ReceiveCaptured, Free, Serial
  <2>2. \A k \in Jobs : Live(k) /\ outcome[k] = <<>> => SentLink(k) /\ ~OrderIsPaid(k)
    BY <2>1, IdleType DEF LinksInHand, LinkInHand, Cancelling, GivingUp, Asking, NoHandler, CancelPcs
  <2>3. \A k \in Jobs : Live(k)' /\ outcome'[k] = <<>> => LinkInHand(k)'
    BY <2>1, <2>2 DEF LinkInHand, Live, SentLink, OrderIsPaid, vars
  <2> QED
    BY <2>1, <2>3, IdleType DEF LinksInHand, FinishKnows, vars
<1>7. CASE World
  <2>1. ASSUME NEW j \in Jobs, NEW l \in {"paid", "partial", "expired", "cancelled"}, link' = [link EXCEPT ![j] = l],
               Live(j), UNCHANGED <<db, wk, hd>>
        PROVE  LinksInHand'
    <3>1. \A k \in Jobs : link'[k] = IF k = j THEN l ELSE link[k]
      BY <1>1, <2>1 DEF TypeOK
    <3> QED
      BY <1>2, <2>1, <3>1 DEF Live, db, payments
  <2>2. ASSUME NEW j \in Jobs, PayLink(j) \/ PayPart(j) PROVE LinksInHand'
    BY <2>1, <2>2 DEF PayLink, PayPart, Live
  <2>3. ASSUME NEW j \in Jobs, EndLink(j) PROVE LinksInHand'
    <3>1. PICK end \in {"expired", "cancelled"} : link' = [link EXCEPT ![j] = end]
      BY <2>3 DEF EndLink
    <3> QED
      BY <2>1, <2>3, <3>1 DEF EndLink, Live
  <2>4. \A j \in Jobs : ~Land(j)
    BY <1>1 DEF Land
  <2>5. ASSUME NEW o \in Orders, PayElsewhere(o) PROVE LinksInHand'
    BY <1>2, <2>5 DEF PayElsewhere, Capture, Live, db, payments
  <2>6. \A w \in Workers : ~SettlementCrash(w)
    BY DEF SettlementCrash
  <2> QED
    BY <1>7, <2>2, <2>3, <2>4, <2>5, <2>6 DEF World
<1> QED
  BY <1>3, <1>4, <1>5, <1>6, <1>7 DEF SNext

(* The order-paid boundary for what is out: once the handler of a recorded   *)
(* order is done, a link of it that can still be paid (the cancel failed, or *)
(* its answer was lost) is closed as lost, in a person's hands; none is       *)
(* left unseen because its row did not say sent when the handler looked.     *)
THEOREM NoLinkLeftSilent ==
  ASSUME Serial, ~Crashes, ~LateLanding, ~OrderCheck, Offered = {}
  PROVE  SSpec => []NoSilentLiveLink
<1>1. CASE "shadow" \in Modes
  <2>1. STypeInv => NoSilentLiveLink
    BY <1>1 DEF NoSilentLiveLink
  <2> QED
    BY <2>1, STypeCorrect, PTL
<1>2. CASE "shadow" \notin Modes
  <2>1. SInit => LinksInHand
    BY DEF SInit, Init, LinksInHand, Live, FinishKnows, Idle
  <2>2. STypeInv /\ AttemptsInTurn /\ HandsInv /\ KnownInv /\ LinksInHand /\ [SNext]_svars => LinksInHand'
    BY <1>2, LinksInHandStep
  <2>3. STypeInv /\ AttemptsInTurn /\ MoneyInv /\ LinksInHand => NoSilentLiveLink
    <3> SUFFICES ASSUME STypeInv, AttemptsInTurn, MoneyInv, LinksInHand, AllFree, NEW j \in Jobs, OrderIsPaid(j), Live(j)
                 PROVE  outcome[j] = <<"lost">>
      BY DEF NoSilentLiveLink, OrderIsPaid
    <3>1. outcome[j] # <<>>
      BY IdleType DEF LinksInHand, LinkInHand, AllFree, Free, Cancelling, GivingUp, Asking, NoHandler, CancelPcs
    <3>2. outcome[j] \in {<<>>, <<"lost">>, <<"recovered">>}
      BY DEF AttemptsInTurn, RowsInTurn, RowInTurn
    <3>3. outcome[j] = <<"recovered">> => link[j] \in Collecting
      BY DEF AttemptsInTurn, RowsInTurn, RowInTurn
    <3>4. link[j] # "partial"
      BY DEF MoneyInv
    <3> QED
      BY <3>1, <3>2, <3>3, <3>4 DEF Live, Collecting
  <2> QED
    BY <2>1, <2>2, <2>3, STypeCorrect, AttemptsFollow, HandsCorrect, KnownCorrect, MoneyCorrect, PTL DEF SSpec
<1> QED
  BY <1>1, <1>2

-----------------------------------------------------------------------------
(* What the reports say of the same money: the recovered outcomes are those *)
(* of the latest rows, one for each recovered payment.                      *)

LEMMA RecoveredRow ==
  ASSUME RowsInTurn, NEW j \in Jobs, NEW i \in RecoveredOf(j)
  PROVE  i = 1 /\ outcome[j] = <<"recovered">> /\ link[j] \in Collecting /\ Exists(j) /\ Newest(j)
<1>1. RowInTurn(j) /\ i \in DOMAIN outcome[j] /\ outcome[j][i] = "recovered"
  BY DEF RowsInTurn, RecoveredOf
<1>2. outcome[j] # <<>> /\ outcome[j] # <<"lost">>
  BY <1>1
<1>3. outcome[j] = <<"recovered">>
  BY <1>1, <1>2 DEF RowInTurn
<1> QED
  BY <1>1, <1>3 DEF RowInTurn, Collecting, Unpaid

(* The rows of the recovered payments are their latest. *)
LEMMA RecoveredLatest ==
  ASSUME RowsInTurn, NEW p \in Payments, NEW s \in SeqsOf(p), RecoveredOf(<<p, s>>) # {}
  PROVE  /\ <<p, s>> \in Jobs /\ s = LastSeq(p)
         /\ link[<<p, s>>] \in Collecting
         /\ 1 \in RecoveredOf(<<p, s>>)
<1>1. <<p, s>> \in Jobs
  BY JobOfPayment DEF SeqsOf
<1>2. PICK i \in RecoveredOf(<<p, s>>) : TRUE
  OBVIOUS
<1>3. i = 1 /\ link[<<p, s>>] \in Collecting /\ Exists(<<p, s>>) /\ Newest(<<p, s>>)
  BY <1>1, <1>2, RecoveredRow
<1> QED
  BY <1>1, <1>2, <1>3, NewestIsLast

(* The recovered outcomes, as the digest counts them. *)
RecoveredOutcomes == UNION {{<<j, i>> : i \in RecoveredOf(j)} : j \in Jobs}

LEMMA OneRecoveryEach ==
  ASSUME TypeOK, RowsInTurn, KnownInv
  PROVE  ExistsBijection(Recovered, RecoveredOutcomes)
<1> DEFINE f == [p \in Recovered |-> <<Latest(p), 1>>]
<1>1. ASSUME NEW p \in Recovered
      PROVE  p \in Payments /\ Latest(p) \in Jobs /\ 1 \in RecoveredOf(Latest(p))
  <2>1. p \in Payments
    BY DEF Recovered, TypeOK
  <2>2. PICK s \in SeqsOf(p) : RecoveredOf(<<p, s>>) # {}
    BY DEF Recovered
  <2> QED
    BY <2>1, <2>2, RecoveredLatest DEF Latest
<1>2. f \in [Recovered -> RecoveredOutcomes]
  BY <1>1 DEF RecoveredOutcomes
<1>3. \A p, q \in Recovered : f[p] = f[q] => p = q
  BY DEF Latest
<1>4. ASSUME NEW t \in RecoveredOutcomes PROVE \E p \in Recovered : f[p] = t
  <2>1. PICK j \in Jobs : \E i \in RecoveredOf(j) : t = <<j, i>>
    BY DEF RecoveredOutcomes
  <2>2. t = <<j, 1>> /\ 1 \in RecoveredOf(j) /\ Exists(j) /\ Newest(j)
    BY <2>1, RecoveredRow
  <2>3. j[1] \in attempts /\ j = Latest(j[1])
    BY <2>2, NewestIsLast DEF KnownInv, Touched
  <2>4. j[1] \in Recovered
    BY <2>1, <2>2, <2>3, JobIsPair DEF Recovered, SeqsOf
  <2> QED
    BY <2>1, <2>2, <2>3, <2>4
<1> QED
  BY <1>2, <1>3, <1>4 DEF ExistsBijection, Bijection, Injection, Surjection, IsInjective

LEMMA ReportsAgreeNow ==
  ASSUME IsFiniteSet(Payments), TypeOK, RowsInTurn, KnownInv
  PROVE  ReportsAgree
<1>1. DigestRecovered = Cardinality(Recovered)
  <2>1. IsFiniteSet(Recovered)
    BY FS_Subset DEF Recovered, TypeOK
  <2> QED
    BY <2>1, OneRecoveryEach, FS_Bijection DEF DigestRecovered, RecoveredOutcomes
<1>2. ASSUME NEW s \in 1..MaxSeq, NEW p \in RateK(s) PROVE link[<<p, s>>] \in Collecting
  <2>1. p \in Payments /\ LastSeq(p) = s
    BY DEF RateK, RateN, WithStatus, TypeOK
  <2>2. PICK t \in SeqsOf(p) : RecoveredOf(<<p, t>>) # {}
    BY DEF RateK, Recovered
  <2> QED
    BY <2>1, <2>2, RecoveredLatest
<1> QED
  BY <1>1, <1>2 DEF ReportsAgree, Collecting

(* The digest counts outcomes and the insights count payments, each in its   *)
(* own query: under the lock of serve, with crashes anywhere, the two are    *)
(* the same number, and a delay is credited only with what its own link      *)
(* collected.                                                               *)
THEOREM ReportsTellTheSame ==
  ASSUME Serial, ~LateLanding, IsFiniteSet(Payments)
  PROVE  SSpec => []ReportsAgree
<1>1. STypeInv /\ AttemptsInTurn /\ KnownInv => ReportsAgree
  BY ReportsAgreeNow DEF STypeInv, AttemptsInTurn
<1>2. SSpec => [](STypeInv /\ AttemptsInTurn /\ KnownInv)
  BY STypeCorrect, AttemptsFollow, KnownCorrect, PTL
<1> QED
  BY <1>1, <1>2, PTL

-----------------------------------------------------------------------------
(* No payment is forgotten.  The newest row of a payment that is neither due, *)
(* nor sent, nor in the person's queue is closed by its outcome, or carried   *)
(* by the process towards that outcome or towards the next row.  A failed row *)
(* whose link exists after all is the newest and closed, so no follow-up ever *)
(* meets it (_earlier_landed).                                               *)

Unfinished == {"stubbed", "failed", "no_action", "cancelled"}

Carried(r, h, j) ==
  \/ r.job = j /\ r.pc \in {"park", "voided", "finish", "close", "followup"}
  \/ r.pc = "insert" /\ r.job = <<j[1], j[2] + 1>>
  \/ h.pc = "closed" /\ h.job = j

FailedLinked(j) == job[j].status = "failed" /\ link[j] # "none"

RowKept(r, h, j) ==
  /\ job[j].status # "shadow" /\ (job[j].status = "sent" => job[j].link)
  /\ FailedLinked(j) => Newest(j) /\ (HasOutcome(j) \/ (r.job = j /\ r.pc \in {"finish", "close"}))
  /\ Newest(j) /\ outcome[j] = <<>> /\ job[j].status \in Unfinished => Carried(r, h, j)

WorkerKeeps(r) ==
  /\ r.pc \notin {"shadow", "direct", "superseded"}
  /\ r.pc = "finish" => r.status = job[r.job].status /\ r.status \in {"sent", "stubbed", "failed", "human_queue"}
  /\ r.pc = "followup" => ~FailedLinked(r.job)
  /\ r.pc = "insert" /\ r.job[2] # 1 => ~FailedLinked(<<r.job[1], r.job[2] - 1>>)

HandlerKeeps(h) == h.pc = "lapsed" => ~FailedLinked(h.job)

Stored(r, p) == SeqsOf(p) # {} \/ (r.pc = "insert" /\ r.job = <<p, 1>>)

KeptInv ==
  \A w \in Workers :
    /\ \A j \in Jobs : RowKept(wk[w], hd[w], j)
    /\ \A p \in attempts : Stored(wk[w], p)
    /\ WorkerKeeps(wk[w]) /\ HandlerKeeps(hd[w])

(* What a step of execute_job or finish_job owes the row it works on. *)
OwnKept(w, j) == RowKept(wk[w], hd[w], j) /\ WorkerKeeps(wk[w])

LEMMA NothingLanded ==
  ASSUME TypeOK, NEW w \in Workers, NEW j, Busy(w, j), WorkerInTurn(wk[w]),
         \A k \in Jobs : RowKept(wk[w], hd[w], k)
  PROVE  ~EarlierLanded(w)
<1> SUFFICES ASSUME EarlierLanded(w) PROVE FALSE
  OBVIOUS
<1>1. j \in Jobs /\ wk[w].job = j /\ Exists(j) /\ wk[w].pc = "earlier"
  BY BusyJob DEF Busy, EarlierLanded, WorkerInTurn, Exists
<1>2. PICK k \in LandedSuspects(j) : TRUE
  BY <1>1 DEF EarlierLanded
<1>3. k \in Jobs
  BY <1>1, <1>2, SuspectsAreJobs DEF LandedSuspects
<1>4. k[1] = j[1] /\ k[2] < j[2] /\ FailedLinked(k)
  <2>1. PICK t \in 1..(j[2] - 1) : k = <<j[1], t>> /\ job[k].status = "failed" /\ link[k] # "none"
    BY <1>1, <1>2 DEF LandedSuspects, Suspects, AmbiguousFailures
  <2>2. j[2] \in Nat
    BY <1>1, JobIsPair, ConstantsAssumption
  <2> QED
    BY <2>1, <2>2 DEF FailedLinked
<1>5. Newest(k)
  BY <1>3, <1>4 DEF RowKept
<1>6. j[2] \in SeqsOf(j[1])
  BY <1>1, JobIsPair DEF SeqsOf
<1> QED
  BY <1>1, <1>3, <1>4, <1>5, <1>6, JobIsPair, ConstantsAssumption DEF Newest

LEMMA KeptSchedule ==
  ASSUME TypeOK, NEW w \in Workers, NEW j, Busy(w, j), hd[w] = NoHandler, UNCHANGED hd, SameRows,
         RowsInTurn, WorkerInTurn(wk[w]), OwnKept(w, j), ScheduleStep(w), ~Insert(w)
  PROVE  OwnKept(w, j)'
<1>1. /\ j \in Jobs /\ wk[w].job = j /\ wk[w] \in WorkerState /\ wk \in [Workers -> WorkerState]
      /\ RowKept(wk[w], hd[w], j) /\ WorkerKeeps(wk[w]) /\ (Newest(j)' <=> Newest(j))
      /\ j = <<j[1], j[2]>> /\ j[2] \in Nat
  BY BusyJob, SameRowsNewest, JobIsPair, ConstantsAssumption DEF Busy, OwnKept
<1>2. CASE Followup(w)
  <2>1. MayFollow(j)
    BY <1>1, <1>2 DEF Followup, WorkerInTurn
  <2>2. NextRetrySeq(j[1]) = j[2] + 1
    BY <1>1, <2>1, NewestIsLast DEF MayFollow, NextRetrySeq
  <2>3. wk'[w].pc = "insert" /\ wk'[w].job = <<j[1], j[2] + 1>>
    BY <1>1, <1>2, <2>2 DEF Followup, Idle
  <2>4. UNCHANGED <<job, outcome, link>> /\ ~FailedLinked(j)
    BY <1>1, <1>2 DEF Followup, db, razorpay, WorkerKeeps
  <2>5. <<wk'[w].job[1], wk'[w].job[2] - 1>> = j
    BY <1>1, <2>3
  <2>6. RowKept(wk[w], hd[w], j)'
    BY <1>1, <2>3, <2>4 DEF RowKept, FailedLinked, Carried
  <2>7. WorkerKeeps(wk[w])'
    BY <2>3, <2>4, <2>5 DEF WorkerKeeps, FailedLinked
  <2> QED
    BY <2>6, <2>7 DEF OwnKept
<1>3. CASE InsertDuplicate(w)
  <2>1. UNCHANGED <<job, outcome, link>> /\ wk[w].pc = "insert" /\ wk'[w].pc = "idle"
    BY <1>3, DoneAt DEF InsertDuplicate, db, razorpay
  <2>2. ~Carried(wk[w], hd[w], j)
    BY <1>1, <2>1 DEF Carried, NoHandler
  <2> QED
    BY <1>1, <2>1, <2>2 DEF OwnKept, RowKept, WorkerKeeps, FailedLinked, HasOutcome
<1>4. CASE Park(w)
  <2>1. UNCHANGED <<job, link>> /\ wk'[w].pc = "idle"
    BY <1>4, DoneAt DEF Park, razorpay
  <2>2. RecordOutcome(j, "lost") /\ outcome[j] = <<>> /\ j \in Jobs
    BY <1>1, <1>4 DEF Park, WorkerInTurn
  <2>3. outcome'[j] = <<"lost">>
    BY <2>2, OutcomeAt
  <2>4. outcome'[j] # <<>>
    BY <2>3
  <2> QED
    BY <1>1, <2>1, <2>4 DEF OwnKept, RowKept, WorkerKeeps, FailedLinked, HasOutcome
<1> QED
  BY <1>2, <1>3, <1>4 DEF ScheduleStep

(* A row that is claimed, or about to be. *)
LEMMA DueRowKept ==
  ASSUME NEW w \in Workers, NEW j, job'[j].status \in {"pending", "executing", "sent", "human_queue"},
         job'[j].status = "sent" => job'[j].link,
         wk'[w].pc \notin {"shadow", "direct", "superseded", "followup", "insert"},
         wk'[w].pc = "finish" => /\ wk'[w].job = j /\ wk'[w].status = job'[j].status
                                 /\ wk'[w].status \in {"sent", "human_queue"}
  PROVE  OwnKept(w, j)'
BY DEF OwnKept, RowKept, WorkerKeeps, FailedLinked, Unfinished

LEMMA KeptGuard ==
  ASSUME "shadow" \notin Modes, \A p \in Payments : Route[p] # "subscription", TypeOK, NEW w \in Workers, NEW j, Busy(w, j), hd[w] = NoHandler, UNCHANGED hd, SameRows,
         RowsInTurn, RowInHand(wk[w]), WorkerInTurn(wk[w]), OwnKept(w, j), GuardStep(w)
  PROVE  OwnKept(w, j)'
<1>1. /\ j \in Jobs /\ wk[w].job = j /\ wk[w] \in WorkerState
      /\ RowKept(wk[w], hd[w], j) /\ WorkerKeeps(wk[w]) /\ (Newest(j)' <=> Newest(j))
      /\ wk[w].pc \in PendingPcs => job[j].status = "pending" /\ link[j] = "none"
  BY BusyJob, SameRowsNewest DEF Busy, OwnKept, RowInHand, RowsInTurn, RowInTurn
<1>2. CASE Execute(w)
  <2>1. job'[j].status = "pending"
    BY <1>1, <1>2 DEF Execute, PendingPcs, db
  <2>2. PICK next \in {"void", "stub", "refuse", "claim"} : GotoWith(w, next, job[j].status, job[j].kind)
    BY <1>1, <1>2 DEF Execute, Terminal, PendingPcs
  <2> QED
    BY <1>1, <2>1, <2>2, GotoWithAt, DueRowKept
<1>3. CASE VoidOrderPaid(w)
  <2>1. job'[j].status = "no_action"
    BY <1>1, <1>3, CommitAt DEF VoidOrderPaid
  <2>2. wk'[w].pc = "voided" /\ wk'[w].job = j
    BY <1>1, <1>3, GotoAt DEF VoidOrderPaid
  <2> QED
    BY <2>1, <2>2 DEF OwnKept, RowKept, WorkerKeeps, FailedLinked, Carried
<1>4. CASE VoidOutcome(w)
  <2>1. UNCHANGED <<job, link>> /\ wk'[w].pc = "idle"
    BY <1>4, DoneAt DEF VoidOutcome, razorpay
  <2>2. outcome'[j] # <<>>
    BY <1>1, <1>4, OutcomeAt DEF VoidOutcome, WorkerInTurn
  <2> QED
    BY <1>1, <2>1, <2>2 DEF OwnKept, RowKept, WorkerKeeps, FailedLinked, HasOutcome
<1>5. CASE StubTokenRetry(w) \/ RefuseLocally(w)
  <2>1. PICK status \in {"stubbed", "failed"}, kind \in {"none", "local_guard"} :
          Commit(j, status, kind, FALSE) /\ GotoWith(w, "finish", status, kind)
    BY <1>1, <1>5 DEF StubTokenRetry, RefuseLocally
  <2>2. job'[j].status = status
    BY <1>1, <2>1, CommitAt
  <2>4. wk'[w].pc = "finish" /\ wk'[w].job = j /\ wk'[w].status = status
    BY <1>1, <2>1, GotoWithAt
  <2>3. link'[j] = "none"
    BY <1>1, <1>5 DEF StubTokenRetry, RefuseLocally, PendingPcs, razorpay
  <2> QED
    BY <2>2, <2>3, <2>4 DEF OwnKept, RowKept, WorkerKeeps, FailedLinked, Carried
<1>6. CASE ClaimForExecution(w)
  <2>1. job'[j].status = "executing"
    BY <1>1, <1>6 DEF ClaimForExecution, TypeOK, Row
  <2>2. GotoWith(w, "check", "executing", "none")
    BY <1>1, <1>6, JobIsPair DEF ClaimForExecution
  <2> QED
    BY <1>1, <2>1, <2>2, GotoWithAt, DueRowKept
<1>7. ~ClaimRefused(w)
  BY <1>1 DEF ClaimRefused, PendingPcs
<1> QED
  BY <1>2, <1>3, <1>4, <1>5, <1>6, <1>7 DEF GuardStep

LEMMA KeptSend ==
  ASSUME TypeOK, NEW w \in Workers, NEW j, Busy(w, j), hd[w] = NoHandler, UNCHANGED hd, SameRows,
         RowsInTurn, RowInHand(wk[w]), WorkerInTurn(wk[w]), OwnKept(w, j), SendStep(w), ~EarlierLanded(w)
  PROVE  OwnKept(w, j)'
<1>1. /\ j \in Jobs /\ wk[w].job = j /\ wk[w] \in WorkerState /\ wk \in [Workers -> WorkerState]
      /\ WorkerKeeps(wk[w]) /\ (Newest(j)' <=> Newest(j))
  BY BusyJob, SameRowsNewest DEF Busy, OwnKept
<1>2. ~FinishShadow(w) /\ ~SendSubscriptionPage(w) /\ ~Superseded(w)
  BY <1>1 DEF FinishShadow, SendSubscriptionPage, Superseded, WorkerKeeps
<1>4. CASE FinishDuplicate(w)
  <2>1. PICK status \in {"sent", "human_queue"} : \E linked \in BOOLEAN :
          Commit(j, status, "none", linked) /\ GotoWith(w, "finish", status, "none") /\ (status = "sent" => linked)
    BY <1>1, <1>4 DEF FinishDuplicate
  <2>2. PICK linked \in BOOLEAN :
          Commit(j, status, "none", linked) /\ GotoWith(w, "finish", status, "none") /\ (status = "sent" => linked)
    BY <2>1
  <2>3. job'[j].status = status /\ job'[j].link = (job[j].link \/ linked)
    BY <1>1, <2>2, CommitAt
  <2>4. wk'[w].pc = "finish" /\ wk'[w].job = j /\ wk'[w].status = status
    BY <1>1, <2>2, GotoWithAt
  <2> QED
    BY <2>2, <2>3, <2>4, DueRowKept
<1>5. CASE RecordResult(w)
  <2>1. Commit(j, wk[w].status, wk[w].kind, wk[w].status = "sent") /\ Goto(w, "finish")
    BY <1>1, <1>5 DEF RecordResult
  <2>2. wk[w].status \in {"sent", "failed"} /\ Newest(j)
    BY <1>1, <1>5 DEF RecordResult, RowInHand, WorkerInTurn
  <2>3. job'[j].status = wk[w].status /\ (wk[w].status = "sent" => job'[j].link)
    BY <1>1, <2>1, CommitAt
  <2>4. wk'[w].pc = "finish" /\ wk'[w].job = j /\ wk'[w].status = wk[w].status
    BY <1>1, <2>1, GotoAt
  <2> QED
    BY <1>1, <2>2, <2>3, <2>4 DEF OwnKept, RowKept, WorkerKeeps, FailedLinked, Unfinished, Carried
<1>6. CASE UNCHANGED job /\ wk[w].pc \in {"check", "earlier", "create"}
  <2>1. job'[j].status = "executing"
    BY <1>1, <1>6 DEF WorkerInTurn
  <2>2. CASE OrderCheckPaid(w) \/ OrderCheckPasses(w) \/ CreateDuplicate(w)
    <3>1. \E pc \in {"void", "earlier", "duplicate"} : Goto(w, pc)
      BY <2>2 DEF OrderCheckPaid, OrderCheckPasses, CreateDuplicate
    <3> QED
      BY <1>1, <2>1, <3>1, GotoAt, DueRowKept
  <2>3. CASE EarlierNone(w) \/ OfferRejected(w)
    <3>1. wk'[w].pc = "create"
      <4>1. CASE EarlierNone(w)
        BY <1>1, <4>1 DEF EarlierNone, WorkerState
      <4>2. CASE OfferRejected(w)
        BY <1>1, <4>2 DEF OfferRejected, WorkerState
      <4> QED
        BY <2>3, <4>1, <4>2
    <3> QED
      BY <2>1, <3>1, DueRowKept
  <2>4. CASE CreateLink(w)
    <3>1. GotoWith(w, "record", "sent", "none")
      BY <2>4 DEF CreateLink
    <3> QED
      BY <1>1, <2>1, <3>1, GotoWithAt, DueRowKept
  <2>5. CASE CreateRefused(w) \/ CreateUnanswered(w)
    <3>1. wk[w].pc = "create" /\ \E kind : AfterFailure(w, kind)
      BY <2>5 DEF CreateRefused, CreateUnanswered
    <3>2. wk'[w].pc \in {"create", "record"}
      BY <1>1, <3>1, AfterFailureAt
    <3> QED
      BY <2>1, <3>2, DueRowKept
  <2> QED
    BY <1>2, <1>6, <2>2, <2>3, <2>4, <2>5 DEF SendStep, FinishDuplicate, RecordResult
<1> QED
  BY <1>2, <1>4, <1>5, <1>6 DEF SendStep, OrderCheckPaid, OrderCheckPasses, EarlierNone, CreateLink, CreateDuplicate,
     CreateRefused, OfferRejected, CreateUnanswered, db

LEMMA KeptFinish ==
  ASSUME TypeOK, NEW w \in Workers, NEW j, Busy(w, j), hd[w] = NoHandler, UNCHANGED hd, SameRows,
         RowsInTurn, RowInHand(wk[w]), WorkerInTurn(wk[w]), OwnKept(w, j), FinishStep(w)
  PROVE  OwnKept(w, j)'
<1>1. /\ j \in Jobs /\ wk[w].job = j /\ wk[w] \in WorkerState
      /\ RowKept(wk[w], hd[w], j) /\ WorkerKeeps(wk[w]) /\ (Newest(j)' <=> Newest(j))
  BY BusyJob, SameRowsNewest DEF Busy, OwnKept
<1>2. wk[w].pc = "finish" => wk[w].status = job[j].status /\ wk[w].status \in {"sent", "stubbed", "failed", "human_queue"}
  BY <1>1 DEF WorkerKeeps
<1>3. CASE FinishSent(w)
  <2>1. job'[j].status = job[j].status /\ job[j].status = "sent" /\ job'[j].link = job[j].link
    BY <1>1, <1>2, <1>3 DEF FinishSent, TypeOK, Row
  <2>2. wk'[w].pc = "idle"
    BY <1>3, DoneAt DEF FinishSent
  <2> QED
    BY <1>1, <2>1, <2>2, DueRowKept DEF RowKept
(* finish_job goes on to the outcome, or there is one. *)
<1>4. ASSUME UNCHANGED <<job, outcome, link>>, wk[w].pc = "finish", ToClose(w) PROVE OwnKept(w, j)'
  <2>1. CASE outcome[j] = <<>>
    <3>1. wk'[w].pc = "close" /\ wk'[w].job = j
      BY <1>1, <1>4, <2>1, GotoAt DEF ToClose
    <3> QED
      BY <1>1, <1>4, <3>1 DEF OwnKept, RowKept, WorkerKeeps, FailedLinked, Carried, HasOutcome
  <2>2. CASE outcome[j] # <<>>
    <3>1. wk'[w].pc = "idle"
      BY <1>1, <1>4, <2>2, DoneAt DEF ToClose
    <3> QED
      BY <1>1, <1>4, <2>2, <3>1 DEF OwnKept, RowKept, WorkerKeeps, FailedLinked, HasOutcome
  <2> QED
    BY <2>1, <2>2
(* Or it goes on to the next row: the request left no link. *)
<1>5. ASSUME UNCHANGED <<job, outcome, link>>, Goto(w, "followup"), link[j] = "none" PROVE OwnKept(w, j)'
  <2>1. wk'[w].pc = "followup" /\ wk'[w].job = j
    BY <1>1, <1>5, GotoAt
  <2> QED
    BY <1>1, <1>5, <2>1 DEF OwnKept, RowKept, WorkerKeeps, FailedLinked, Carried
<1>6. CASE FinishClosed(w)
  BY <1>4, <1>6 DEF FinishClosed, db, razorpay
<1>7. CASE FinishThrottled(w)
  <2>1. link[j] = "none"
    BY <1>1, <1>7 DEF FinishThrottled, WorkerInTurn, RetryableKinds, AmbiguousKinds
  <2> QED
    BY <1>5, <1>7, <2>1 DEF FinishThrottled, db, razorpay
<1>8. CASE Reconcile(w)
  <2>1. PICK answer \in LookupByReference(j) :
          \/ Commit(j, "sent", "none", TRUE) /\ GotoWith(w, "finish", "sent", "none")
          \/ answer = "absent" /\ Goto(w, "followup") /\ UNCHANGED job
          \/ ToClose(w) /\ UNCHANGED job
    BY <1>1, <1>8 DEF Reconcile
  <2>2. UNCHANGED <<outcome, link>> /\ wk[w].pc = "finish"
    BY <1>8 DEF Reconcile, razorpay
  <2>3. CASE Commit(j, "sent", "none", TRUE) /\ GotoWith(w, "finish", "sent", "none")
    <3>1. job'[j].status = "sent" /\ job'[j].link
      BY <1>1, <2>3, CommitAt
    <3>2. wk'[w].pc = "finish" /\ wk'[w].job = j /\ wk'[w].status = "sent"
      BY <1>1, <2>3, GotoWithAt
    <3> QED
      BY <3>1, <3>2, DueRowKept
  <2>4. CASE answer = "absent" /\ Goto(w, "followup") /\ UNCHANGED job
    <3>1. link[j] = "none"
      BY <2>4 DEF LookupByReference
    <3> QED
      BY <1>5, <2>2, <2>4, <3>1
  <2> QED
    BY <1>4, <2>1, <2>2, <2>3, <2>4
<1>9. ~FinishOther(w)
  BY <1>2 DEF FinishOther
<1>10. CASE Close(w)
  <2>1. UNCHANGED <<job, link>> /\ wk'[w].pc = "idle"
    BY <1>10, DoneAt DEF Close, razorpay
  <2>2. outcome'[j] # <<>>
    BY <1>1, <1>10, OutcomeAt DEF Close, WorkerInTurn
  <2> QED
    BY <1>1, <2>1, <2>2 DEF OwnKept, RowKept, WorkerKeeps, FailedLinked, HasOutcome
<1> QED
  BY <1>3, <1>6, <1>7, <1>8, <1>9, <1>10 DEF FinishStep

(* It touches no other row. *)
LEMMA OnlyItsRow ==
  ASSUME TypeOK, NEW w \in Workers, NEW j, Busy(w, j), Step(w), ~EarlierLanded(w)
  PROVE  OnlyRow(j)
<1>1. j \in Jobs /\ wk[w].job = j
  BY BusyJob DEF Busy
<1>2. \A k \in Jobs \ {j} : job'[k] = job[k]
  <2>1. ASSUME NEW status, NEW kind, NEW linked \in BOOLEAN, Commit(j, status, kind, linked)
        PROVE  \A k \in Jobs \ {j} : job'[k] = job[k]
    BY <1>1, <2>1, CommitAt
  <2>2. ASSUME NEW r, job' = [job EXCEPT ![j] = r] PROVE \A k \in Jobs \ {j} : job'[k] = job[k]
    BY <1>1, <2>2 DEF TypeOK
  <2>3. CASE UNCHANGED job
    BY <2>3
  <2>4. CASE ScheduleStep(w)
    BY <1>1, <2>2, <2>3, <2>4 DEF ScheduleStep, Followup, InsertDuplicate, Insert, Park, db
  <2>5. CASE RecoverStep(w)
    BY <1>1, <2>1, <2>3, <2>5 DEF RecoverStep, RecoverLookup, RecoverStaleExecution, db
  <2>6. CASE GuardStep(w)
    BY <1>1, <2>1, <2>2, <2>3, <2>6 DEF GuardStep, Execute, VoidOrderPaid, VoidOutcome, StubTokenRetry,
       RefuseLocally, ClaimForExecution, ClaimRefused, db
  <2>7. CASE SendStep(w)
    BY <1>1, <2>1, <2>3, <2>7 DEF SendStep, FinishShadow, SendSubscriptionPage, OrderCheckPaid, OrderCheckPasses,
       EarlierNone, Superseded, CreateLink, CreateDuplicate, CreateRefused, OfferRejected, CreateUnanswered,
       FinishDuplicate, RecordResult, db
  <2>8. CASE FinishStep(w)
    BY <1>1, <2>1, <2>2, <2>3, <2>8 DEF FinishStep, FinishSent, FinishClosed, FinishThrottled, Reconcile,
       FinishOther, Close, db
  <2> QED
    BY <2>4, <2>5, <2>6, <2>7, <2>8 DEF Step
<1>3. \A k \in Jobs \ {j} : link'[k] = link[k]
  <2>1. CASE CreateLink(w) \/ CreateUnanswered(w)
    BY <1>1, <2>1 DEF CreateLink, CreateUnanswered, TypeOK
  <2>2. CASE UNCHANGED link
    BY <2>2
  <2> QED
    BY <2>1, <2>2 DEF Step, ScheduleStep, Followup, InsertDuplicate, Insert, Park,
     RecoverStep, RecoverLookup, RecoverStaleExecution, GuardStep, Execute, VoidOrderPaid, VoidOutcome,
     StubTokenRetry, RefuseLocally, ClaimForExecution, ClaimRefused, FinishStep, FinishSent, FinishClosed,
     FinishThrottled, Reconcile, FinishOther, Close, SendStep, FinishShadow, SendSubscriptionPage, OrderCheckPaid,
     OrderCheckPasses, EarlierNone, Superseded, CreateDuplicate, CreateRefused,
     OfferRejected, FinishDuplicate, RecordResult, razorpay
<1>4. \A k \in Jobs \ {j} : outcome'[k] = outcome[k]
  <2>1. CASE RecordOutcome(j, "lost")
    BY <1>1, <2>1 DEF RecordOutcome, TypeOK
  <2>2. CASE UNCHANGED outcome
    BY <2>2
  <2> QED
    BY <1>1, <2>1, <2>2 DEF Step, ScheduleStep, Followup, InsertDuplicate, Insert, Park,
     RecoverStep, RecoverLookup, RecoverStaleExecution, GuardStep, Execute, VoidOrderPaid, VoidOutcome,
     StubTokenRetry, RefuseLocally, ClaimForExecution, ClaimRefused, FinishStep, FinishSent, FinishClosed,
     FinishThrottled, Reconcile, FinishOther, Close, SendStep, FinishShadow, SendSubscriptionPage, OrderCheckPaid,
     OrderCheckPasses, EarlierNone, Superseded, CreateLink, CreateUnanswered, CreateDuplicate, CreateRefused,
     OfferRejected, FinishDuplicate, RecordResult, db
<1> QED
  BY <1>2, <1>3, <1>4 DEF OnlyRow

(* A row that is carried is the one at hand, or the one before it. *)
LEMMA OtherRowKept ==
  ASSUME TypeOK, NEW w \in Workers, NEW j, Busy(w, j), hd[w] = NoHandler, SameRows, WorkerInTurn(wk[w]),
         NEW k \in Jobs \ {j}, RowKept(wk[w], hd[w], k), Step(w), ~Insert(w),
         job'[k] = job[k], link'[k] = link[k], outcome'[k] = outcome[k]
  PROVE  RowKept(wk[w], hd[w], k)'
<1>1. wk[w].job = j /\ j \in Jobs /\ (Newest(k)' <=> Newest(k))
  BY BusyJob, SameRowsNewest DEF Busy
<1>2. Newest(k) => ~Carried(wk[w], hd[w], k)
  <2> SUFFICES ASSUME Newest(k), Carried(wk[w], hd[w], k) PROVE FALSE
    OBVIOUS
  <2>1. wk[w].pc = "insert" /\ j = <<k[1], k[2] + 1>>
    BY <1>1 DEF Carried, NoHandler
  <2>2. InsertDuplicate(w)
    BY <2>1 DEF Step, ScheduleStep, Followup, Park, RecoverStep, RecoverLookup, RecoverStaleExecution,
       GuardStep, Execute, VoidOrderPaid, VoidOutcome, StubTokenRetry, RefuseLocally, ClaimForExecution, ClaimRefused,
       FinishStep, FinishSent, FinishClosed, FinishThrottled, Reconcile, FinishOther, Close, SendStep, FinishShadow,
       SendSubscriptionPage, OrderCheckPaid, OrderCheckPasses, EarlierLanded, EarlierNone, Superseded, CreateLink,
       CreateDuplicate, CreateRefused, OfferRejected, CreateUnanswered, FinishDuplicate, RecordResult
  <2>3. j[2] \in SeqsOf(k[1])
    BY <1>1, <2>1, <2>2, JobIsPair DEF InsertDuplicate, KeyTaken, SeqsOf
  <2>4. j[2] = k[2] + 1 /\ k[2] \in Nat
    BY <2>1, JobIsPair, ConstantsAssumption
  <2> QED
    BY <2>3, <2>4 DEF Newest
<1> QED
  BY <1>1, <1>2 DEF RowKept, FailedLinked, HasOutcome

(* The next row: the rows before it are over. *)
LEMMA KeptInsert ==
  ASSUME TypeOK, AttemptsInTurn, NEW w \in Workers, NEW j, Busy(w, j), hd[w] = NoHandler, UNCHANGED hd, Insert(w),
         \A k \in Jobs : RowKept(wk[w], hd[w], k), WorkerKeeps(wk[w])
  PROVE  (\A k \in Jobs : RowKept(wk[w], hd[w], k))' /\ WorkerKeeps(wk[w])'
<1> DEFINE i == <<j[1], j[2] - 1>>
<1>1. /\ j \in Jobs /\ wk[w].job = j /\ wk[w].pc = "insert" /\ j = <<j[1], j[2]>> /\ j[2] \in Nat
      /\ UNCHANGED <<outcome, link>>
  BY BusyJob, JobIsPair, ConstantsAssumption DEF Busy, Insert, razorpay
<1>2. /\ ~Exists(j) /\ Exists(j)' /\ \A k \in Jobs \ {j} : Exists(k)' <=> Exists(k)
      /\ \A k \in Jobs : Exists(k) /\ k[1] = j[1] => k[2] < j[2]
      /\ j[2] = 1 \/ MayFollow(i)
  BY InsertInTurn
<1>3. PICK status \in {"pending", "human_queue", "no_action"} :
        /\ job' = [job EXCEPT ![j] = [NoRow EXCEPT !.status = status]]
        /\ \/ status \in Parked /\ GotoWith(w, "park", status, "none")
           \/ status = "pending" /\ (GotoWith(w, "execute", status, "none") \/ Done(w))
  <2>1. PICK status \in ScheduleStatuses(j, wk[w].answer) :
          /\ job' = [job EXCEPT ![j] = [NoRow EXCEPT !.status = status]]
          /\ \/ status \in Parked /\ GotoWith(w, "park", status, "none")
             \/ status = "pending" /\ j[2] = 1 /\ GotoWith(w, "execute", status, "none")
             \/ status = "pending" /\ Done(w)
    BY <1>1 DEF Insert
  <2>2. status \in {"pending", "human_queue", "no_action"}
    BY <2>1 DEF Parked
  <2> QED
    BY <2>1, <2>2
<1>4. job'[j].status = status /\ \A k \in Jobs \ {j} : job'[k] = job[k]
  BY <1>1, <1>3 DEF TypeOK, NoRow
<1>5. \/ wk'[w].pc = "park" /\ wk'[w].job = j
      \/ status = "pending" /\ wk'[w].pc \in {"execute", "idle"}
  BY <1>1, <1>3, GotoWithAt, DoneAt
<1>6. WorkerKeeps(wk[w])'
  BY <1>5 DEF WorkerKeeps
<1>7. RowKept(wk[w], hd[w], j)'
  BY <1>4, <1>5 DEF RowKept, FailedLinked, Unfinished, Carried
<1>8. ASSUME NEW k \in Jobs, k # j, ~Exists(k) PROVE RowKept(wk[w], hd[w], k)'
  BY <1>4, <1>8 DEF RowKept, FailedLinked, Unfinished, Exists
<1>9. ASSUME NEW k \in Jobs, k # j, Exists(k), k[1] = j[1] PROVE RowKept(wk[w], hd[w], k)'
  <2>1. k[2] < j[2] /\ k = <<k[1], k[2]>> /\ k[2] \in Nat \ {0}
    BY <1>2, <1>9, JobIsPair, ConstantsAssumption
  <2>2. ~Newest(k)'
    <3>1. j[2] \in SeqsOf(k[1])'
      BY <1>1, <1>2, <1>9, JobIsPair DEF SeqsOf
    <3> QED
      BY <1>1, <2>1, <3>1 DEF Newest
  <2>3. ~FailedLinked(k)
    <3>1. j[2] # 1 /\ MayFollow(i)
      BY <1>1, <1>2, <2>1
    <3>2. CASE k = i
      BY <1>1, <3>1, <3>2 DEF WorkerKeeps
    <3>3. CASE k # i
      <4>1. k[2] # i[2] /\ i[1] = k[1] /\ i[2] = j[2] - 1
        BY <1>9, <2>1, <3>3
      <4>2. i[2] \in SeqsOf(k[1])
        <5>1. Exists(i)
          BY <3>1 DEF MayFollow
        <5>2. i[2] \in 1..MaxSeq
          BY <1>1, <3>1, JobIsPair, ConstantsAssumption
        <5> QED
          BY <1>9, <4>1, <5>1, <5>2 DEF SeqsOf
      <4>3. ~Newest(k)
        BY <1>1, <2>1, <4>1, <4>2 DEF Newest
      <4> QED
        BY <4>3 DEF RowKept
    <3> QED
      BY <3>2, <3>3
  <2>4. job'[k] = job[k] /\ link'[k] = link[k]
    BY <1>1, <1>4, <1>9
  <2> QED
    BY <2>2, <2>3, <2>4 DEF RowKept, FailedLinked
<1>10. ASSUME NEW k \in Jobs, k # j, Exists(k), k[1] # j[1] PROVE RowKept(wk[w], hd[w], k)'
  <2>1. SeqsOf(k[1])' = SeqsOf(k[1])
    <3>1. \A s \in 1..MaxSeq : <<k[1], s>> \in Jobs \ {j}
      BY <1>10, JobIsPair, JobOfPayment
    <3> QED
      BY <1>2, <3>1 DEF SeqsOf
  <2>2. ~Carried(wk[w], hd[w], k)
    BY <1>1, <1>10 DEF Carried, NoHandler
  <2>3. job'[k] = job[k] /\ link'[k] = link[k] /\ outcome'[k] = outcome[k]
    BY <1>1, <1>4, <1>10
  <2> QED
    BY <1>1, <2>1, <2>2, <2>3 DEF RowKept, FailedLinked, HasOutcome, Newest
<1> QED
  BY <1>6, <1>7, <1>8, <1>9, <1>10

LEMMA KeptBegin ==
  ASSUME TypeOK, NEW w \in Workers, hd[w] = NoHandler, UNCHANGED hd, Begin(w),
         \A k \in Jobs : RowKept(wk[w], hd[w], k), \A p \in attempts : Stored(wk[w], p)
  PROVE  (\A k \in Jobs : RowKept(wk[w], hd[w], k))' /\ WorkerKeeps(wk[w])' /\ (\A p \in attempts : Stored(wk[w], p))'
<1>1. wk[w].pc = "idle" /\ UNCHANGED <<job, outcome, link>>
  BY DEF Begin, ProcessAttempt, Sweep, db, razorpay
<1>2. \A p : SeqsOf(p)' = SeqsOf(p)
  BY <1>1 DEF SeqsOf, Exists
<1>3. ASSUME NEW k \in Jobs PROVE RowKept(wk[w], hd[w], k)'
  <2>1. ~Carried(wk[w], hd[w], k)
    BY <1>1 DEF Carried, NoHandler
  <2> QED
    BY <1>1, <1>2, <2>1 DEF RowKept, FailedLinked, HasOutcome, Newest
<1>4. \A p \in attempts : SeqsOf(p)' # {}
  BY <1>1, <1>2 DEF Stored
<1>5. ASSUME NEW p \in Payments, ProcessAttempt(w, p)
      PROVE  WorkerKeeps(wk[w])' /\ (\A q \in attempts : Stored(wk[w], q))'
  <2>1. wk'[w].pc = "insert" /\ wk'[w].job = <<p, 1>> /\ attempts' = attempts \cup {p}
    BY <1>5 DEF ProcessAttempt, TypeOK, Idle
  <2> QED
    BY <1>4, <2>1 DEF WorkerKeeps, Stored
<1>6. ASSUME NEW j \in Jobs, Sweep(w, j)
      PROVE  WorkerKeeps(wk[w])' /\ (\A q \in attempts : Stored(wk[w], q))'
  <2>1. wk'[w].pc \in {"recover", "execute"} /\ UNCHANGED attempts
    BY <1>6 DEF Sweep, TypeOK, Idle, db, payments
  <2> QED
    BY <1>4, <2>1 DEF WorkerKeeps, Stored
<1> QED
  BY <1>3, <1>5, <1>6 DEF Begin

LEMMA StoredStep ==
  ASSUME TypeOK, NEW w \in Workers, NEW j, Busy(w, j), Step(w), \A k \in Jobs : Exists(k) => Exists(k)',
         NEW p \in attempts, Stored(wk[w], p)
  PROVE  SeqsOf(p)' # {}
<1>1. p \in Payments /\ j \in Jobs /\ wk[w].job = j
  BY BusyJob DEF Busy, TypeOK
<1>3. CASE SeqsOf(p) # {}
  <2>1. PICK s \in SeqsOf(p) : s \in 1..MaxSeq /\ Exists(<<p, s>>)
    BY <1>3 DEF SeqsOf
  <2> QED
    BY <1>1, <2>1, JobOfPayment DEF SeqsOf
<1>4. CASE SeqsOf(p) = {}
  <2>1. wk[w].pc = "insert" /\ j = <<p, 1>>
    BY <1>1, <1>4 DEF Stored
  <2>2. InsertDuplicate(w) \/ Insert(w)
    BY <2>1 DEF Step, ScheduleStep, Followup, Park, RecoverStep, RecoverLookup, RecoverStaleExecution,
       GuardStep, Execute, VoidOrderPaid, VoidOutcome, StubTokenRetry, RefuseLocally, ClaimForExecution, ClaimRefused,
       FinishStep, FinishSent, FinishClosed, FinishThrottled, Reconcile, FinishOther, Close, SendStep, FinishShadow,
       SendSubscriptionPage, OrderCheckPaid, OrderCheckPasses, EarlierLanded, EarlierNone, Superseded, CreateLink,
       CreateDuplicate, CreateRefused, OfferRejected, CreateUnanswered, FinishDuplicate, RecordResult
  <2>3. Exists(j)'
    <3>1. CASE InsertDuplicate(w)
      BY <1>1, <3>1 DEF InsertDuplicate, KeyTaken
    <3>2. CASE Insert(w)
      BY <1>1, <3>2 DEF Insert, TypeOK, NoRow, Exists, ScheduleStatuses, Parked
    <3> QED
      BY <2>2, <3>1, <3>2
  <2> QED
    BY <1>1, <2>1, <2>3, JobIsPair DEF SeqsOf
<1> QED
  BY <1>3, <1>4

LEMMA KeptExecution ==
  ASSUME Serial, ~LateLanding, "shadow" \notin Modes, \A p \in Payments : Route[p] # "subscription",
         STypeInv, AttemptsInTurn, HandsInv, KeptInv, NEW w \in Workers, Execution(w)
  PROVE  KeptInv'
<1>1. /\ TypeOK /\ RowInHand(wk[w]) /\ RowsInTurn /\ WorkerInTurn(wk[w])
      /\ hd[w] = NoHandler /\ UNCHANGED hd
      /\ (\A k \in Jobs : RowKept(wk[w], hd[w], k)) /\ WorkerKeeps(wk[w])
      /\ \A p \in attempts : Stored(wk[w], p)
  BY DEF STypeInv, HandsInv, AttemptsInTurn, KeptInv, Execution
<1>2. ASSUME (\A k \in Jobs : RowKept(wk[w], hd[w], k))', WorkerKeeps(wk[w])', (\A p \in attempts : Stored(wk[w], p))'
      PROVE  KeptInv'
  <2>1. HandlerKeeps(hd[w])'
    BY <1>1 DEF HandlerKeeps, NoHandler
  <2> QED
    BY <1>2, <2>1 DEF Serial, KeptInv
<1>3. CASE Begin(w)
  BY <1>1, <1>2, <1>3, KeptBegin
<1>4. CASE Step(w)
  <2>1. Busy(w, wk[w].job)
    BY <1>1, <1>4, StepIsBusy
  <2>2. PICK j : Busy(w, j)
    BY <2>1
  <2>3. j \in Jobs /\ ~EarlierLanded(w) /\ ~RecoverStep(w)
    BY <1>1, <2>2, BusyJob, NothingLanded DEF RowInHand, RecoverStep, RecoverLookup, RecoverStaleExecution
  <2>4. UNCHANGED attempts
    BY <1>1, <1>4, <2>2, ExecutionTouches
  <2>5. CASE Insert(w)
    <3>1. Exists(j)' /\ \A k \in Jobs \ {j} : Exists(k)' <=> Exists(k)
      BY <1>1, <2>2, <2>5, InsertInTurn
    <3>2. \A p \in attempts : SeqsOf(p)' # {}
      BY <1>1, <1>4, <2>2, <3>1, StoredStep
    <3>3. (\A k \in Jobs : RowKept(wk[w], hd[w], k))' /\ WorkerKeeps(wk[w])'
      BY <1>1, <2>2, <2>5, KeptInsert
    <3> QED
      BY <1>2, <2>4, <3>2, <3>3 DEF Stored
  <2>6. CASE ~Insert(w)
    <3>1. SameRows
      BY <2>3, <2>6, ExecutionInTurn DEF RowsKept, Serial
    <3>2. OnlyRow(j)
      BY <1>1, <1>4, <2>2, <2>3, OnlyItsRow
    <3>3. \A k \in Jobs \ {j} : RowKept(wk[w], hd[w], k)'
      BY <1>1, <1>4, <2>2, <2>6, <3>1, <3>2, OtherRowKept DEF OnlyRow
    <3>4. OwnKept(w, j)
      BY <1>1, <2>3 DEF OwnKept
    <3>5. OwnKept(w, j)'
      <4>1. CASE ScheduleStep(w)
        BY <1>1, <2>2, <2>6, <3>1, <3>4, <4>1, KeptSchedule
      <4>2. CASE GuardStep(w)
        BY <1>1, <2>2, <3>1, <3>4, <4>2, KeptGuard
      <4>3. CASE SendStep(w)
        BY <1>1, <2>2, <2>3, <3>1, <3>4, <4>3, KeptSend
      <4>4. CASE FinishStep(w)
        BY <1>1, <2>2, <3>1, <3>4, <4>4, KeptFinish
      <4> QED
        BY <1>4, <2>3, <4>1, <4>2, <4>3, <4>4 DEF Step
    <3>6. \A p \in attempts : SeqsOf(p)' # {}
      BY <1>1, <1>4, <2>2, <3>1, StoredStep DEF SameRows
    <3>7. (\A k \in Jobs : RowKept(wk[w], hd[w], k))' /\ WorkerKeeps(wk[w])'
      BY <3>3, <3>5 DEF OwnKept
    <3> QED
      BY <1>2, <2>4, <3>6, <3>7 DEF Stored
  <2> QED
    BY <2>5, <2>6
<1> QED
  BY <1>3, <1>4 DEF Execution

(* The handlers run while the process carries nothing: a row they leave alone *)
(* stays as it was, and the row they close goes to its outcome.              *)
LEMMA RowStays ==
  ASSUME NEW w \in Workers, wk[w] = Idle, SameRows, NEW k \in Jobs, RowKept(wk[w], hd[w], k),
         hd[w].pc = "closed" => hd[w].job # k,
         job'[k].status = job[k].status, job[k].link => job'[k].link, outcome'[k] = outcome[k],
         link'[k] # "none" => link[k] # "none"
  PROVE  RowKept(wk[w], hd[w], k)'
<1>1. ~Carried(wk[w], hd[w], k) /\ wk[w].pc = "idle" /\ (Newest(k)' <=> Newest(k))
  BY IdleType, SameRowsNewest DEF Carried
<1> QED
  BY <1>1 DEF RowKept, FailedLinked, HasOutcome

LEMMA KeptSettle ==
  ASSUME STypeInv, AttemptsInTurn, NEW w \in Workers, NEW h, h = hd[w], SettleStep(w), SameRows,
         \A k \in Jobs : RowKept(wk[w], h, k), HandlerKeeps(h)
  PROVE  (\A k \in Jobs : RowKept(wk[w], hd[w], k))' /\ WorkerKeeps(wk[w])' /\ HandlerKeeps(hd[w])'
<1>1. /\ TypeOK /\ wk[w] = Idle /\ wk[w].pc = "idle" /\ h \in HandlerState /\ h.pending \subseteq Jobs /\ h.live \subseteq Jobs
      /\ h.pc \in JobPcs => h.job \in Jobs
      /\ hd \in [Workers -> HandlerState] /\ HandlerInTurn(h)
  BY SettleIsHandling, IdleType, HandlingFacts DEF Handling, STypeInv, HandlerTypeOK, HandlerState
<1>2. UNCHANGED wk => WorkerKeeps(wk[w])'
  BY <1>1 DEF WorkerKeeps
<1>3. hd'[w].pc # "lapsed" => HandlerKeeps(hd[w])'
  BY DEF HandlerKeeps
(* What only reads. *)
<1>4. ASSUME UNCHANGED <<job, outcome, link>>, h.pc # "closed" PROVE \A k \in Jobs : RowKept(wk[w], hd[w], k)'
  BY <1>1, <1>4, RowStays
<1>5. CASE \/ PaidIgnored(w) \/ PaidChecked(w) \/ MarkOrderPaid(w) \/ TakeAttempt(w) \/ AttemptsDone(w) \/ CancelSkipped(w)
           \/ ExpiredIgnored(w) \/ ExpiredChecked(w) \/ StillOpen(w) \/ FetchLink(w)
  <2>1. UNCHANGED <<job, outcome, link, wk>> /\ h.pc # "closed" /\ h.pc # "lapsed"
    BY <1>5 DEF PaidIgnored, PaidChecked, MarkOrderPaid, TakeAttempt, AttemptsDone, CancelSkipped, ExpiredIgnored,
       ExpiredChecked, StillOpen, FetchLink, vars, razorpay
  <2>2. hd'[w].pc # "lapsed"
    <3>1. CASE Answered(w)
      BY <1>1, <3>1 DEF Answered, NoHandler
    <3>2. CASE \E pc \in {"recovered", "polled"} : Handle(w, pc)
      BY <1>1, <3>2 DEF Handle, HandlerState
    <3>3. CASE MarkOrderPaid(w) /\ ~Answered(w)
      BY <1>1, <3>3 DEF MarkOrderPaid, HandlerState
    <3>4. CASE TakeAttempt(w) \/ CancelSkipped(w)
      <4>1. CASE TakeAttempt(w)
        <5>1. PICK p \in h.todo :
                hd' = [hd EXCEPT ![w] = [h EXCEPT !.todo = h.todo \ {p}, !.pending = PendingOf(p), !.live = LiveOf(p)]]
          BY <1>1, <4>1 DEF TakeAttempt
        <5>2. hd'[w] = [h EXCEPT !.todo = h.todo \ {p}, !.pending = PendingOf(p), !.live = LiveOf(p)]
          BY <1>1, <5>1
        <5> QED
          BY <1>1, <2>1, <5>2 DEF HandlerState
      <4>2. CASE CancelSkipped(w)
        <5>1. hd'[w] = [h EXCEPT !.live = h.live \ {First(h.live)}]
          BY <1>1, <4>2 DEF CancelSkipped
        <5> QED
          BY <1>1, <2>1, <5>1 DEF HandlerState
      <4> QED
        BY <3>4, <4>1, <4>2
    <3>5. CASE FetchLink(w)
      BY <1>1, <3>5 DEF FetchLink, HandlerState
    <3> QED
      BY <1>5, <3>1, <3>2, <3>3, <3>4, <3>5 DEF PaidIgnored, PaidChecked, AttemptsDone, ExpiredIgnored, ExpiredChecked, StillOpen
  <2> QED
    BY <1>2, <1>3, <1>4, <2>1, <2>2
<1>6. CASE ExpiryFollowup(w)
  <2>1. /\ UNCHANGED <<job, outcome, link>> /\ h.pc = "lapsed" /\ hd'[w].pc = "idle"
        /\ wk'[w].pc = "idle" \/ (wk'[w].pc = "followup" /\ wk'[w].job = h.job)
    BY <1>1, <1>6, IdleType DEF ExpiryFollowup, Answered, NoHandler, TypeOK, Idle, db, razorpay
  <2>2. WorkerKeeps(wk[w])'
    BY <2>1 DEF WorkerKeeps, HandlerKeeps, FailedLinked
  <2> QED
    BY <1>3, <1>4, <2>1, <2>2
(* One row is written. *)
<1>7. ASSUME NEW j \in Jobs, NEW status, NEW kind, NEW linked \in BOOLEAN, Commit(j, status, kind, linked)
      PROVE  /\ job'[j].status = status /\ job'[j].link = (job[j].link \/ linked)
             /\ \A k \in Jobs \ {j} : job'[k] = job[k]
  BY <1>1, <1>7, CommitAt
<1>8. ASSUME NEW j \in Jobs, RowKept(wk[w], hd[w], j)', h.pc = "closed" => h.job = j, \A k \in Jobs \ {j} : job'[k] = job[k],
             \A k \in Jobs \ {j} : outcome'[k] = outcome[k], UNCHANGED link
      PROVE  \A k \in Jobs : RowKept(wk[w], hd[w], k)'
  <2>1. ASSUME NEW k \in Jobs, k # j PROVE RowKept(wk[w], hd[w], k)'
    BY <1>1, <1>8, <2>1, RowStays
  <2> QED
    BY <1>8, <2>1
<1>9. CASE ClosePaidLink(w)
  <2>1. h.pc = "recovered" /\ h.job \in Jobs /\ UNCHANGED <<link, wk>> /\ RecordOutcome(h.job, "recovered") /\ outcome[h.job] = <<>>
    BY <1>1, <1>9 DEF ClosePaidLink, JobPcs, razorpay, HandlerInTurn
  <2>2. outcome'[h.job] = <<"recovered">> /\ \A k \in Jobs \ {h.job} : outcome'[k] = outcome[k]
    BY <1>1, <2>1, OutcomeAt
  <2>3. job'[h.job].status = "sent" /\ job'[h.job].link /\ \A k \in Jobs \ {h.job} : job'[k] = job[k]
    BY <1>7, <1>9, <2>1 DEF ClosePaidLink
  <2>4. RowKept(wk[w], hd[w], h.job)'
    BY <2>3 DEF RowKept, FailedLinked, Unfinished
  <2>5. hd'[w].pc # "lapsed"
    <3>1. CASE Answered(w)
      BY <1>1, <3>1 DEF Answered, NoHandler
    <3>2. CASE ~Answered(w)
      <4>1. hd' = [hd EXCEPT ![w] = [NoHandler EXCEPT !.pc = "mark", !.order = OrderOf[h.job[1]]]]
        BY <1>9, <3>2 DEF ClosePaidLink
      <4> QED
        BY <1>1, <4>1 DEF NoHandler
    <3> QED
      BY <3>1, <3>2
  <2> QED
    BY <1>2, <1>3, <1>8, <2>1, <2>2, <2>3, <2>4, <2>5
<1>10. CASE VoidPending(w)
  <2>1. PICK j \in h.pending : j = First(h.pending)
    BY <1>1, <1>10, FirstIsMember DEF VoidPending
  <2>2. /\ j \in Jobs /\ Commit(j, "no_action", "none", FALSE) /\ h.pc = "attempt" /\ UNCHANGED <<outcome, link, wk>>
        /\ hd'[w].pc = "closed" /\ hd'[w].job = j
    BY <1>1, <1>10, <2>1 DEF VoidPending, razorpay, HandlerState
  <2>3. job'[j].status = "no_action" /\ \A k \in Jobs \ {j} : job'[k] = job[k]
    BY <1>7, <2>2
  <2>4. RowKept(wk[w], hd[w], j)'
    BY <2>2, <2>3 DEF RowKept, FailedLinked, Carried
  <2> QED
    BY <1>2, <1>3, <1>8, <2>2, <2>3, <2>4
<1>11. CASE CancelLink(w)
  <2>1. PICK j \in h.live : j = First(h.live)
    BY <1>1, <1>11, FirstIsMember DEF CancelLink
  <2>2. UNCHANGED <<job, outcome, wk>> /\ h.pc = "attempt" /\ hd'[w].pc \in {"cancelled", "parked"}
    <3>1. UNCHANGED <<job, outcome, wk>> /\ h.pc = "attempt"
      BY <1>11 DEF CancelLink, db
    <3>2. PICK pc \in {"cancelled", "parked"}, i \in {First(h.live)} :
            hd' = [hd EXCEPT ![w] = [h EXCEPT !.pc = pc, !.job = i, !.live = h.live \ {i}]]
      BY <1>11 DEF CancelLink
    <3> QED
      BY <1>1, <3>1, <3>2 DEF HandlerState
  <2>3. \A k \in Jobs : link'[k] # "none" => link[k] # "none"
    BY <1>1, <1>11, <2>1 DEF CancelLink, Live, TypeOK
  <2>4. \A k \in Jobs : RowKept(wk[w], hd[w], k)'
    BY <1>1, <2>2, <2>3, RowStays
  <2> QED
    BY <1>2, <1>3, <2>2, <2>4
<1>12. CASE RecordCancel(w)
  <2>1. PICK status \in {"cancelled", "human_queue"} : Commit(h.job, status, "none", FALSE)
    BY <1>12 DEF RecordCancel
  <2>2. /\ h.pc \in {"cancelled", "parked"} /\ h.job \in Jobs /\ UNCHANGED <<outcome, link, wk>>
        /\ hd'[w].pc = "closed" /\ hd'[w].job = h.job
    BY <1>1, <1>12 DEF RecordCancel, Handle, JobPcs, razorpay, HandlerState
  <2>3. job'[h.job].status = status /\ \A k \in Jobs \ {h.job} : job'[k] = job[k]
    BY <1>7, <2>1, <2>2
  <2>4. RowKept(wk[w], hd[w], h.job)'
    BY <2>2, <2>3 DEF RowKept, FailedLinked, Carried
  <2> QED
    BY <1>2, <1>3, <1>8, <2>2, <2>3, <2>4
<1>13. CASE CloseStopped(w)
  <2>1. /\ h.pc = "closed" /\ h.job \in Jobs /\ UNCHANGED <<job, link, wk>> /\ RecordOutcome(h.job, "lost") /\ outcome[h.job] = <<>>
        /\ hd'[w].pc = "attempt"
    BY <1>1, <1>13 DEF CloseStopped, JobPcs, razorpay, HandlerInTurn, HandlerState
  <2>2. outcome'[h.job] = <<"lost">> /\ \A k \in Jobs \ {h.job} : outcome'[k] = outcome[k]
    BY <1>1, <2>1, OutcomeAt
  <2>3. RowKept(wk[w], hd[w], h.job)'
    <3>1. outcome'[h.job] # <<>>
      BY <2>2
    <3>2. Newest(h.job)' <=> Newest(h.job)
      BY <2>1, SameRowsNewest
    <3>3. RowKept(wk[w], h, h.job)
      BY <2>1
    <3> QED
      BY <2>1, <3>1, <3>2, <3>3 DEF RowKept, FailedLinked, HasOutcome
  <2> QED
    BY <1>2, <1>3, <1>8, <2>1, <2>2, <2>3
<1>14. CASE RecordSeen(w)
  <2>1. PICK result \in {"recovered", "lost"} : RecordOutcome(h.job, result)
    BY <1>14 DEF RecordSeen
  <2>2. /\ h.pc = "polled" /\ h.job \in Jobs /\ UNCHANGED <<link, wk>> /\ outcome[h.job] = <<>>
        /\ job' = [job EXCEPT ![h.job].link = TRUE]
    BY <1>1, <1>14 DEF RecordSeen, JobPcs, razorpay, HandlerInTurn
  <2>3. outcome'[h.job] = <<result>> /\ \A k \in Jobs \ {h.job} : outcome'[k] = outcome[k]
    BY <1>1, <2>1, <2>2, OutcomeAt
  <2>4. job'[h.job].status = job[h.job].status /\ job'[h.job].link /\ \A k \in Jobs \ {h.job} : job'[k] = job[k]
    BY <1>1, <2>2 DEF TypeOK, Row
  <2>5. ~FailedLinked(h.job)
    BY <1>1, <2>2 DEF RowKept, HasOutcome
  <2>6. RowKept(wk[w], hd[w], h.job)'
    <3>1. outcome'[h.job] # <<>>
      BY <2>3
    <3>2. RowKept(wk[w], h, h.job)
      BY <2>2
    <3> QED
      BY <2>2, <2>4, <2>5, <3>1, <3>2 DEF RowKept, FailedLinked
  <2>7. HandlerKeeps(hd[w])'
    <3>1. hd'[w].pc = "lapsed" => hd'[w].job = h.job
      BY <1>1, <1>14 DEF RecordSeen, Handle, Answered, NoHandler, HandlerState
    <3> QED
      BY <2>2, <2>4, <2>5, <3>1 DEF HandlerKeeps, FailedLinked
  <2> QED
    BY <1>2, <1>8, <2>2, <2>3, <2>4, <2>6, <2>7
<1> QED
  BY <1>5, <1>6, <1>9, <1>10, <1>11, <1>12, <1>13, <1>14 DEF SettleStep

LEMMA KeptStep ==
  ASSUME Serial, ~Crashes, ~LateLanding, "shadow" \notin Modes, \A p \in Payments : Route[p] # "subscription",
         STypeInv, AttemptsInTurn, HandsInv, KeptInv, [SNext]_svars
  PROVE  KeptInv'
<1>1. TypeOK /\ inflight = {} /\ \A w \in Workers : wk[w].pc # "idle" => wk[w].job \in Jobs
  BY DEF STypeInv, AttemptsInTurn, TypeOK
(* A link moves, or nothing does. *)
<1>2. ASSUME UNCHANGED <<job, outcome, attempts, wk, hd>>, \A k \in Jobs : link'[k] = "none" <=> link[k] = "none"
      PROVE  KeptInv'
  <2> SUFFICES ASSUME NEW w \in Workers
               PROVE  /\ \A j \in Jobs : RowKept(wk[w], hd[w], j)'
                      /\ \A p \in attempts : Stored(wk[w], p)'
                      /\ WorkerKeeps(wk[w])' /\ HandlerKeeps(hd[w])'
    BY <1>2 DEF KeptInv
  <2>1. \A p : SeqsOf(p)' = SeqsOf(p)
    BY <1>2 DEF SeqsOf, Exists
  <2>2. \A j \in Jobs : FailedLinked(j)' <=> FailedLinked(j)
    BY <1>2 DEF FailedLinked
  <2>3. \A j \in Jobs : RowKept(wk[w], hd[w], j)'
    BY <1>2, <2>1, <2>2 DEF KeptInv, RowKept, HasOutcome, Newest, Carried
  <2>4. \A p \in attempts : Stored(wk[w], p)'
    BY <1>2, <2>1 DEF KeptInv, Stored
  <2>5. WorkerKeeps(wk[w])'
    <3>1. wk[w].pc = "insert" /\ wk[w].job[2] # 1 => <<wk[w].job[1], wk[w].job[2] - 1>> \in Jobs
      BY <1>1, ConstantsAssumption DEF Jobs
    <3>2. WorkerKeeps(wk[w])
      BY DEF KeptInv
    <3> QED
      BY <1>1, <1>2, <2>2, <3>1, <3>2 DEF WorkerKeeps
  <2>6. HandlerKeeps(hd[w])'
    <3>1. hd[w].pc = "lapsed" => hd[w].job \in Jobs
      BY DEF STypeInv, HandlerTypeOK, JobPcs
    <3>2. HandlerKeeps(hd[w])
      BY DEF KeptInv
    <3> QED
      BY <1>2, <2>2, <3>1, <3>2 DEF HandlerKeeps
  <2> QED
    BY <2>3, <2>4, <2>5, <2>6
<1>3. CASE UNCHANGED svars
  BY <1>2, <1>3 DEF svars, vars
<1>4. ASSUME NEW w \in Workers, Execution(w) PROVE KeptInv'
  BY <1>4, KeptExecution
<1>5. ASSUME NEW w \in Workers, SettleStep(w) PROVE KeptInv'
  <2>1. SameRows
    BY <1>5, SettleInTurn
  <2>2. (\A k \in Jobs : RowKept(wk[w], hd[w], k)) /\ HandlerKeeps(hd[w]) /\ \A p \in attempts : Stored(wk[w], p)
    BY DEF KeptInv
  <2>3. (\A k \in Jobs : RowKept(wk[w], hd[w], k))' /\ WorkerKeeps(wk[w])' /\ HandlerKeeps(hd[w])'
    BY <1>5, <2>1, <2>2, KeptSettle
  <2>4. UNCHANGED attempts /\ wk[w].pc = "idle"
    BY <1>5, SettleWrites, SettleClaimsNothing, IdleType
  <2>5. \A p \in attempts : Stored(wk[w], p)'
    BY <1>1, <2>1, <2>2, <2>4, SameRowsView DEF Stored, TypeOK
  <2> QED
    BY <2>3, <2>4, <2>5 DEF Serial, KeptInv
<1>6. ASSUME NEW w \in Workers, Receive(w) PROVE KeptInv'
  <2>1. UNCHANGED vars /\ hd[w] = NoHandler /\ wk[w] = Idle
    BY <1>6 DEF Receive, ReceivePaid, ReceiveExpired, PollLink, ReceiveCaptured, Free
  <2>2. hd'[w].pc \in {"paid", "expired", "fetch", "mark"}
    BY <1>6 DEF Receive, ReceivePaid, ReceiveExpired, PollLink, ReceiveCaptured, Free, NoHandler, STypeInv, HandlerTypeOK
  <2>3. \A k \in Jobs : RowKept(wk[w], hd[w], k)'
    <3>1. SameRows
      BY <2>1 DEF vars, SameRows, Exists
    <3> QED
      BY <2>1, <3>1, RowStays DEF KeptInv, NoHandler, vars
  <2>4. WorkerKeeps(wk[w])' /\ HandlerKeeps(hd[w])'
    BY <2>1, <2>2, IdleType DEF WorkerKeeps, HandlerKeeps, vars
  <2>5. \A p \in attempts : Stored(wk[w], p)'
    BY <2>1 DEF KeptInv, Stored, SeqsOf, Exists, vars
  <2> QED
    BY <2>1, <2>3, <2>4, <2>5 DEF Serial, KeptInv, vars
<1>7. CASE World
  <2>1. ASSUME NEW j \in Jobs, PayLink(j) \/ PayPart(j) \/ EndLink(j) PROVE KeptInv'
    <3>1. PICK l \in {"paid", "partial", "expired", "cancelled"} : link' = [link EXCEPT ![j] = l]
      BY <2>1 DEF PayLink, PayPart, EndLink
    <3>2. Live(j) /\ UNCHANGED <<db, wk, hd>>
      BY <2>1 DEF PayLink, PayPart, EndLink, Live
    <3>3. \A k \in Jobs : link'[k] = "none" <=> link[k] = "none"
      BY <1>1, <3>1, <3>2 DEF TypeOK, Live
    <3> QED
      BY <1>2, <3>2, <3>3 DEF db, payments
  <2>2. ASSUME NEW o \in Orders, PayElsewhere(o) PROVE KeptInv'
    BY <1>2, <2>2 DEF PayElsewhere, Capture, db, payments
  <2>3. (\A j \in Jobs : ~Land(j)) /\ \A w \in Workers : ~SettlementCrash(w)
    BY <1>1 DEF Land, SettlementCrash
  <2> QED
    BY <1>7, <2>1, <2>2, <2>3 DEF World
<1> QED
  BY <1>3, <1>4, <1>5, <1>6, <1>7 DEF SNext

LEMMA KeptInit == SInit => KeptInv
<1> SUFFICES ASSUME SInit PROVE KeptInv
  OBVIOUS
<1>1. \A j \in Jobs : job[j].status = "absent"
  BY DEF SInit, Init, NoRow
<1>2. attempts = {} /\ \A w \in Workers : wk[w].pc = "idle" /\ hd[w].pc = "idle"
  BY IdleType DEF SInit, Init, NoHandler
<1> QED
  BY <1>1, <1>2 DEF KeptInv, RowKept, FailedLinked, Unfinished, WorkerKeeps, HandlerKeeps

LEMMA NothingIsForgottenNow ==
  ASSUME Workers # {}, STypeInv, HandsInv, KeptInv
  PROVE  NothingIsForgotten
<1> SUFFICES ASSUME AllFree, NEW p \in attempts
             PROVE  \/ p \in WithStatus("pending") \cup HumanQueue
                    \/ LastSeq(p) > 0 /\ (LatestJob(p) \in OpenLinks \/ HasOutcome(LatestJob(p)))
  BY DEF NothingIsForgotten
<1> DEFINE j == LatestJob(p)
<1>1. PICK w \in Workers : wk[w] = Idle /\ hd[w] = NoHandler
  BY DEF AllFree, Free
<1>2. p \in Payments /\ job \in [Jobs -> Row]
  BY DEF STypeInv, TypeOK
<1>3. SeqsOf(p) # {}
  BY <1>1, IdleType DEF KeptInv, Stored
<1>4. LastSeq(p) \in SeqsOf(p) /\ \A t \in SeqsOf(p) : t <= LastSeq(p)
  BY <1>3, LastSeqIsLargest
<1>5. j \in Jobs /\ Exists(j) /\ Newest(j) /\ LastSeq(p) > 0
  BY <1>2, <1>4, JobOfPayment, ConstantsAssumption DEF LatestJob, SeqsOf, Newest
<1>6. RowKept(wk[w], hd[w], j) /\ ~Carried(wk[w], hd[w], j) /\ RowInHand(wk[w])
  BY <1>1, <1>5, IdleType DEF KeptInv, HandsInv, Carried, NoHandler
<1>7. job[j].status \in Statuses /\ job[j].status \notin {"absent", "executing", "shadow"}
  BY <1>1, <1>2, <1>5, <1>6, IdleType DEF Row, Exists, RowInHand, ClaimedPcs, RowKept
<1>8. CASE job[j].status \in {"pending", "human_queue"}
  BY <1>5, <1>8 DEF WithStatus, HumanQueue, LatestIs
<1>9. CASE job[j].status = "sent"
  BY <1>5, <1>6, <1>9 DEF RowKept, OpenLinks
<1>10. CASE job[j].status \in Unfinished
  BY <1>5, <1>6, <1>10 DEF RowKept, HasOutcome
<1> QED
  BY <1>7, <1>8, <1>9, <1>10 DEF Statuses, Terminal, Unfinished

(* Whatever the answers of Razorpay were, and whichever of the webhooks, the *)
(* poll and the sweep came first: when the process is at rest every payment  *)
(* it stored is due, asked about by the poll, shown to a person, or closed.  *)
(* A halted subscription is sent its own page and never polled, so no        *)
(* payment is routed there; a crash may lose the outcome (finish_job).       *)
THEOREM NoPaymentForgotten ==
  ASSUME Serial, Workers # {}, ~Crashes, ~LateLanding, \A p \in Payments : Route[p] # "subscription"
  PROVE  SSpec => []NothingIsForgotten
<1>1. CASE "shadow" \in Modes
  <2>1. STypeInv => NothingIsForgotten
    BY <1>1 DEF NothingIsForgotten
  <2> QED
    BY <2>1, STypeCorrect, PTL
<1>2. CASE "shadow" \notin Modes
  <2>1. STypeInv /\ AttemptsInTurn /\ HandsInv /\ KeptInv /\ [SNext]_svars => KeptInv'
    BY <1>2, KeptStep
  <2>2. STypeInv /\ HandsInv /\ KeptInv => NothingIsForgotten
    BY NothingIsForgottenNow
  <2> QED
    BY <2>1, <2>2, KeptInit, STypeCorrect, AttemptsFollow, HandsCorrect, PTL DEF SSpec
<1> QED
  BY <1>1, <1>2

-----------------------------------------------------------------------------
(* Beside the poll.  Only one process serves, under its lock; the poll runs  *)
(* in processes of its own, and a process may die at any step.  An outcome   *)
(* is written by a process that found none, however long ago, so of each job *)
(* a process still to write and the outcomes written are together no more   *)
(* than the processes.                                                      *)

\* The lock of serve.
OneServe == \A v, w \in Workers : Serves(v) /\ Serves(w) => v = w

\* A row before the end of its execution.
Opening == {"absent", "pending", "executing"}

\* Where an outcome of j is written without looking for another one.
WritingPcs == {"park", "voided", "close"}
ClosingPcs == {"cancelled", "parked", "closed"}
SettlingPcs == {"recovered", "fetch", "polled"} \cup ClosingPcs
Writes(w, j) ==
  \/ wk[w].job = j /\ wk[w].pc \in WritingPcs
  \/ hd[w].job = j /\ hd[w].pc \in SettlingPcs
  \/ j \in hd[w].pending \cup hd[w].live

Writers(j) == {w \in Workers : Writes(w, j)}

OpenRow(j) ==
  /\ job[j].status \in {"absent", "pending"} => link[j] = "none"
  /\ job[j].status \in Opening /\ link[j] = "none" => outcome[j] = <<>>

\* The positions of execute_job on a row that is due, and on one it claimed.
DuePcs == {"execute", "stub", "refuse", "claim"}
ExecutingPcs == {"recover", "recovered", "shadow", "direct", "check", "earlier", "superseded", "create", "duplicate", "record"}

ExecutorRow(s, r) ==
  /\ r.pc \in DuePcs => job[r.job].status = "pending"
  /\ r.pc \in ExecutingPcs => job[r.job].status = "executing"
  /\ r.pc \in {"check", "void"} => link[r.job] = "none" /\ job[r.job].status \in {"pending", "executing"}
  /\ r.pc \in WritingPcs => job[r.job].status \notin Opening
  /\ r.pc = "finish" => job[r.job].status = r.status /\ r.status # "absent"
  /\ r.pc = "record" => r.status \in {"sent", "failed"}
  /\ r.pc = "recovered" => r.status = "executing" /\ (r.answer = "absent" => link[r.job] = "none")
  /\ ~s => /\ r.pc \in {"idle", "followup", "insert", "park"}
           /\ r.pc = "followup" => Exists(r.job)
           /\ r.pc = "insert" => r.job[2] # 1

HandlerRow(s, h) ==
  /\ h.pc \in {"paid", "recovered", "expired"} => link[h.job] # "none"
  /\ h.pc \in {"fetch", "closed"} => job[h.job].status \notin Opening
  /\ h.pc = "polled" => link[h.job] # "none" \/ job[h.job].status \notin Opening
  /\ h.pending \cap h.live = {}
  /\ h.pc \in ClosingPcs => h.job \notin h.pending \cup h.live
  /\ h.pc \notin ClosingPcs \cup {"attempt"} => h.pending \cup h.live = {}
  /\ ~s => /\ h.pc \in {"idle", "fetch", "polled", "lapsed"}
           /\ h.pc # "idle" => Exists(h.job)

RowsOpen ==
  /\ inflight = {}
  /\ \A j \in Jobs : OpenRow(j)
  /\ \A w \in Workers : ExecutorRow(Serves(w), wk[w]) /\ HandlerRow(Serves(w), hd[w])

RoomToWrite == \A j \in Jobs : Len(outcome[j]) + Cardinality(Writers(j)) <= Cardinality(Workers)

\* What one step of a process may do to a row, its link and its outcomes.
StatusMove(w, j) ==
  \/ job'[j].status = job[j].status
  \/ job[j].status = "absent" /\ job'[j].status \notin {"absent", "executing"}
  \/ /\ Serves(w) /\ Exists(j)
     /\ \/ job'[j].status \notin Opening
        \/ job[j].status = "pending" /\ job'[j].status = "executing"
        \/ job[j].status = "executing" /\ job'[j].status = "pending" /\ link[j] = "none"

LinkMove(w, j) ==
  \/ link'[j] = link[j]
  \/ link[j] # "none" /\ link'[j] # "none"
  \/ Serves(w) /\ job'[j].status = "executing" /\ link'[j] # "none"

OutcomeMove(w, j) ==
  \/ outcome'[j] = outcome[j] /\ (Writes(w, j)' => Writes(w, j) \/ outcome[j] = <<>>)
  \/ /\ Len(outcome'[j]) = Len(outcome[j]) + 1
     /\ Writes(w, j) /\ ~Writes(w, j)'
     /\ job'[j].status \notin Opening \/ link[j] # "none"

ProcessMoves(w) == \A j \in Jobs : StatusMove(w, j) /\ LinkMove(w, j) /\ OutcomeMove(w, j)

(* A row another process holds is not taken from under it. *)
LEMMA OthersRowsOpen ==
  ASSUME STypeInv, OneServe, RowsOpen, NEW w \in Workers, ProcessMoves(w), NEW v \in Workers \ {w},
         wk'[v] = wk[v], hd'[v] = hd[v]
  PROVE  ExecutorRow(Serves(v), wk[v])' /\ HandlerRow(Serves(v), hd[v])'
<1>1. Serves(v) => ~Serves(w)
  BY DEF OneServe
<1>2. PICK r, h, s : r = wk[v] /\ h = hd[v] /\ s = Serves(v) /\ (s => ~Serves(w))
  BY <1>1
<1>3. (r.pc # "idle" => r.job \in Jobs) /\ (h.pc \in JobPcs => h.job \in Jobs)
  BY <1>2 DEF STypeInv, TypeOK, HandlerTypeOK
<1>4. ExecutorRow(s, r) /\ HandlerRow(s, h)
  BY <1>2 DEF RowsOpen
<1>5. \A j \in Jobs : /\ Exists(j) => Exists(j)'
                      /\ s /\ Exists(j) => job'[j].status = job[j].status
                      /\ job[j].status \notin Opening => job'[j].status \notin Opening
                      /\ link[j] # "none" => link'[j] # "none"
                      /\ s => (link[j] = "none" => link'[j] = "none")
  BY <1>2 DEF ProcessMoves, StatusMove, LinkMove, Exists, Opening
<1>6. ExecutorRow(s, r)'
  <2>1. CASE s
    BY <1>3, <1>4, <1>5, <2>1 DEF ExecutorRow, DuePcs, ExecutingPcs, WritingPcs, Opening, Exists
  <2>2. CASE ~s
    BY <1>3, <1>4, <1>5, <2>2 DEF ExecutorRow, DuePcs, ExecutingPcs, WritingPcs
  <2> QED
    BY <2>1, <2>2
<1>7. HandlerRow(s, h)'
  BY <1>3, <1>4, <1>5 DEF HandlerRow, ClosingPcs, JobPcs
<1> QED
  BY <1>2, <1>6, <1>7

LEMMA OwnRowsOpen ==
  ASSUME STypeInv, OneServe, RowsOpen, NEW w \in Workers, ProcessMoves(w), inflight' = {},
         ExecutorRow(Serves(w), wk[w])', HandlerRow(Serves(w), hd[w])',
         \A v \in Workers \ {w} : wk'[v] = wk[v] /\ hd'[v] = hd[v]
  PROVE  RowsOpen'
<1>1. ASSUME NEW j \in Jobs PROVE OpenRow(j)'
  BY DEF ProcessMoves, StatusMove, LinkMove, OutcomeMove, RowsOpen, OpenRow, Opening, Exists
<1>2. ASSUME NEW v \in Workers PROVE ExecutorRow(Serves(v), wk[v])' /\ HandlerRow(Serves(v), hd[v])'
  BY OthersRowsOpen
<1> QED
  BY <1>1, <1>2 DEF RowsOpen

LEMMA RoomKept ==
  ASSUME TypeOK, RoomToWrite, IsFiniteSet(Workers), NEW w \in Workers, \A j \in Jobs : OutcomeMove(w, j),
         \A v \in Workers \ {w} : wk'[v] = wk[v] /\ hd'[v] = hd[v]
  PROVE  RoomToWrite'
<1> SUFFICES ASSUME NEW j \in Jobs PROVE (Len(outcome[j]) + Cardinality(Writers(j)) <= Cardinality(Workers))'
  BY DEF RoomToWrite
<1>1. PICK A, B : A = Writers(j) /\ B = Writers(j)'
  OBVIOUS
<1>2. A \subseteq Workers /\ B \subseteq Workers
  BY <1>1 DEF Writers
<1>3. /\ IsFiniteSet(A) /\ IsFiniteSet(B) /\ Cardinality(A) \in Nat /\ Cardinality(B) \in Nat
      /\ Cardinality(Workers) \in Nat /\ Cardinality(B) <= Cardinality(Workers)
  BY <1>2, FS_Subset, FS_CardinalityType
<1>4. Len(outcome[j]) \in Nat
  BY DEF TypeOK
<1>5. Len(outcome[j]) + Cardinality(A) <= Cardinality(Workers)
  BY <1>1 DEF RoomToWrite
<1>6. \A v \in Workers \ {w} : v \in B <=> v \in A
  BY <1>1 DEF Writers, Writes
<1>7. (w \in A <=> Writes(w, j)) /\ (w \in B <=> Writes(w, j)')
  BY <1>1 DEF Writers
<1>8. CASE outcome'[j] = outcome[j] /\ (Writes(w, j)' => Writes(w, j) \/ outcome[j] = <<>>)
  <2>1. CASE outcome[j] = <<>>
    <3>1. Len(outcome'[j]) = 0
      BY <1>8, <2>1
    <3> QED
      BY <1>1, <1>3, <3>1
  <2>2. CASE outcome[j] # <<>>
    <3>1. B \subseteq A
      BY <1>2, <1>6, <1>7, <1>8, <2>2
    <3>2. Cardinality(B) <= Cardinality(A)
      BY <1>3, <3>1, FS_Subset
    <3> QED
      BY <1>1, <1>3, <1>4, <1>5, <1>8, <3>2
  <2> QED
    BY <2>1, <2>2
<1>9. CASE Len(outcome'[j]) = Len(outcome[j]) + 1 /\ Writes(w, j) /\ ~Writes(w, j)'
  <2>1. B \subseteq A \ {w} /\ w \in A
    BY <1>2, <1>6, <1>7, <1>9
  <2>2. IsFiniteSet(A \ {w}) /\ Cardinality(A \ {w}) = Cardinality(A) - 1
    BY <1>3, <2>1, FS_RemoveElement
  <2>3. Cardinality(B) <= Cardinality(A \ {w})
    BY <2>1, <2>2, FS_Subset
  <2> QED
    BY <1>1, <1>3, <1>4, <1>5, <1>9, <2>2, <2>3
<1> QED
  BY <1>8, <1>9 DEF OutcomeMove

-----------------------------------------------------------------------------
(* The executor. *)

LEMMA SameStatus ==
  ASSUME NEW w \in Workers, UNCHANGED job
  PROVE  \A k \in Jobs : StatusMove(w, k)
BY DEF StatusMove

LEMMA SameLinks ==
  ASSUME NEW w \in Workers, UNCHANGED link
  PROVE  \A k \in Jobs : LinkMove(w, k)
BY DEF LinkMove

(* serve writes the row of a job whose execution is over. *)
LEMMA CommitMove ==
  ASSUME TypeOK, NEW w \in Workers, Serves(w), NEW j \in Jobs, Exists(j), NEW status \in Statuses \ Opening,
         NEW kind, NEW linked \in BOOLEAN, Commit(j, status, kind, linked)
  PROVE  job'[j].status = status /\ \A k \in Jobs : StatusMove(w, k)
<1>1. job'[j].status = status /\ \A k \in Jobs \ {j} : job'[k] = job[k]
  BY CommitAt
<1> QED
  BY <1>1 DEF StatusMove

LEMMA SilentMove ==
  ASSUME NEW w \in Workers, UNCHANGED <<outcome, hd>>,
         wk'[w].pc \in WritingPcs => outcome[wk'[w].job] = <<>>
  PROVE  \A k \in Jobs : OutcomeMove(w, k)
BY DEF OutcomeMove, Writes

LEMMA IdleRow ==
  ASSUME TypeOK, NEW w \in Workers, wk'[w].pc = "idle"
  PROVE  ExecutorRow(Serves(w), wk[w])'
BY DEF ExecutorRow, DuePcs, ExecutingPcs, WritingPcs

(* The outcome of the row in hand. *)
LEMMA WrittenMove ==
  ASSUME STypeInv, RowsOpen, NEW w \in Workers, NEW j, j = wk[w].job, wk[w].pc \in WritingPcs,
         RecordOutcome(j, "lost"), Done(w), UNCHANGED <<job, link, hd>>
  PROVE  ProcessMoves(w) /\ ExecutorRow(Serves(w), wk[w])'
<1>1. j \in Jobs /\ wk'[w].pc = "idle" /\ job[j].status \notin Opening
  BY DoneAt DEF STypeInv, TypeOK, WritingPcs, RowsOpen, ExecutorRow
<1>2. hd[w].pc = "idle" /\ hd[w].pending \cup hd[w].live = {}
  <2>1. hd[w].pc = "idle"
    BY DEF STypeInv, OneSide, WritingPcs, Idle
  <2> QED
    BY <2>1 DEF RowsOpen, HandlerRow, ClosingPcs
<1>3. outcome'[j] = Append(outcome[j], "lost") /\ \A k \in Jobs \ {j} : outcome'[k] = outcome[k]
  BY <1>1 DEF STypeInv, TypeOK, RecordOutcome
<1>4. Len(outcome'[j]) = Len(outcome[j]) + 1
  BY <1>1, <1>3 DEF STypeInv, TypeOK
<1>5. Writes(w, j) /\ \A k \in Jobs : ~Writes(w, k)'
  BY <1>1, <1>2 DEF Writes, WritingPcs, SettlingPcs, ClosingPcs
<1>6. \A k \in Jobs : OutcomeMove(w, k)
  BY <1>1, <1>3, <1>4, <1>5 DEF OutcomeMove
<1> QED
  BY <1>1, <1>6, SameStatus, SameLinks, IdleRow DEF ProcessMoves, STypeInv

LEMMA BeginMoves ==
  ASSUME STypeInv, RowsOpen, NEW w \in Workers, Serves(w), Begin(w), UNCHANGED hd
  PROVE  ProcessMoves(w) /\ ExecutorRow(Serves(w), wk[w])'
<1>1. TypeOK /\ UNCHANGED <<job, outcome, link>>
  BY DEF STypeInv, Begin, ProcessAttempt, Sweep, db, razorpay
<1>2. wk'[w].pc \notin WritingPcs /\ ExecutorRow(Serves(w), wk[w])'
  <2>1. ASSUME NEW p \in Payments, ProcessAttempt(w, p) PROVE wk'[w].pc = "insert"
    BY <1>1, <2>1 DEF ProcessAttempt, TypeOK, Idle
  <2>2. ASSUME NEW j \in Jobs, Sweep(w, j)
        PROVE  /\ wk'[w].job = j
               /\ \/ wk'[w].pc = "recover" /\ job[j].status = "executing"
                  \/ wk'[w].pc = "execute" /\ job[j].status = "pending"
    BY <1>1, <2>2 DEF Sweep, TypeOK, Idle, DueStatuses
  <2>3. CASE \E p \in Payments : ProcessAttempt(w, p)
    BY <2>1, <2>3 DEF ExecutorRow, DuePcs, ExecutingPcs, WritingPcs
  <2>4. CASE \E j \in Jobs : Sweep(w, j)
    BY <1>1, <2>2, <2>4 DEF ExecutorRow, DuePcs, ExecutingPcs, WritingPcs
  <2> QED
    BY <2>3, <2>4 DEF Begin
<1> QED
  BY <1>1, <1>2, SameStatus, SameLinks, SilentMove DEF ProcessMoves

(* The poll schedules as well: the attempt that follows an expiry. *)
LEMMA ScheduleMoves ==
  ASSUME STypeInv, RowsOpen, NEW w \in Workers, ScheduleStep(w), UNCHANGED hd
  PROVE  ProcessMoves(w) /\ ExecutorRow(Serves(w), wk[w])'
<1>1. PICK j : j = wk[w].job
  OBVIOUS
<1>2. TypeOK /\ j \in Jobs /\ ExecutorRow(Serves(w), wk[w]) /\ OpenRow(j)
  BY <1>1, StepIsBusy, BusyJob DEF STypeInv, Step, RowsOpen
<1>3. CASE Followup(w)
  <2>1. UNCHANGED <<job, outcome, link>> /\ wk'[w].pc = "insert" /\ wk'[w].job = <<j[1], NextRetrySeq(j[1])>>
    BY <1>1, <1>2, <1>3 DEF Followup, Idle, db, razorpay, TypeOK
  <2>2. ASSUME ~Serves(w) PROVE NextRetrySeq(j[1]) # 1
    <3>1. Exists(j)
      BY <1>1, <1>2, <1>3, <2>2 DEF ExecutorRow, Followup
    <3>2. j[2] \in SeqsOf(j[1]) /\ j[2] \in 1..MaxSeq
      BY <1>2, <3>1, JobIsPair DEF SeqsOf
    <3> QED
      BY <3>2, NextSeqIsNext, ConstantsAssumption
  <2>3. ExecutorRow(Serves(w), wk[w])'
    BY <2>1, <2>2 DEF ExecutorRow, DuePcs, ExecutingPcs, WritingPcs
  <2> QED
    BY <2>1, <2>3, SameStatus, SameLinks, SilentMove DEF ProcessMoves, WritingPcs
<1>4. CASE InsertDuplicate(w)
  <2>1. UNCHANGED <<job, outcome, link>> /\ wk'[w].pc = "idle"
    BY <1>2, <1>4, DoneAt DEF InsertDuplicate, db, razorpay
  <2> QED
    BY <1>2, <2>1, SameStatus, SameLinks, SilentMove, IdleRow DEF ProcessMoves, WritingPcs
<1>5. CASE Insert(w)
  <2>1. PICK status \in ScheduleStatuses(j, wk[w].answer) :
            /\ job' = [job EXCEPT ![j] = [NoRow EXCEPT !.status = status]]
            /\ \/ status \in Parked /\ GotoWith(w, "park", status, "none")
               \/ status = "pending" /\ j[2] = 1 /\ GotoWith(w, "execute", status, "none")
               \/ status = "pending" /\ Done(w)
    BY <1>1, <1>5 DEF Insert
  <2>2. UNCHANGED <<outcome, link>> /\ job[j].status = "absent" /\ wk[w].pc = "insert"
    BY <1>1, <1>5 DEF Insert, KeyTaken, Exists, razorpay
  <2>3. status \in {"human_queue", "no_action", "pending"}
    BY <2>1 DEF Parked
  <2>4. job'[j].status = status /\ \A k \in Jobs \ {j} : job'[k] = job[k]
    BY <1>2, <2>1 DEF TypeOK, NoRow
  <2>5. \A k \in Jobs : StatusMove(w, k)
    BY <2>2, <2>3, <2>4 DEF StatusMove
  <2>6. outcome[j] = <<>>
    BY <1>2, <2>2 DEF OpenRow, Opening
  <2>7. \/ wk'[w].pc = "park" /\ wk'[w].job = j /\ status # "pending"
        \/ wk'[w].pc = "execute" /\ wk'[w].job = j /\ status = "pending" /\ Serves(w)
        \/ wk'[w].pc = "idle"
    <3>1. CASE status \in Parked /\ GotoWith(w, "park", status, "none")
      BY <1>1, <1>2, <3>1, GotoWithAt DEF Parked
    <3>2. CASE status = "pending" /\ j[2] = 1 /\ GotoWith(w, "execute", status, "none")
      BY <1>1, <1>2, <2>2, <3>2, GotoWithAt DEF ExecutorRow
    <3>3. CASE status = "pending" /\ Done(w)
      BY <1>2, <3>3, DoneAt
    <3> QED
      BY <2>1, <3>1, <3>2, <3>3
  <2>8. ExecutorRow(Serves(w), wk[w])'
    BY <2>3, <2>4, <2>7 DEF ExecutorRow, DuePcs, ExecutingPcs, WritingPcs, Opening
  <2> QED
    BY <2>2, <2>5, <2>6, <2>7, <2>8, SameLinks, SilentMove DEF ProcessMoves, WritingPcs
<1>6. CASE Park(w)
  BY <1>6, WrittenMove DEF Park, WritingPcs, razorpay
<1> QED
  BY <1>3, <1>4, <1>5, <1>6 DEF ScheduleStep

(* The row in hand is taken up, or its execution ends.                      *)
LEMMA FinishedMove ==
  ASSUME STypeInv, RowsOpen, NEW w \in Workers, Serves(w), NEW j \in Jobs, j = wk[w].job, Exists(j),
         NEW status \in Statuses \ Opening, NEW kind, NEW linked \in BOOLEAN, Commit(j, status, kind, linked),
         UNCHANGED <<outcome, link, hd>>, wk'[w].job = j, wk'[w].pc = "finish", wk'[w].status = status
  PROVE  ProcessMoves(w) /\ ExecutorRow(Serves(w), wk[w])'
<1>1. job'[j].status = status /\ \A k \in Jobs : StatusMove(w, k)
  BY CommitMove DEF STypeInv
<1>2. ExecutorRow(Serves(w), wk[w])'
  BY <1>1 DEF ExecutorRow, DuePcs, ExecutingPcs, WritingPcs, Opening
<1> QED
  BY <1>1, <1>2, SameLinks, SilentMove DEF ProcessMoves, WritingPcs

LEMMA RecoverMoves ==
  ASSUME STypeInv, RowsOpen, NEW w \in Workers, RecoverStep(w), UNCHANGED hd
  PROVE  ProcessMoves(w) /\ ExecutorRow(Serves(w), wk[w])'
<1>1. PICK j : j = wk[w].job
  OBVIOUS
<1>2. TypeOK /\ j \in Jobs /\ ExecutorRow(Serves(w), wk[w])
  BY <1>1, StepIsBusy, BusyJob DEF STypeInv, Step, RowsOpen
<1>3. Serves(w) /\ job[j].status = "executing" /\ UNCHANGED <<outcome, link>>
  BY <1>1, <1>2 DEF RecoverStep, RecoverLookup, RecoverStaleExecution, ExecutorRow, ExecutingPcs, db, razorpay
<1>4. CASE RecoverLookup(w)
  <2>1. PICK answer \in LookupByReference(j) :
           wk' = [wk EXCEPT ![w] = [@ EXCEPT !.pc = "recovered", !.status = job[j].status, !.answer = answer]]
    BY <1>1, <1>4 DEF RecoverLookup
  <2>2. wk'[w].pc = "recovered" /\ wk'[w].status = "executing" /\ wk'[w].answer = answer /\ wk'[w].job = j
    BY <1>1, <1>2, <1>3, <2>1 DEF TypeOK, WorkerState
  <2>3. UNCHANGED job /\ (answer = "absent" => link[j] = "none")
    BY <1>4, <2>1 DEF RecoverLookup, LookupByReference, db
  <2>4. ExecutorRow(Serves(w), wk[w])'
    BY <1>3, <2>2, <2>3 DEF ExecutorRow, DuePcs, ExecutingPcs, WritingPcs
  <2> QED
    BY <1>3, <2>2, <2>3, <2>4, SameStatus, SameLinks, SilentMove DEF ProcessMoves, WritingPcs
<1>5. CASE RecoverStaleExecution(w)
  <2>1. PICK status : status = RecoveredStatus(wk[w].answer)
    OBVIOUS
  <2>2. /\ status \in {"sent", "pending", "human_queue"}
        /\ status = "pending" => wk[w].answer = "absent"
    BY <2>1 DEF RecoveredStatus
  <2>3. /\ Commit(j, status, "none", status = "sent")
        /\ GotoWith(w, IF status = "pending" THEN "execute" ELSE "finish", status, "none")
    BY <1>1, <1>2, <1>5, <2>1, <2>2 DEF RecoverStaleExecution, ExecutorRow
  <2>4. job'[j].status = status /\ \A k \in Jobs \ {j} : job'[k] = job[k]
    BY <1>2, <2>3, CommitAt
  <2>5. wk'[w].job = j /\ wk'[w].status = status /\ wk'[w].pc = IF status = "pending" THEN "execute" ELSE "finish"
    BY <1>1, <1>2, <2>3, GotoWithAt
  <2>6. CASE status = "pending"
    <3>1. link[j] = "none"
      BY <1>1, <1>2, <1>5, <2>2, <2>6 DEF ExecutorRow, RecoverStaleExecution
    <3>2. \A k \in Jobs : StatusMove(w, k)
      BY <1>3, <2>4, <2>6, <3>1 DEF StatusMove, Exists
    <3>3. ExecutorRow(Serves(w), wk[w])'
      BY <1>3, <2>4, <2>5, <2>6 DEF ExecutorRow, DuePcs, ExecutingPcs, WritingPcs
    <3> QED
      BY <1>3, <2>5, <2>6, <3>2, <3>3, SameLinks, SilentMove DEF ProcessMoves, WritingPcs
  <2>7. CASE status # "pending"
    <3>1. status \in Statuses \ Opening /\ Exists(j) /\ wk'[w].pc = "finish"
      BY <1>3, <2>2, <2>5, <2>7 DEF Statuses, Terminal, Opening, Exists
    <3> QED
      BY <1>1, <1>2, <1>3, <2>3, <2>5, <3>1, FinishedMove
  <2> QED
    BY <2>6, <2>7
<1> QED
  BY <1>4, <1>5 DEF RecoverStep

LEMMA GuardMoves ==
  ASSUME STypeInv, RowsOpen, NEW w \in Workers, GuardStep(w), UNCHANGED hd
  PROVE  ProcessMoves(w) /\ ExecutorRow(Serves(w), wk[w])'
<1>1. PICK j : j = wk[w].job
  OBVIOUS
<1>2. TypeOK /\ j \in Jobs /\ ExecutorRow(Serves(w), wk[w]) /\ OpenRow(j)
  BY <1>1, StepIsBusy, BusyJob DEF STypeInv, Step, RowsOpen
<1>3. Serves(w) /\ UNCHANGED link /\ wk[w].pc \in {"execute", "void", "voided", "stub", "refuse", "claim"}
  BY <1>2 DEF GuardStep, Execute, VoidOrderPaid, VoidOutcome, StubTokenRetry, RefuseLocally, ClaimForExecution,
     ClaimRefused, ExecutorRow, razorpay
<1>4. {"no_action", "stubbed", "failed"} \subseteq Statuses \ Opening
  BY DEF Statuses, Terminal, Opening
<1>5. CASE Execute(w)
  <2>1. job[j].status = "pending" /\ link[j] = "none"
    BY <1>1, <1>2, <1>5 DEF Execute, ExecutorRow, DuePcs, OpenRow
  <2>2. PICK next \in {"void", "stub", "refuse", "claim"} : GotoWith(w, next, job[j].status, job[j].kind)
    BY <1>1, <1>5, <2>1 DEF Execute, Terminal
  <2>3. wk'[w].pc \in {"void", "stub", "refuse", "claim"} /\ wk'[w].job = j
    BY <1>1, <1>2, <2>2, GotoWithAt
  <2>4. UNCHANGED <<job, outcome>>
    BY <1>5 DEF Execute, db
  <2>5. ExecutorRow(Serves(w), wk[w])'
    BY <1>3, <2>1, <2>3, <2>4 DEF ExecutorRow, DuePcs, ExecutingPcs, WritingPcs
  <2> QED
    BY <1>3, <2>3, <2>4, <2>5, SameStatus, SameLinks, SilentMove DEF ProcessMoves, WritingPcs
<1>6. CASE VoidOrderPaid(w)
  <2>1. Exists(j) /\ outcome[j] = <<>> /\ UNCHANGED outcome
    BY <1>1, <1>2, <1>6 DEF VoidOrderPaid, ExecutorRow, OpenRow, Opening, Exists
  <2>2. Commit(j, "no_action", "none", FALSE) /\ wk'[w].pc = "voided" /\ wk'[w].job = j
    BY <1>1, <1>2, <1>6, GotoAt DEF VoidOrderPaid
  <2>3. job'[j].status = "no_action" /\ \A k \in Jobs : StatusMove(w, k)
    BY <1>2, <1>3, <1>4, <2>1, <2>2, CommitMove
  <2>4. ExecutorRow(Serves(w), wk[w])'
    BY <1>3, <2>2, <2>3 DEF ExecutorRow, DuePcs, ExecutingPcs, WritingPcs, Opening
  <2> QED
    BY <1>3, <2>1, <2>2, <2>3, <2>4, SameLinks, SilentMove DEF ProcessMoves
<1>7. CASE VoidOutcome(w)
  BY <1>7, WrittenMove DEF VoidOutcome, WritingPcs, razorpay
<1>8. CASE StubTokenRetry(w)
  <2>1. Exists(j) /\ UNCHANGED outcome /\ Commit(j, "stubbed", "none", FALSE)
    BY <1>1, <1>2, <1>8 DEF StubTokenRetry, ExecutorRow, DuePcs, Exists
  <2>2. wk'[w].pc = "finish" /\ wk'[w].job = j /\ wk'[w].status = "stubbed"
    BY <1>1, <1>2, <1>8, GotoWithAt DEF StubTokenRetry
  <2> QED
    BY <1>1, <1>2, <1>3, <1>4, <2>1, <2>2, FinishedMove
<1>9. CASE RefuseLocally(w)
  <2>1. Exists(j) /\ UNCHANGED outcome /\ Commit(j, "failed", "local_guard", FALSE)
    BY <1>1, <1>2, <1>9 DEF RefuseLocally, ExecutorRow, DuePcs, Exists
  <2>2. wk'[w].pc = "finish" /\ wk'[w].job = j /\ wk'[w].status = "failed"
    BY <1>1, <1>2, <1>9, GotoWithAt DEF RefuseLocally
  <2> QED
    BY <1>1, <1>2, <1>3, <1>4, <2>1, <2>2, FinishedMove
<1>10. CASE ClaimForExecution(w)
  <2>1. job[j].status = "pending" /\ link[j] = "none" /\ UNCHANGED outcome
    BY <1>1, <1>2, <1>10 DEF ClaimForExecution, OpenRow
  <2>2. PICK next \in {"shadow", "direct", "check"} : GotoWith(w, next, "executing", "none")
    BY <1>10 DEF ClaimForExecution
  <2>3. wk'[w].pc \in {"shadow", "direct", "check"} /\ wk'[w].job = j
    BY <1>1, <1>2, <2>2, GotoWithAt
  <2>4. job'[j].status = "executing" /\ \A k \in Jobs \ {j} : job'[k] = job[k]
    BY <1>1, <1>2, <1>10 DEF ClaimForExecution, TypeOK, Row
  <2>5. \A k \in Jobs : StatusMove(w, k)
    BY <1>3, <2>1, <2>4 DEF StatusMove, Exists
  <2>6. ExecutorRow(Serves(w), wk[w])'
    BY <1>3, <2>1, <2>3, <2>4 DEF ExecutorRow, DuePcs, ExecutingPcs, WritingPcs
  <2> QED
    BY <1>3, <2>1, <2>3, <2>5, <2>6, SameLinks, SilentMove DEF ProcessMoves, WritingPcs
<1>11. CASE ClaimRefused(w)
  BY <1>1, <1>2, <1>11 DEF ClaimRefused, ExecutorRow, DuePcs
<1> QED
  BY <1>5, <1>6, <1>7, <1>8, <1>9, <1>10, <1>11 DEF GuardStep

(* A call, or a check before it, that leaves the claimed row as it is. *)
LEMMA ClaimedMove ==
  ASSUME STypeInv, RowsOpen, NEW w \in Workers, Serves(w), NEW j \in Jobs, j = wk[w].job,
         job[j].status = "executing", UNCHANGED <<job, outcome, hd>>, wk'[w].job = j,
         \/ wk'[w].pc \in {"earlier", "superseded", "create", "duplicate"}
         \/ wk'[w].pc = "record" /\ wk'[w].status \in {"sent", "failed"}
         \/ wk'[w].pc = "void" /\ link'[j] = "none",
         link' = link \/ (link' = [link EXCEPT ![j] = "created"])
  PROVE  ProcessMoves(w) /\ ExecutorRow(Serves(w), wk[w])'
<1>1. \A k \in Jobs : LinkMove(w, k)
  BY DEF LinkMove, STypeInv, TypeOK
<1>2. ExecutorRow(Serves(w), wk[w])'
  BY DEF ExecutorRow, DuePcs, ExecutingPcs, WritingPcs
<1> QED
  BY <1>1, <1>2, SameStatus, SilentMove DEF ProcessMoves, WritingPcs

LEMMA SendMoves ==
  ASSUME STypeInv, RowsOpen, NEW w \in Workers, SendStep(w), UNCHANGED hd
  PROVE  ProcessMoves(w) /\ ExecutorRow(Serves(w), wk[w])'
<1>1. PICK j : j = wk[w].job
  OBVIOUS
<1>2. TypeOK /\ j \in Jobs /\ ExecutorRow(Serves(w), wk[w]) /\ wk[w] \in WorkerState /\ wk \in [Workers -> WorkerState]
  BY <1>1, StepIsBusy, BusyJob DEF STypeInv, Step, RowsOpen
<1>3. wk[w].pc \in {"shadow", "direct", "check", "earlier", "superseded", "create", "duplicate", "record"} /\ UNCHANGED outcome
  BY DEF SendStep, FinishShadow, SendSubscriptionPage, OrderCheckPaid, OrderCheckPasses, EarlierLanded, EarlierNone,
     Superseded, CreateLink, CreateDuplicate, CreateRefused, OfferRejected, CreateUnanswered, FinishDuplicate,
     RecordResult, db
<1>4. Serves(w) /\ job[j].status = "executing" /\ Exists(j)
  BY <1>1, <1>2, <1>3 DEF ExecutorRow, ExecutingPcs, Exists
<1>5. {"no_action", "shadow", "sent", "failed", "human_queue"} \subseteq Statuses \ Opening
  BY DEF Statuses, Terminal, Opening
<1>6. CASE FinishShadow(w)
  <2>1. UNCHANGED link /\ Commit(j, "shadow", "none", FALSE)
    BY <1>1, <1>6 DEF FinishShadow, razorpay
  <2>2. wk'[w].pc = "finish" /\ wk'[w].job = j /\ wk'[w].status = "shadow"
    BY <1>1, <1>2, <1>6, GotoWithAt DEF FinishShadow
  <2> QED
    BY <1>1, <1>2, <1>3, <1>4, <1>5, <2>1, <2>2, FinishedMove
<1>7. CASE SendSubscriptionPage(w)
  <2>1. UNCHANGED link /\ Commit(j, "sent", "none", FALSE)
    BY <1>1, <1>7 DEF SendSubscriptionPage, razorpay
  <2>2. wk'[w].pc = "finish" /\ wk'[w].job = j /\ wk'[w].status = "sent"
    BY <1>1, <1>2, <1>7, GotoWithAt DEF SendSubscriptionPage
  <2> QED
    BY <1>1, <1>2, <1>3, <1>4, <1>5, <2>1, <2>2, FinishedMove
<1>8. CASE OrderCheckPaid(w) \/ OrderCheckPasses(w)
  <2>1. UNCHANGED <<job, link>> /\ link[j] = "none"
    BY <1>1, <1>2, <1>8 DEF OrderCheckPaid, OrderCheckPasses, ExecutorRow, db, razorpay
  <2>2. wk'[w].pc \in {"void", "earlier"} /\ wk'[w].job = j
    BY <1>1, <1>2, <1>8, GotoAt DEF OrderCheckPaid, OrderCheckPasses
  <2> QED
    BY <1>1, <1>2, <1>3, <1>4, <2>1, <2>2, ClaimedMove
<1>9. CASE EarlierLanded(w)
  <2>1. PICK k \in LandedSuspects(j) : Commit(k, "sent", "none", TRUE)
    BY <1>1, <1>9 DEF EarlierLanded
  <2>2. k \in Jobs /\ job[k].status = "failed"
    BY <1>2, <2>1, SuspectsAreJobs DEF LandedSuspects, Suspects, AmbiguousFailures
  <2>3. UNCHANGED link /\ wk'[w].pc = "superseded" /\ wk'[w].job = j
    BY <1>1, <1>2, <1>9, GotoAt DEF EarlierLanded, razorpay
  <2>4. \A i \in Jobs : StatusMove(w, i)
    BY <1>2, <1>4, <1>5, <2>1, <2>2, CommitMove DEF Exists
  <2>5. job'[j].status = "executing"
    BY <1>2, <1>4, <2>1, <2>2, CommitAt
  <2>6. ExecutorRow(Serves(w), wk[w])'
    BY <1>4, <2>3, <2>5 DEF ExecutorRow, DuePcs, ExecutingPcs, WritingPcs
  <2> QED
    BY <1>3, <2>3, <2>4, <2>6, SameLinks, SilentMove DEF ProcessMoves, WritingPcs
<1>10. CASE EarlierNone(w)
  <2>1. UNCHANGED <<job, link>> /\ wk'[w].pc = "create" /\ wk'[w].job = j
    BY <1>1, <1>2, <1>10 DEF EarlierNone, db, razorpay, WorkerState
  <2> QED
    BY <1>1, <1>2, <1>3, <1>4, <2>1, ClaimedMove
<1>11. CASE Superseded(w)
  <2>1. UNCHANGED link /\ Commit(j, "no_action", "none", FALSE) /\ wk'[w].pc = "idle"
    BY <1>1, <1>2, <1>11, DoneAt DEF Superseded, razorpay
  <2>2. \A i \in Jobs : StatusMove(w, i)
    BY <1>2, <1>4, <1>5, <2>1, CommitMove
  <2> QED
    BY <1>2, <1>3, <2>1, <2>2, SameLinks, SilentMove, IdleRow DEF ProcessMoves, WritingPcs
<1>12. CASE CreateLink(w)
  <2>1. UNCHANGED job /\ link' = [link EXCEPT ![j] = "created"]
    BY <1>1, <1>12 DEF CreateLink, db
  <2>2. wk'[w].pc = "record" /\ wk'[w].job = j /\ wk'[w].status = "sent"
    BY <1>1, <1>2, <1>12, GotoWithAt DEF CreateLink
  <2> QED
    BY <1>1, <1>2, <1>3, <1>4, <2>1, <2>2, ClaimedMove
<1>13. CASE CreateDuplicate(w)
  <2>1. UNCHANGED <<job, link>> /\ wk'[w].pc = "duplicate" /\ wk'[w].job = j
    BY <1>1, <1>2, <1>13, GotoAt DEF CreateDuplicate, db, razorpay
  <2> QED
    BY <1>1, <1>2, <1>3, <1>4, <2>1, ClaimedMove
<1>14. ASSUME NEW kind, AfterFailure(w, kind), wk[w].pc = "create"
       PROVE  wk'[w].job = j /\ (wk'[w].pc = "create" \/ (wk'[w].pc = "record" /\ wk'[w].status = "failed"))
  BY <1>1, <1>2, <1>14, AfterFailureAt
<1>15. CASE CreateRefused(w)
  <2>1. PICK kind : AfterFailure(w, kind) /\ wk[w].pc = "create"
    BY <1>15 DEF CreateRefused
  <2>2. UNCHANGED <<job, link>>
    BY <1>15 DEF CreateRefused, db, razorpay
  <2> QED
    BY <1>1, <1>2, <1>3, <1>4, <1>14, <2>1, <2>2, ClaimedMove
<1>16. CASE OfferRejected(w)
  <2>1. UNCHANGED <<job, link>> /\ wk'[w].pc = "create" /\ wk'[w].job = j
    BY <1>1, <1>2, <1>16 DEF OfferRejected, db, razorpay, WorkerState
  <2> QED
    BY <1>1, <1>2, <1>3, <1>4, <2>1, ClaimedMove
<1>17. CASE CreateUnanswered(w)
  <2>1. PICK kind : AfterFailure(w, kind) /\ wk[w].pc = "create"
    BY <1>17 DEF CreateUnanswered
  <2>2. UNCHANGED job /\ (link' = link \/ link' = [link EXCEPT ![j] = "created"])
    BY <1>1, <1>17 DEF CreateUnanswered, db
  <2> QED
    BY <1>1, <1>2, <1>3, <1>4, <1>14, <2>1, <2>2, ClaimedMove
<1>18. CASE FinishDuplicate(w)
  <2>1. PICK status \in {"sent", "human_queue"}, linked \in BOOLEAN :
            Commit(j, status, "none", linked) /\ GotoWith(w, "finish", status, "none")
    BY <1>1, <1>18 DEF FinishDuplicate
  <2>2. UNCHANGED link
    BY <1>18 DEF FinishDuplicate, razorpay
  <2>3. wk'[w].pc = "finish" /\ wk'[w].job = j /\ wk'[w].status = status
    BY <1>1, <1>2, <2>1, GotoWithAt
  <2> QED
    BY <1>1, <1>2, <1>3, <1>4, <1>5, <2>1, <2>2, <2>3, FinishedMove
<1>19. CASE RecordResult(w)
  <2>1. PICK status, kind : status = wk[w].status /\ kind = wk[w].kind
    OBVIOUS
  <2>4. status \in {"sent", "failed"} /\ Commit(j, status, kind, status = "sent") /\ (status = "sent") \in BOOLEAN
    BY <1>1, <1>2, <1>19, <2>1 DEF RecordResult, ExecutorRow
  <2>2. UNCHANGED link
    BY <1>19 DEF RecordResult, razorpay
  <2>3. wk'[w].pc = "finish" /\ wk'[w].job = j /\ wk'[w].status = status
    BY <1>1, <1>2, <1>19, <2>1, GotoAt DEF RecordResult
  <2> QED
    BY <1>1, <1>2, <1>3, <1>4, <1>5, <2>2, <2>3, <2>4, FinishedMove
<1> QED
  BY <1>6, <1>7, <1>8, <1>9, <1>10, <1>11, <1>12, <1>13, <1>15, <1>16, <1>17, <1>18, <1>19 DEF SendStep

LEMMA FinishMoves ==
  ASSUME STypeInv, RowsOpen, NEW w \in Workers, FinishStep(w), UNCHANGED hd
  PROVE  ProcessMoves(w) /\ ExecutorRow(Serves(w), wk[w])'
<1>1. PICK j : j = wk[w].job
  OBVIOUS
<1>2. TypeOK /\ j \in Jobs /\ ExecutorRow(Serves(w), wk[w]) /\ wk[w] \in WorkerState /\ wk \in [Workers -> WorkerState]
  BY <1>1, StepIsBusy, BusyJob DEF STypeInv, Step, RowsOpen
<1>3. wk[w].pc \in {"finish", "close"} /\ UNCHANGED link
  BY DEF FinishStep, FinishSent, FinishClosed, FinishThrottled, Reconcile, FinishOther, Close, ToClose, db, razorpay
<1>4. CASE Close(w)
  BY <1>4, WrittenMove DEF Close, WritingPcs, razorpay
<1>5. ASSUME UNCHANGED <<job, outcome>>, wk'[w].pc \in {"idle", "followup"}, wk[w].pc = "finish"
      PROVE  ProcessMoves(w) /\ ExecutorRow(Serves(w), wk[w])'
  <2>1. Serves(w)
    BY <1>1, <1>2, <1>5 DEF ExecutorRow
  <2>2. ExecutorRow(Serves(w), wk[w])'
    BY <1>5, <2>1 DEF ExecutorRow, DuePcs, ExecutingPcs, WritingPcs
  <2> QED
    BY <1>3, <1>5, <2>2, SameStatus, SameLinks, SilentMove DEF ProcessMoves, WritingPcs
<1>6. ASSUME UNCHANGED <<job, outcome>>, ToClose(w), wk[w].pc = "finish", wk[w].status \notin Opening
      PROVE  ProcessMoves(w) /\ ExecutorRow(Serves(w), wk[w])'
  <2>1. CASE outcome[j] = <<>>
    <3>1. wk'[w].pc = "close" /\ wk'[w].job = j
      BY <1>1, <1>2, <1>6, <2>1, GotoAt DEF ToClose
    <3>2. Serves(w) /\ job[j].status \notin Opening
      BY <1>1, <1>2, <1>6 DEF ExecutorRow
    <3>3. ExecutorRow(Serves(w), wk[w])'
      BY <1>6, <3>1, <3>2 DEF ExecutorRow, DuePcs, ExecutingPcs, WritingPcs
    <3> QED
      BY <1>3, <1>6, <2>1, <3>1, <3>3, SameStatus, SameLinks, SilentMove DEF ProcessMoves
  <2>2. CASE outcome[j] # <<>>
    BY <1>1, <1>2, <1>5, <1>6, <2>2, DoneAt DEF ToClose
  <2> QED
    BY <2>1, <2>2
<1>7. CASE FinishSent(w)
  <2>1. job' = [job EXCEPT ![j].nudged = TRUE] /\ UNCHANGED outcome /\ wk'[w].pc = "idle"
    BY <1>1, <1>2, <1>7, DoneAt DEF FinishSent
  <2>2. \A k \in Jobs : StatusMove(w, k)
    BY <1>2, <2>1 DEF StatusMove, TypeOK, Row
  <2> QED
    BY <1>2, <1>3, <2>1, <2>2, SameLinks, SilentMove, IdleRow DEF ProcessMoves, WritingPcs
<1>8. CASE FinishClosed(w)
  <2>1. wk[w].status \notin Opening
    BY <1>8 DEF FinishClosed, Opening
  <2> QED
    BY <1>6, <1>8, <2>1 DEF FinishClosed, db
<1>9. CASE FinishThrottled(w) \/ FinishOther(w)
  <2>1. wk'[w].pc \in {"idle", "followup"}
    BY <1>2, <1>9, DoneAt, GotoAt DEF FinishThrottled, FinishOther
  <2> QED
    BY <1>5, <1>9, <2>1 DEF FinishThrottled, FinishOther, db
<1>10. CASE Reconcile(w)
  <2>1. wk[w].pc = "finish" /\ wk[w].status = "failed" /\ UNCHANGED outcome
    BY <1>10 DEF Reconcile
  <2>2. CASE Commit(j, "sent", "none", TRUE) /\ GotoWith(w, "finish", "sent", "none")
    <3>1. wk'[w].pc = "finish" /\ wk'[w].job = j /\ wk'[w].status = "sent"
      BY <1>1, <1>2, <2>2, GotoWithAt
    <3>2. Serves(w) /\ Exists(j) /\ "sent" \in Statuses \ Opening
      BY <1>1, <1>2, <2>1 DEF ExecutorRow, Exists, Statuses, Terminal, Opening
    <3> QED
      BY <1>1, <1>2, <1>3, <2>1, <2>2, <3>1, <3>2, FinishedMove
  <2>3. CASE Goto(w, "followup") /\ UNCHANGED job
    BY <1>2, <1>5, <2>1, <2>3, GotoAt
  <2>4. CASE ToClose(w) /\ UNCHANGED job
    BY <1>6, <2>1, <2>4 DEF Opening
  <2> QED
    BY <1>1, <1>10, <2>2, <2>3, <2>4 DEF Reconcile
<1> QED
  BY <1>4, <1>7, <1>8, <1>9, <1>10 DEF FinishStep

LEMMA ExecutionMovesRows ==
  ASSUME STypeInv, RowsOpen, NEW w \in Workers, Execution(w)
  PROVE  /\ ProcessMoves(w) /\ ExecutorRow(Serves(w), wk[w])' /\ HandlerRow(Serves(w), hd[w])'
         /\ \A v \in Workers \ {w} : wk'[v] = wk[v] /\ hd'[v] = hd[v]
<1>1. UNCHANGED hd /\ hd[w] = NoHandler /\ ((Serves(w) /\ Begin(w)) \/ Step(w))
  BY DEF Execution
<1>2. \A v \in Workers \ {w} : wk'[v] = wk[v]
  BY <1>1, ExecutionMoves DEF STypeInv, TypeOK
<1>3. hd'[w].pc = "idle" /\ hd'[w].pending = {} /\ hd'[w].live = {}
  BY <1>1 DEF NoHandler
<1>4. HandlerRow(Serves(w), hd[w])'
  BY <1>3 DEF HandlerRow, ClosingPcs
<1>5. ProcessMoves(w) /\ ExecutorRow(Serves(w), wk[w])'
  BY <1>1, BeginMoves, ScheduleMoves, RecoverMoves, GuardMoves, SendMoves, FinishMoves DEF Step
<1> QED
  BY <1>1, <1>2, <1>4, <1>5

-----------------------------------------------------------------------------
(* The handlers and the poll. *)

\* A handler that has answered.
LEMMA AnsweredRow ==
  ASSUME STypeInv, NEW w \in Workers, Answered(w)
  PROVE  /\ hd'[w].pc = "idle" /\ hd'[w].pending = {} /\ hd'[w].live = {}
         /\ HandlerRow(Serves(w), hd[w])'
         /\ \A v \in Workers \ {w} : hd'[v] = hd[v]
<1>1. hd'[w] = NoHandler /\ \A v \in Workers \ {w} : hd'[v] = hd[v]
  BY MovedAt DEF Answered
<1>2. hd'[w].pc = "idle" /\ hd'[w].pending = {} /\ hd'[w].live = {}
  BY <1>1 DEF NoHandler
<1> QED
  BY <1>1, <1>2 DEF HandlerRow, ClosingPcs

(* It reads, or goes on with a job it will write the outcome of.            *)
LEMMA SilentHandler ==
  ASSUME NEW w \in Workers, UNCHANGED outcome, wk'[w].pc \notin WritingPcs,
         \A k \in Jobs : (hd'[w].pc \in SettlingPcs /\ k = hd'[w].job) \/ k \in hd'[w].pending \cup hd'[w].live
                           => outcome[k] = <<>> \/ Writes(w, k)
  PROVE  \A k \in Jobs : OutcomeMove(w, k)
BY DEF OutcomeMove, Writes

(* The outcome of the job in hand. *)
LEMMA HandlerWrote ==
  ASSUME STypeInv, RowsOpen, NEW w \in Workers, NEW j \in Jobs, j = hd[w].job, hd[w].pc \in {"recovered", "polled", "closed"},
         NEW result, RecordOutcome(j, result), wk'[w].pc = "idle", hd'[w].pc \notin SettlingPcs,
         hd'[w].pending = hd[w].pending, hd'[w].live = hd[w].live,
         job'[j].status \notin Opening \/ link[j] # "none"
  PROVE  \A k \in Jobs : OutcomeMove(w, k)
<1>1. outcome'[j] = Append(outcome[j], result) /\ \A k \in Jobs \ {j} : outcome'[k] = outcome[k]
  BY DEF STypeInv, TypeOK, RecordOutcome
<1>2. Len(outcome'[j]) = Len(outcome[j]) + 1
  BY <1>1 DEF STypeInv, TypeOK
<1>3. j \notin hd[w].pending \cup hd[w].live
  BY DEF RowsOpen, HandlerRow, ClosingPcs
<1>4. Writes(w, j) /\ ~Writes(w, j)' /\ \A k \in Jobs : Writes(w, k)' => Writes(w, k)
  BY <1>3 DEF Writes, WritingPcs, SettlingPcs, ClosingPcs
<1> QED
  BY <1>1, <1>2, <1>4 DEF OutcomeMove

LEMMA PaidMoves ==
  ASSUME STypeInv, RowsOpen, NEW w \in Workers, wk[w].pc = "idle", PaidIgnored(w) \/ PaidChecked(w) \/ ClosePaidLink(w)
  PROVE  ProcessMoves(w) /\ HandlerRow(Serves(w), hd[w])' /\ UNCHANGED wk /\ \A v \in Workers \ {w} : hd'[v] = hd[v]
<1>1. PICK j : j = hd[w].job
  OBVIOUS
<1>2. /\ TypeOK /\ j \in Jobs /\ HandlerRow(Serves(w), hd[w]) /\ OpenRow(j) /\ hd[w].pc \in {"paid", "recovered"}
      /\ UNCHANGED <<link, wk>>
  BY <1>1 DEF STypeInv, HandlerTypeOK, JobPcs, RowsOpen, PaidIgnored, PaidChecked, ClosePaidLink, vars, razorpay
<1>3. link[j] # "none" /\ Serves(w) /\ hd[w].pending = {} /\ hd[w].live = {}
  BY <1>1, <1>2 DEF HandlerRow, ClosingPcs
<1>4. CASE PaidIgnored(w)
  <2>1. UNCHANGED <<job, outcome>> /\ Answered(w)
    BY <1>4 DEF PaidIgnored, vars
  <2> QED
    BY <1>2, <2>1, AnsweredRow, SameStatus, SameLinks, SilentHandler DEF ProcessMoves, WritingPcs, SettlingPcs, ClosingPcs
<1>5. CASE PaidChecked(w)
  <2>1. UNCHANGED <<job, outcome>> /\ outcome[j] = <<>> /\ Handle(w, "recovered")
    BY <1>1, <1>5 DEF PaidChecked, HasOutcome, vars
  <2>2. /\ hd'[w].pc = "recovered" /\ hd'[w].job = j /\ hd'[w].pending = {} /\ hd'[w].live = {}
        /\ \A v \in Workers \ {w} : hd'[v] = hd[v]
    BY <1>1, <1>3, <2>1, HandleAt
  <2>3. HandlerRow(Serves(w), hd[w])'
    BY <1>2, <1>3, <2>2 DEF HandlerRow, ClosingPcs
  <2>4. \A k \in Jobs : OutcomeMove(w, k)
    BY <1>2, <2>1, <2>2, SilentHandler DEF WritingPcs
  <2> QED
    BY <1>2, <2>1, <2>2, <2>3, <2>4, SameStatus, SameLinks DEF ProcessMoves
<1>6. CASE ClosePaidLink(w)
  <2>1. hd'[w].pc \in {"idle", "mark"} /\ hd'[w].pending = {} /\ hd'[w].live = {}
    BY <1>6, ClosePaidAt
  <2>2. \A v \in Workers \ {w} : hd'[v] = hd[v]
    BY <1>6, MovedAt DEF ClosePaidLink, Answered
  <2>3. \A k \in Jobs : StatusMove(w, k)
    <3>1. CASE UNCHANGED job
      BY <3>1, SameStatus
    <3>2. CASE Commit(j, "sent", job[j].kind, TRUE)
      <4>1. Exists(j) /\ "sent" \in Statuses \ Opening
        BY <1>2, <1>3 DEF OpenRow, Exists, Statuses, Terminal, Opening
      <4> QED
        BY <1>2, <1>3, <3>2, <4>1, CommitMove
    <3> QED
      BY <1>1, <1>6, <3>1, <3>2 DEF ClosePaidLink
  <2>4. \A k \in Jobs : OutcomeMove(w, k)
    <3>1. RecordOutcome(j, "recovered") /\ hd[w].pc = "recovered"
      BY <1>1, <1>6 DEF ClosePaidLink
    <3> QED
      BY <1>1, <1>2, <1>3, <2>1, <3>1, HandlerWrote DEF SettlingPcs, ClosingPcs
  <2>5. HandlerRow(Serves(w), hd[w])'
    BY <1>3, <2>1 DEF HandlerRow, ClosingPcs
  <2> QED
    BY <1>2, <2>2, <2>3, <2>4, <2>5, SameLinks DEF ProcessMoves
<1> QED
  BY <1>4, <1>5, <1>6

LEMMA OrderMoves ==
  ASSUME STypeInv, RowsOpen, NEW w \in Workers, wk[w].pc = "idle",
         \/ MarkOrderPaid(w) \/ TakeAttempt(w) \/ AttemptsDone(w) \/ VoidPending(w)
         \/ CancelLink(w) \/ CancelSkipped(w) \/ RecordCancel(w) \/ CloseStopped(w)
  PROVE  ProcessMoves(w) /\ HandlerRow(Serves(w), hd[w])' /\ UNCHANGED wk /\ \A v \in Workers \ {w} : hd'[v] = hd[v]
<1>1. PICK h, j : h = hd[w] /\ j = h.job
  OBVIOUS
<1>2. /\ TypeOK /\ HandlerRow(Serves(w), h) /\ h \in HandlerState /\ hd \in [Workers -> HandlerState] /\ UNCHANGED wk
      /\ h.pending \subseteq Jobs /\ h.live \subseteq Jobs /\ (h.pc \in ClosingPcs => j \in Jobs)
      /\ h.pc \in {"mark", "attempt"} \cup ClosingPcs
  BY <1>1 DEF STypeInv, HandlerTypeOK, HandlerState, JobPcs, RowsOpen, ClosingPcs, MarkOrderPaid, TakeAttempt, AttemptsDone,
     VoidPending, CancelLink, CancelSkipped, RecordCancel, CloseStopped, vars
<1>3. Serves(w) /\ wk'[w].pc \notin WritingPcs
  BY <1>2 DEF HandlerRow, ClosingPcs, WritingPcs
<1>4. CASE MarkOrderPaid(w)
  <2>1. UNCHANGED <<job, outcome, link>> /\ h.pending = {} /\ h.live = {}
    BY <1>1, <1>2, <1>4 DEF MarkOrderPaid, HandlerRow, ClosingPcs, razorpay
  <2>2. CASE Answered(w)
    BY <1>2, <1>3, <2>1, <2>2, AnsweredRow, SameStatus, SameLinks, SilentHandler DEF ProcessMoves, SettlingPcs, ClosingPcs
  <2>3. CASE hd' = [hd EXCEPT ![w] = [@ EXCEPT !.pc = "attempt", !.todo = AttemptsOf(hd[w].order)]]
    <3>1. /\ hd'[w].pc = "attempt" /\ hd'[w].pending = {} /\ hd'[w].live = {}
          /\ \A v \in Workers \ {w} : hd'[v] = hd[v]
      BY <1>1, <1>2, <2>1, <2>3 DEF HandlerState
    <3>2. HandlerRow(Serves(w), hd[w])'
      BY <1>3, <3>1 DEF HandlerRow, ClosingPcs
    <3> QED
      BY <1>2, <1>3, <2>1, <3>1, <3>2, SameStatus, SameLinks, SilentHandler DEF ProcessMoves, SettlingPcs, ClosingPcs
  <2> QED
    BY <1>4, <2>2, <2>3 DEF MarkOrderPaid
<1>5. CASE TakeAttempt(w)
  <2>1. PICK p \in h.todo :
           hd' = [hd EXCEPT ![w] = [@ EXCEPT !.todo = h.todo \ {p}, !.pending = PendingOf(p), !.live = LiveOf(p)]]
    BY <1>1, <1>5 DEF TakeAttempt
  <2>2. h.pc = "attempt" /\ UNCHANGED <<job, outcome, link>>
    BY <1>1, <1>5 DEF TakeAttempt, vars
  <2>3. /\ hd'[w].pc = "attempt" /\ hd'[w].pending = PendingOf(p) /\ hd'[w].live = LiveOf(p)
        /\ \A v \in Workers \ {w} : hd'[v] = hd[v]
    BY <1>1, <1>2, <2>1, <2>2 DEF HandlerState
  <2>4. \A k \in Jobs : k \in PendingOf(p) \cup LiveOf(p) => outcome[k] = <<>>
    BY DEF PendingOf, LiveOf, HasOutcome, RowsOpen, OpenRow, Opening
  <2>5. HandlerRow(Serves(w), hd[w])'
    <3>1. PendingOf(p) \cap LiveOf(p) = {}
      BY DEF PendingOf, LiveOf
    <3> QED
      BY <1>3, <2>3, <3>1 DEF HandlerRow, ClosingPcs
  <2>6. \A k \in Jobs : OutcomeMove(w, k)
    BY <1>3, <2>2, <2>3, <2>4, SilentHandler DEF SettlingPcs, ClosingPcs
  <2> QED
    BY <1>2, <2>2, <2>3, <2>5, <2>6, SameStatus, SameLinks DEF ProcessMoves
<1>6. CASE AttemptsDone(w)
  <2>1. UNCHANGED <<job, outcome, link>> /\ Answered(w)
    BY <1>6 DEF AttemptsDone, vars
  <2> QED
    BY <1>2, <1>3, <2>1, AnsweredRow, SameStatus, SameLinks, SilentHandler DEF ProcessMoves, SettlingPcs, ClosingPcs
<1>7. CASE VoidPending(w)
  <2>1. PICK i \in h.pending : i = First(h.pending)
    BY <1>1, <1>2, <1>7, FirstIsMember DEF VoidPending
  <2>2. /\ Commit(i, "no_action", "none", FALSE) /\ UNCHANGED <<outcome, link>> /\ h.pc = "attempt"
        /\ hd' = [hd EXCEPT ![w] = [@ EXCEPT !.pc = "closed", !.job = i, !.pending = h.pending \ {i}]]
    BY <1>1, <1>7, <2>1 DEF VoidPending, razorpay
  <2>3. /\ hd'[w].pc = "closed" /\ hd'[w].job = i /\ hd'[w].pending = h.pending \ {i} /\ hd'[w].live = h.live
        /\ \A v \in Workers \ {w} : hd'[v] = hd[v]
    BY <1>1, <1>2, <2>2 DEF HandlerState
  <2>4. job'[i].status = "no_action" /\ \A k \in Jobs \ {i} : job'[k] = job[k]
    BY <1>2, <2>1, <2>2, CommitAt
  <2>5. \A k \in Jobs : StatusMove(w, k)
    BY <1>3, <2>4 DEF StatusMove, Exists, Opening
  <2>6. HandlerRow(Serves(w), hd[w])'
    BY <1>2, <1>3, <2>1, <2>3, <2>4 DEF HandlerRow, ClosingPcs, Opening
  <2>7. \A k \in Jobs : OutcomeMove(w, k)
    BY <1>1, <1>3, <2>1, <2>2, <2>3, SilentHandler DEF Writes
  <2> QED
    BY <1>2, <2>2, <2>3, <2>5, <2>6, <2>7, SameLinks DEF ProcessMoves
<1>8. CASE CancelLink(w)
  <2>1. PICK i \in h.live : i = First(h.live)
    BY <1>1, <1>2, <1>8, FirstIsMember DEF CancelLink
  <2>2. PICK pc \in {"cancelled", "parked"} : hd' = [hd EXCEPT ![w] = [@ EXCEPT !.pc = pc, !.job = i, !.live = h.live \ {i}]]
    BY <1>1, <1>8, <2>1 DEF CancelLink
  <2>3. UNCHANGED <<job, outcome>> /\ h.pc = "attempt" /\ (UNCHANGED link \/ (Live(i) /\ link' = [link EXCEPT ![i] = "cancelled"]))
    BY <1>1, <1>8, <2>1 DEF CancelLink, db
  <2>4. /\ hd'[w].pc = pc /\ hd'[w].job = i /\ hd'[w].pending = h.pending /\ hd'[w].live = h.live \ {i}
        /\ \A v \in Workers \ {w} : hd'[v] = hd[v]
    BY <1>1, <1>2, <2>2 DEF HandlerState
  <2>5. \A k \in Jobs : LinkMove(w, k)
    BY <1>2, <2>3 DEF LinkMove, Live, TypeOK
  <2>6. HandlerRow(Serves(w), hd[w])'
    BY <1>2, <1>3, <2>1, <2>4 DEF HandlerRow, ClosingPcs
  <2>7. \A k \in Jobs : OutcomeMove(w, k)
    BY <1>1, <1>3, <2>1, <2>3, <2>4, SilentHandler DEF Writes
  <2> QED
    BY <1>2, <2>3, <2>4, <2>5, <2>6, <2>7, SameStatus DEF ProcessMoves
<1>9. CASE CancelSkipped(w)
  <2>1. PICK i \in h.live : i = First(h.live)
    BY <1>1, <1>2, <1>9, FirstIsMember DEF CancelSkipped
  <2>2. UNCHANGED <<job, outcome, link>> /\ h.pc = "attempt" /\ hd' = [hd EXCEPT ![w].live = @ \ {i}]
    BY <1>1, <1>9, <2>1 DEF CancelSkipped, vars
  <2>3. /\ hd'[w].pc = "attempt" /\ hd'[w].pending = h.pending /\ hd'[w].live = h.live \ {i}
        /\ \A v \in Workers \ {w} : hd'[v] = hd[v]
    BY <1>1, <1>2, <2>2 DEF HandlerState
  <2>4. HandlerRow(Serves(w), hd[w])'
    BY <1>2, <1>3, <2>3 DEF HandlerRow, ClosingPcs
  <2>5. \A k \in Jobs : OutcomeMove(w, k)
    BY <1>1, <1>3, <2>2, <2>3, SilentHandler DEF Writes, SettlingPcs, ClosingPcs
  <2> QED
    BY <1>2, <2>2, <2>3, <2>4, <2>5, SameStatus, SameLinks DEF ProcessMoves
<1>10. CASE RecordCancel(w)
  <2>1. PICK status \in {"cancelled", "human_queue"} : Commit(j, status, "none", FALSE)
    BY <1>1, <1>10 DEF RecordCancel
  <2>2. UNCHANGED <<outcome, link>> /\ h.pc \in ClosingPcs /\ Handle(w, "closed")
    BY <1>1, <1>10 DEF RecordCancel, ClosingPcs, razorpay
  <2>3. /\ hd'[w].pc = "closed" /\ hd'[w].job = j /\ hd'[w].pending = h.pending /\ hd'[w].live = h.live
        /\ \A v \in Workers \ {w} : hd'[v] = hd[v]
    BY <1>1, <2>2, HandleAt
  <2>4. job'[j].status = status /\ \A k \in Jobs \ {j} : job'[k] = job[k]
    BY <1>2, <2>1, <2>2, CommitAt
  <2>5. \A k \in Jobs : StatusMove(w, k)
    BY <1>3, <2>4 DEF StatusMove, Exists, Opening
  <2>6. HandlerRow(Serves(w), hd[w])'
    BY <1>1, <1>2, <1>3, <2>2, <2>3, <2>4 DEF HandlerRow, ClosingPcs, Opening
  <2>7. \A k \in Jobs : OutcomeMove(w, k)
    BY <1>1, <1>3, <2>2, <2>3, SilentHandler DEF Writes, SettlingPcs
  <2> QED
    BY <1>2, <2>2, <2>3, <2>5, <2>6, <2>7, SameLinks DEF ProcessMoves
<1>11. CASE CloseStopped(w)
  <2>1. UNCHANGED <<job, link>> /\ RecordOutcome(j, "lost") /\ h.pc = "closed" /\ j \in Jobs
    BY <1>1, <1>2, <1>11 DEF CloseStopped, ClosingPcs, razorpay
  <2>2. hd' = [hd EXCEPT ![w] = [@ EXCEPT !.pc = "attempt", !.job = NoJob]]
    BY <1>11 DEF CloseStopped
  <2>3. /\ hd'[w].pc = "attempt" /\ hd'[w].pending = h.pending /\ hd'[w].live = h.live
        /\ \A v \in Workers \ {w} : hd'[v] = hd[v]
    BY <1>1, <1>2, <2>2 DEF HandlerState
  <2>4. job'[j].status \notin Opening
    BY <1>1, <1>2, <2>1 DEF HandlerRow
  <2>5. \A k \in Jobs : OutcomeMove(w, k)
    BY <1>1, <1>2, <2>1, <2>3, <2>4, HandlerWrote DEF SettlingPcs, ClosingPcs
  <2>6. HandlerRow(Serves(w), hd[w])'
    BY <1>2, <1>3, <2>3 DEF HandlerRow, ClosingPcs
  <2> QED
    BY <1>2, <2>1, <2>3, <2>5, <2>6, SameStatus, SameLinks DEF ProcessMoves
<1> QED
  BY <1>4, <1>5, <1>6, <1>7, <1>8, <1>9, <1>10, <1>11

LEMMA PollMoves ==
  ASSUME STypeInv, RowsOpen, NEW w \in Workers, wk[w].pc = "idle",
         ExpiredIgnored(w) \/ ExpiredChecked(w) \/ StillOpen(w) \/ FetchLink(w) \/ RecordSeen(w) \/ ExpiryFollowup(w)
  PROVE  /\ ProcessMoves(w) /\ ExecutorRow(Serves(w), wk[w])' /\ HandlerRow(Serves(w), hd[w])'
         /\ \A v \in Workers \ {w} : wk'[v] = wk[v] /\ hd'[v] = hd[v]
<1>1. PICK h, j : h = hd[w] /\ j = h.job
  OBVIOUS
<1>2. /\ TypeOK /\ HandlerRow(Serves(w), h) /\ h \in HandlerState /\ hd \in [Workers -> HandlerState] /\ j \in Jobs
      /\ OpenRow(j) /\ h.pending = {} /\ h.live = {} /\ UNCHANGED link
      /\ h.pc \in {"expired", "fetch", "polled", "lapsed"}
  <2>1. h.pc \in {"expired", "fetch", "polled", "lapsed"} /\ UNCHANGED link
    BY <1>1 DEF ExpiredIgnored, ExpiredChecked, StillOpen, FetchLink, RecordSeen, ExpiryFollowup, vars, razorpay
  <2> QED
    BY <1>1, <2>1 DEF STypeInv, HandlerTypeOK, JobPcs, RowsOpen, HandlerRow, ClosingPcs
<1>3. ASSUME UNCHANGED wk PROVE ExecutorRow(Serves(w), wk[w])' /\ wk'[w].pc \notin WritingPcs
  BY <1>2, <1>3, IdleRow DEF WritingPcs
<1>4. CASE ExpiredIgnored(w) \/ StillOpen(w)
  <2>1. UNCHANGED <<job, outcome, wk>> /\ Answered(w)
    BY <1>4 DEF ExpiredIgnored, StillOpen, vars
  <2> QED
    BY <1>2, <1>3, <2>1, AnsweredRow, SameStatus, SameLinks, SilentHandler DEF ProcessMoves, SettlingPcs, ClosingPcs
<1>5. CASE ExpiredChecked(w)
  <2>1. UNCHANGED <<job, outcome, wk>> /\ outcome[j] = <<>> /\ Handle(w, "polled") /\ h.pc = "expired"
    BY <1>1, <1>5 DEF ExpiredChecked, HasOutcome, vars
  <2>2. /\ hd'[w].pc = "polled" /\ hd'[w].job = j /\ hd'[w].pending = {} /\ hd'[w].live = {}
        /\ \A v \in Workers \ {w} : hd'[v] = hd[v]
    BY <1>1, <1>2, <2>1, HandleAt
  <2>3. HandlerRow(Serves(w), hd[w])'
    BY <1>1, <1>2, <2>1, <2>2 DEF HandlerRow, ClosingPcs
  <2>4. \A k \in Jobs : OutcomeMove(w, k)
    BY <1>3, <2>1, <2>2, SilentHandler
  <2> QED
    BY <1>2, <1>3, <2>1, <2>2, <2>3, <2>4, SameStatus, SameLinks DEF ProcessMoves
<1>6. CASE FetchLink(w)
  <2>1. UNCHANGED <<job, outcome, wk>> /\ h.pc = "fetch"
    BY <1>1, <1>6 DEF FetchLink, vars
  <2>2. PICK seen : hd' = [hd EXCEPT ![w] = [@ EXCEPT !.pc = "polled", !.seen = seen]]
    BY <1>6 DEF FetchLink
  <2>3. /\ hd'[w].pc = "polled" /\ hd'[w].job = j /\ hd'[w].pending = {} /\ hd'[w].live = {}
        /\ \A v \in Workers \ {w} : hd'[v] = hd[v]
    BY <1>1, <1>2, <2>2 DEF HandlerState
  <2>4. HandlerRow(Serves(w), hd[w])'
    BY <1>1, <1>2, <2>1, <2>3 DEF HandlerRow, ClosingPcs, Exists
  <2>5. \A k \in Jobs : OutcomeMove(w, k)
    BY <1>1, <1>2, <1>3, <2>1, <2>3, SilentHandler DEF Writes, SettlingPcs
  <2> QED
    BY <1>2, <1>3, <2>1, <2>3, <2>4, <2>5, SameStatus, SameLinks DEF ProcessMoves
<1>7. CASE RecordSeen(w)
  <2>1. PICK result : RecordOutcome(j, result)
    BY <1>1, <1>7 DEF RecordSeen
  <2>2. /\ UNCHANGED wk /\ h.pc = "polled" /\ job' = [job EXCEPT ![j].link = TRUE]
        /\ Handle(w, "lapsed") \/ Answered(w)
    BY <1>1, <1>7 DEF RecordSeen
  <2>3. \A k \in Jobs : job'[k].status = job[k].status
    BY <1>2, <2>2 DEF TypeOK, Row
  <2>4. /\ \/ hd'[w].pc = "lapsed" /\ hd'[w].job = j
           \/ hd'[w].pc = "idle"
        /\ hd'[w].pending = {} /\ hd'[w].live = {}
        /\ \A v \in Workers \ {w} : hd'[v] = hd[v]
    <3>1. CASE Handle(w, "lapsed")
      BY <1>1, <1>2, <3>1, HandleAt
    <3>2. CASE Answered(w)
      BY <3>2, AnsweredRow
    <3> QED
      BY <2>2, <3>1, <3>2
  <2>5. HandlerRow(Serves(w), hd[w])'
    <3>1. ~Serves(w) => Exists(j)'
      BY <1>1, <1>2, <2>2, <2>3 DEF HandlerRow, Exists
    <3> QED
      BY <2>4, <3>1 DEF HandlerRow, ClosingPcs, Exists
  <2>6. \A k \in Jobs : OutcomeMove(w, k)
    <3>1. job'[j].status \notin Opening \/ link[j] # "none"
      BY <1>1, <1>2, <2>2, <2>3 DEF HandlerRow
    <3>2. hd'[w].pc \notin SettlingPcs /\ wk'[w].pc = "idle"
      BY <2>2, <2>4 DEF SettlingPcs, ClosingPcs
    <3> QED
      BY <1>1, <1>2, <2>1, <2>2, <2>4, <3>1, <3>2, HandlerWrote
  <2>7. \A k \in Jobs : StatusMove(w, k)
    BY <2>3 DEF StatusMove
  <2> QED
    BY <1>2, <1>3, <2>2, <2>4, <2>5, <2>6, <2>7, SameLinks DEF ProcessMoves
<1>8. CASE ExpiryFollowup(w)
  <2>1. UNCHANGED <<job, outcome>> /\ Answered(w) /\ h.pc = "lapsed"
    BY <1>1, <1>8 DEF ExpiryFollowup, db
  <2>2. /\ wk'[w].pc = "idle" \/ (wk'[w].pc = "followup" /\ wk'[w].job = j)
        /\ \A v \in Workers \ {w} : wk'[v] = wk[v]
    BY <1>1, <1>2, <1>8 DEF ExpiryFollowup, TypeOK, Idle
  <2>3. ExecutorRow(Serves(w), wk[w])'
    <3>1. ~Serves(w) => Exists(j)
      BY <1>1, <1>2, <2>1 DEF HandlerRow
    <3> QED
      BY <2>1, <2>2, <3>1 DEF ExecutorRow, DuePcs, ExecutingPcs, WritingPcs, Exists
  <2>4. wk'[w].pc \notin WritingPcs
    BY <2>2 DEF WritingPcs
  <2> QED
    BY <1>2, <2>1, <2>2, <2>3, <2>4, AnsweredRow, SameStatus, SameLinks, SilentHandler
       DEF ProcessMoves, SettlingPcs, ClosingPcs
<1> QED
  BY <1>4, <1>5, <1>6, <1>7, <1>8

LEMMA ReceiveMoves ==
  ASSUME STypeInv, RowsOpen, NEW w \in Workers, Receive(w)
  PROVE  /\ ProcessMoves(w) /\ ExecutorRow(Serves(w), wk[w])' /\ HandlerRow(Serves(w), hd[w])'
         /\ \A v \in Workers \ {w} : wk'[v] = wk[v] /\ hd'[v] = hd[v]
<1>1. /\ TypeOK /\ UNCHANGED <<job, outcome, link, wk>> /\ wk[w].pc = "idle" /\ hd[w] = NoHandler
      /\ hd \in [Workers -> HandlerState]
  <2>1. wk[w] = Idle /\ hd[w] = NoHandler /\ UNCHANGED vars
    BY DEF Receive, ReceivePaid, ReceiveExpired, PollLink, ReceiveCaptured, Free
  <2> QED
    BY <2>1 DEF STypeInv, HandlerTypeOK, Idle, vars
<1>2. ExecutorRow(Serves(w), wk[w])' /\ wk'[w].pc \notin WritingPcs
  BY <1>1, IdleRow DEF WritingPcs
<1>3. PICK j, pc :
        /\ hd'[w].pc = pc /\ hd'[w].pending = {} /\ hd'[w].live = {}
        /\ \A v \in Workers \ {w} : hd'[v] = hd[v]
        /\ \/ pc = "mark" /\ Serves(w)
           \/ pc \in {"paid", "expired"} /\ Serves(w) /\ hd'[w].job = j /\ j \in Jobs /\ link[j] # "none"
           \/ pc = "fetch" /\ hd'[w].job = j /\ j \in OpenLinks
  <2>1. ASSUME NEW j \in Jobs, ReceivePaid(w, j) \/ ReceiveExpired(w, j) \/ PollLink(w, j)
        PROVE  /\ hd'[w].pc \in {"paid", "expired", "fetch"} /\ hd'[w].job = j
               /\ hd'[w].pending = {} /\ hd'[w].live = {}
               /\ \A v \in Workers \ {w} : hd'[v] = hd[v]
               /\ hd'[w].pc = "fetch" => j \in OpenLinks
               /\ hd'[w].pc # "fetch" => Serves(w) /\ link[j] # "none"
    <3>1. hd[w].job = NoJob /\ hd[w].pending = {} /\ hd[w].live = {}
      BY <1>1 DEF NoHandler
    <3>2. CASE ReceivePaid(w, j)
      BY <1>1, <3>1, <3>2 DEF ReceivePaid, HandlerState, PaymentLinkPaid
    <3>3. CASE ReceiveExpired(w, j)
      BY <1>1, <3>1, <3>3 DEF ReceiveExpired, HandlerState, PaymentLinkExpired
    <3>4. CASE PollLink(w, j)
      BY <1>1, <3>1, <3>4 DEF PollLink, HandlerState
    <3> QED
      BY <2>1, <3>2, <3>3, <3>4
  <2>2. ASSUME NEW o \in Orders, ReceiveCaptured(w, o)
        PROVE  /\ hd'[w].pc = "mark" /\ Serves(w) /\ hd'[w].pending = {} /\ hd'[w].live = {}
               /\ \A v \in Workers \ {w} : hd'[v] = hd[v]
    BY <1>1, <2>2 DEF ReceiveCaptured, NoHandler, HandlerState
  <2>3. CASE \E j \in Jobs : ReceivePaid(w, j) \/ ReceiveExpired(w, j) \/ PollLink(w, j)
    BY <2>1, <2>3
  <2>4. CASE \E o \in Orders : ReceiveCaptured(w, o)
    BY <2>2, <2>4
  <2> QED
    BY <2>3, <2>4 DEF Receive
<1>4. pc = "fetch" => /\ j \in Jobs /\ outcome[j] = <<>> /\ Exists(j)
                      /\ job[j].status \notin Opening
  BY <1>3 DEF OpenLinks, HasOutcome, Exists, Opening
<1>5. HandlerRow(Serves(w), hd[w])'
  <2>1. CASE pc = "mark" \/ pc \in {"paid", "expired"}
    BY <1>1, <1>3, <2>1 DEF HandlerRow, ClosingPcs
  <2>2. CASE pc = "fetch"
    BY <1>1, <1>3, <1>4, <2>2 DEF HandlerRow, ClosingPcs, Exists
  <2> QED
    BY <1>3, <2>1, <2>2
<1>6. \A k \in Jobs : OutcomeMove(w, k)
  BY <1>1, <1>2, <1>3, <1>4, SilentHandler DEF SettlingPcs, ClosingPcs
<1> QED
  BY <1>1, <1>2, <1>3, <1>5, <1>6, SameStatus, SameLinks DEF ProcessMoves

LEMMA SettleMoves ==
  ASSUME STypeInv, RowsOpen, NEW w \in Workers, SettleStep(w)
  PROVE  /\ ProcessMoves(w) /\ ExecutorRow(Serves(w), wk[w])' /\ HandlerRow(Serves(w), hd[w])'
         /\ \A v \in Workers \ {w} : wk'[v] = wk[v] /\ hd'[v] = hd[v]
<1>1. wk[w].pc = "idle" /\ TypeOK
  <2>1. hd[w].pc # "idle"
    BY SettleIsHandling DEF Handling
  <2> QED
    BY <2>1 DEF STypeInv, OneSide, Idle
<1>2. UNCHANGED wk => ExecutorRow(Serves(w), wk[w])'
  BY <1>1, IdleRow
<1> QED
  BY <1>1, <1>2, PaidMoves, OrderMoves, PollMoves DEF SettleStep

(* The process dies with what it holds. *)
LEMMA CrashMoves ==
  ASSUME STypeInv, RowsOpen, NEW w \in Workers, SettlementCrash(w)
  PROVE  /\ ProcessMoves(w) /\ ExecutorRow(Serves(w), wk[w])' /\ HandlerRow(Serves(w), hd[w])'
         /\ \A v \in Workers \ {w} : wk'[v] = wk[v] /\ hd'[v] = hd[v]
<1>1. TypeOK /\ UNCHANGED <<job, outcome, link>> /\ Done(w) /\ Answered(w)
  BY DEF STypeInv, SettlementCrash, db, razorpay
<1>2. wk'[w].pc = "idle" /\ \A v \in Workers \ {w} : wk'[v] = wk[v]
  BY <1>1, DoneAt DEF Done, TypeOK
<1> QED
  BY <1>1, <1>2, AnsweredRow, IdleRow, SameStatus, SameLinks, SilentHandler
     DEF ProcessMoves, WritingPcs, SettlingPcs, ClosingPcs

(* The customer, the dashboard and time end a link; none makes one. *)
LEMMA CustomerRows ==
  ASSUME STypeInv, RowsOpen, RoomToWrite, UNCHANGED <<job, outcome, wk, hd>>, inflight' = {},
         \A j \in Jobs : link[j] = "none" <=> link'[j] = "none"
  PROVE  RowsOpen' /\ RoomToWrite'
<1>1. RoomToWrite'
  BY DEF RoomToWrite, Writers, Writes
<1>2. ASSUME NEW j \in Jobs PROVE OpenRow(j)'
  BY DEF RowsOpen, OpenRow
<1>3. ASSUME NEW w \in Workers PROVE ExecutorRow(Serves(w), wk[w])' /\ HandlerRow(Serves(w), hd[w])'
  <2>1. PICK r, h, s : r = wk[w] /\ h = hd[w] /\ s = Serves(w)
    OBVIOUS
  <2>2. (r.pc # "idle" => r.job \in Jobs) /\ (h.pc \in JobPcs => h.job \in Jobs)
    BY <2>1 DEF STypeInv, TypeOK, HandlerTypeOK
  <2>3. ExecutorRow(s, r) /\ HandlerRow(s, h)
    BY <2>1 DEF RowsOpen
  <2>4. ExecutorRow(s, r)'
    BY <2>2, <2>3 DEF ExecutorRow, Exists
  <2>5. HandlerRow(s, h)'
    BY <2>2, <2>3 DEF HandlerRow, Exists, JobPcs
  <2> QED
    BY <2>1, <2>4, <2>5
<1> QED
  BY <1>1, <1>2, <1>3 DEF RowsOpen

LEMMA WorldRows ==
  ASSUME STypeInv, RowsOpen, RoomToWrite, inflight' = {},
         \/ \E j \in Jobs : PayLink(j) \/ PayPart(j) \/ EndLink(j) \/ (Land(j) /\ UNCHANGED hd)
         \/ \E o \in Orders : PayElsewhere(o)
         \/ UNCHANGED svars
  PROVE  RowsOpen' /\ RoomToWrite'
<1>1. TypeOK /\ inflight = {}
  BY DEF STypeInv, RowsOpen
<1>2. UNCHANGED <<job, outcome, wk, hd>>
  BY <1>1 DEF PayLink, PayPart, EndLink, Land, PayElsewhere, Capture, db, svars, vars
<1>3. \A k \in Jobs : link[k] = "none" <=> link'[k] = "none"
  <2>1. ASSUME NEW j \in Jobs, PayLink(j) \/ PayPart(j) \/ EndLink(j)
        PROVE  \A k \in Jobs : link[k] = "none" <=> link'[k] = "none"
    BY <1>1, <2>1 DEF PayLink, PayPart, EndLink, Live, TypeOK
  <2>2. ASSUME NEW o \in Orders, PayElsewhere(o) PROVE UNCHANGED link
    BY <2>2 DEF PayElsewhere, Capture
  <2> QED
    BY <1>1, <2>1, <2>2 DEF Land, svars, vars
<1> QED
  BY <1>2, <1>3, CustomerRows

-----------------------------------------------------------------------------

LEMMA RoomStep ==
  ASSUME OneServe, ~LateLanding, IsFiniteSet(Workers), STypeInv, RowsOpen, RoomToWrite, [SNext]_svars
  PROVE  RowsOpen' /\ RoomToWrite'
<1>1. inflight' = {} /\ TypeOK
  BY NothingInflight DEF RowsOpen, STypeInv
<1>2. ASSUME NEW w \in Workers, Execution(w) \/ SettleStep(w) \/ Receive(w) \/ SettlementCrash(w)
      PROVE  RowsOpen' /\ RoomToWrite'
  <2>1. /\ ProcessMoves(w) /\ ExecutorRow(Serves(w), wk[w])' /\ HandlerRow(Serves(w), hd[w])'
        /\ \A v \in Workers \ {w} : wk'[v] = wk[v] /\ hd'[v] = hd[v]
    BY <1>2, ExecutionMovesRows, SettleMoves, ReceiveMoves, CrashMoves
  <2>2. RowsOpen'
    BY <1>1, <2>1, OwnRowsOpen
  <2>3. RoomToWrite'
    BY <1>1, <2>1, RoomKept DEF ProcessMoves
  <2> QED
    BY <2>2, <2>3
<1> QED
  BY <1>1, <1>2, WorldRows DEF SNext, World

LEMMA RoomInit == ASSUME IsFiniteSet(Workers) PROVE SInit => RowsOpen /\ RoomToWrite
<1> SUFFICES ASSUME SInit PROVE RowsOpen /\ RoomToWrite
  OBVIOUS
<1>1. /\ inflight = {} /\ (\A j \in Jobs : job[j].status = "absent" /\ link[j] = "none" /\ outcome[j] = <<>>)
      /\ \A w \in Workers : wk[w].pc = "idle" /\ hd[w].pc = "idle" /\ hd[w].pending = {} /\ hd[w].live = {}
  BY DEF SInit, Init, NoRow, Idle, NoHandler
<1>2. RowsOpen
  BY <1>1 DEF RowsOpen, OpenRow, ExecutorRow, HandlerRow, DuePcs, ExecutingPcs, WritingPcs, ClosingPcs
<1>3. ASSUME NEW j \in Jobs PROVE Len(outcome[j]) = 0 /\ Writers(j) = {}
  BY <1>1 DEF Writers, Writes, WritingPcs, SettlingPcs, ClosingPcs
<1>4. RoomToWrite
  <2>1. Cardinality({}) = 0 /\ Cardinality(Workers) \in Nat
    BY FS_EmptySet, FS_CardinalityType
  <2>2. ASSUME NEW j \in Jobs PROVE Len(outcome[j]) + Cardinality(Writers(j)) <= Cardinality(Workers)
    <3>1. Cardinality(Writers(j)) = 0
      BY <1>3, <2>1
    <3> QED
      BY <1>3, <2>1, <3>1
  <2> QED
    BY <2>2 DEF RoomToWrite
<1> QED
  BY <1>2, <1>4

(* However the webhooks are redelivered and the polls repeated, voided rows  *)
(* closed and processes killed, each process writes at most one outcome of a *)
(* job (close_paid_link, close_expired_link, record_order_paid, _park and    *)
(* poll_outcomes): serve under its lock and any number of polls beside it,   *)
(* as long as no request lands after its call gave up.                       *)
THEOREM OneOutcomeEach ==
  ASSUME OneServe, ~LateLanding, IsFiniteSet(Workers)
  PROVE  SSpec => []OutcomeOncePerProcess
<1>1. SInit => RowsOpen /\ RoomToWrite
  BY RoomInit
<1>2. STypeInv /\ RowsOpen /\ RoomToWrite /\ [SNext]_svars => (RowsOpen /\ RoomToWrite)'
  BY RoomStep
<1>3. STypeInv /\ RoomToWrite => OutcomeOncePerProcess
  <2> SUFFICES ASSUME STypeInv, RoomToWrite, NEW j \in Jobs PROVE Len(outcome[j]) <= Cardinality(Workers)
    BY DEF OutcomeOncePerProcess
  <2>1. Writers(j) \subseteq Workers
    BY DEF Writers
  <2>2. Cardinality(Writers(j)) \in Nat /\ Cardinality(Workers) \in Nat
    BY <2>1, FS_Subset, FS_CardinalityType
  <2>3. Len(outcome[j]) \in Nat
    BY DEF STypeInv, TypeOK
  <2> QED
    BY <2>2, <2>3 DEF RoomToWrite
<1> QED
  BY <1>1, <1>2, <1>3, STypeCorrect, PTL DEF SSpec
=============================================================================
