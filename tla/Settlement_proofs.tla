-------------------------- MODULE Settlement_proofs --------------------------
(***************************************************************************)
(* Theorems of Executor, for any payments, workers, budgets and faults     *)
(* (a follow-up's create call, for one process); then of Settlement: type  *)
(* correctness, and what holds of the paid orders and of the money that is *)
(* counted.                                                                *)
(***************************************************************************)
EXTENDS Settlement, FiniteSetTheorems, WellFoundedInduction, TLAPS

-----------------------------------------------------------------------------
(* The sequence numbers of a payment. *)

(* A non-empty set of sequence numbers has a largest one: take the member    *)
(* with the fewest members above it.                                        *)
LEMMA LargestExists ==
  ASSUME NEW n \in Nat, NEW T \in SUBSET (1..n), T # {}
  PROVE  \E x \in T : \A y \in T : y <= x
<1> DEFINE Above(x) == {y \in T : y > x}
           F == {Above(x) : x \in T}
<1>1. IsFiniteSet(T)
  <2>1. IsFiniteSet(1..n)
    BY FS_Interval, 1 \in Int, n \in Int
  <2> QED
    BY <2>1, FS_Subset
<1>2. \A x \in T : Above(x) \in FiniteSubsetsOf(T)
  BY <1>1, FS_Subset DEF FiniteSubsetsOf
<1>3. PICK U \in F : \A V \in F : ~(<<V, U>> \in StrictSubsetOrdering(T))
  <2>1. F \subseteq FiniteSubsetsOf(T) /\ F # {}
    BY <1>2
  <2> QED
    BY <2>1, FS_StrictSubsetOrderingWellFounded, WFMin
<1>4. PICK x \in T : U = Above(x)
  OBVIOUS
<1>5. \A y \in T : ~(y > x)
  <2> SUFFICES ASSUME NEW y \in T, y > x PROVE FALSE
    OBVIOUS
  <2>1. Above(y) \subseteq Above(x) /\ y \in Above(x) /\ y \notin Above(y)
    <3>1. T \subseteq Nat
      OBVIOUS
    <3>2. \A z \in T : z > y => z > x
      BY <3>1
    <3>3. ~(y > y)
      BY <3>1
    <3> QED
      BY <3>2, <3>3
  <2>2. <<Above(y), U>> \in StrictSubsetOrdering(T)
    BY <2>1, <1>4 DEF StrictSubsetOrdering
  <2> QED
    BY <2>2, <1>3
<1> QED
  BY <1>5

(* next_retry_seq is one above every sequence the payment has.              *)
LEMMA NextSeqIsNext ==
  ASSUME NEW p
  PROVE  NextRetrySeq(p) \in Nat \ {0} /\ \A s \in SeqsOf(p) : s < NextRetrySeq(p)
<1>1. SeqsOf(p) \in SUBSET (1..MaxSeq) /\ MaxSeq \in Nat
  BY ConstantsAssumption DEF SeqsOf
<1>2. CASE SeqsOf(p) = {}
  BY <1>2 DEF NextRetrySeq, LastSeq
<1>3. CASE SeqsOf(p) # {}
  <2>1. \E s \in SeqsOf(p) : \A t \in SeqsOf(p) : t <= s
    BY <1>1, <1>3, LargestExists
  <2>2. LastSeq(p) \in SeqsOf(p) /\ \A t \in SeqsOf(p) : t <= LastSeq(p)
    BY <2>1, <1>3 DEF LastSeq
  <2> QED
    BY <2>2, <1>1 DEF NextRetrySeq
<1> QED
  BY <1>2, <1>3

-----------------------------------------------------------------------------
(* Type correctness. *)

WorkerTypeOK ==
  /\ wk \in [Workers -> WorkerState]
  /\ \A w \in Workers : wk[w].pc # "idle" => wk[w].job \in Jobs

(* A worker that moves on keeps a well-formed record. *)
LEMMA MoveType ==
  ASSUME WorkerTypeOK, NEW w \in Workers, NEW r \in WorkerState, r.pc # "idle" => r.job \in Jobs,
         wk' = [wk EXCEPT ![w] = r]
  PROVE  WorkerTypeOK'
BY DEF WorkerTypeOK

LEMMA IdleType == Idle \in WorkerState /\ Idle.pc = "idle"
BY ConstantsAssumption DEF Idle, WorkerState, Pcs, Statuses

LEMMA DoneType ==
  ASSUME WorkerTypeOK, NEW w \in Workers, Done(w)
  PROVE  WorkerTypeOK'
BY IdleType, MoveType DEF Done

LEMMA GotoType ==
  ASSUME WorkerTypeOK, NEW w \in Workers, wk[w].pc # "idle", NEW pc \in Pcs, Goto(w, pc)
  PROVE  WorkerTypeOK'
<1> DEFINE r == [wk[w] EXCEPT !.pc = pc]
<1>1. r \in WorkerState /\ r.job \in Jobs
  BY DEF WorkerTypeOK, WorkerState
<1> QED
  BY <1>1, MoveType DEF Goto

LEMMA GotoWithType ==
  ASSUME WorkerTypeOK, NEW w \in Workers, wk[w].pc # "idle", NEW pc \in Pcs,
         NEW status \in Statuses, NEW kind \in FailureKinds \cup {"none"}, GotoWith(w, pc, status, kind)
  PROVE  WorkerTypeOK'
<1> DEFINE r == [wk[w] EXCEPT !.pc = pc, !.status = status, !.kind = kind]
<1>1. r \in WorkerState /\ r.job \in Jobs
  BY DEF WorkerTypeOK, WorkerState
<1> QED
  BY <1>1, MoveType DEF GotoWith

LEMMA CommitType ==
  ASSUME job \in [Jobs -> Row], NEW j \in Jobs, NEW status \in Statuses,
         NEW kind \in FailureKinds \cup {"none"}, NEW linked \in BOOLEAN, Commit(j, status, kind, linked)
  PROVE  job' \in [Jobs -> Row]
BY DEF Commit, Row

LEMMA RecordOutcomeType ==
  ASSUME outcome \in [Jobs -> Seq({"recovered", "lost"})], NEW j \in Jobs, RecordOutcome(j, "lost")
  PROVE  outcome' \in [Jobs -> Seq({"recovered", "lost"})]
BY DEF RecordOutcome

TablesTypeOK ==
  /\ job \in [Jobs -> Row]
  /\ outcome \in [Jobs -> Seq({"recovered", "lost"})]
  /\ attempts \subseteq Payments
  /\ orderPaid \subseteq Orders

RazorpayTypeOK ==
  /\ link \in [Jobs -> LinkStates]
  /\ inflight \subseteq Jobs
  /\ captured \subseteq Orders
  /\ raced \subseteq Jobs

LEMMA TypeParts == TypeOK <=> TablesTypeOK /\ RazorpayTypeOK /\ WorkerTypeOK
BY DEF TypeOK, TablesTypeOK, RazorpayTypeOK, WorkerTypeOK

LEMMA TypePartsPrimed == TypeOK' <=> TablesTypeOK' /\ RazorpayTypeOK' /\ WorkerTypeOK'
BY DEF TypeOK, TablesTypeOK, RazorpayTypeOK, WorkerTypeOK

(* What a step leaves alone stays well formed. *)
LEMMA UnchangedType ==
  /\ TablesTypeOK /\ UNCHANGED db => TablesTypeOK'
  /\ RazorpayTypeOK /\ UNCHANGED razorpay => RazorpayTypeOK'
BY DEF TablesTypeOK, RazorpayTypeOK, db, razorpay, payments

(* A step that only commits a row, or only writes an outcome. *)
LEMMA CommitTablesType ==
  ASSUME TablesTypeOK, NEW j \in Jobs, NEW status \in Statuses, NEW kind \in FailureKinds \cup {"none"},
         NEW linked \in BOOLEAN, Commit(j, status, kind, linked), UNCHANGED <<outcome, payments>>
  PROVE  TablesTypeOK'
BY CommitType DEF TablesTypeOK, payments

LEMMA OutcomeTablesType ==
  ASSUME TablesTypeOK, NEW j \in Jobs, RecordOutcome(j, "lost"), UNCHANGED <<job, payments>>
  PROVE  TablesTypeOK'
BY RecordOutcomeType DEF TablesTypeOK, payments

LEMMA ScheduleType ==
  ASSUME TypeOK, NEW w \in Workers, ScheduleStep(w)
  PROVE  TypeOK'
<1> USE TypeParts, TypePartsPrimed, UnchangedType
<1>1. CASE Followup(w)
  <2> DEFINE p == wk[w].job[1]
             r == [Idle EXCEPT !.pc = "insert", !.job = <<p, NextRetrySeq(p)>>, !.answer = FollowupAct(p)]
  <2>1. wk[w].pc # "idle" /\ NextRetrySeq(p) <= MaxSeq /\ wk' = [wk EXCEPT ![w] = r] /\ UNCHANGED <<db, razorpay>>
    BY <1>1 DEF Followup
  <2>2. <<p, NextRetrySeq(p)>> \in Jobs
    BY <2>1, NextSeqIsNext, ConstantsAssumption DEF WorkerTypeOK, Jobs
  <2>3. FollowupAct(p) \in {"send"} \cup Parked
    BY DEF FollowupAct, Parked
  <2>4. r \in WorkerState /\ r.job \in Jobs
    BY <2>2, <2>3, IdleType DEF WorkerState, Pcs
  <2> QED
    BY <2>1, <2>4, MoveType
<1>2. CASE InsertDuplicate(w)
  BY <1>2, DoneType DEF InsertDuplicate
<1>3. CASE Insert(w)
  <2> DEFINE j == wk[w].job
  <2>1. wk[w].pc = "insert" /\ j \in Jobs
    BY <1>3 DEF Insert, WorkerTypeOK
  <2>2. PICK status \in ScheduleStatuses(j, wk[w].answer) :
          /\ job' = [job EXCEPT ![j] = [NoRow EXCEPT !.status = status]]
          /\ \/ status \in Parked /\ GotoWith(w, "park", status, "none")
             \/ status = "pending" /\ j[2] = 1 /\ GotoWith(w, "execute", status, "none")
             \/ status = "pending" /\ Done(w)
    BY <1>3 DEF Insert
  <2>3. status \in Statuses
    BY <2>2 DEF ScheduleStatuses, Statuses, Terminal, Parked
  <2>4. [NoRow EXCEPT !.status = status] \in Row
    BY <2>3 DEF NoRow, Row
  <2>5. TablesTypeOK' /\ RazorpayTypeOK'
    BY <1>3, <2>1, <2>2, <2>4 DEF Insert, TablesTypeOK, payments
  <2>6. WorkerTypeOK'
    BY <2>1, <2>2, <2>3, GotoWithType, DoneType DEF Pcs
  <2> QED
    BY <2>5, <2>6
<1>4. CASE Park(w)
  <2>1. wk[w].job \in Jobs
    BY <1>4 DEF Park, WorkerTypeOK
  <2> QED
    BY <1>4, <2>1, OutcomeTablesType, DoneType DEF Park
<1> QED
  BY <1>1, <1>2, <1>3, <1>4 DEF ScheduleStep

LEMMA RecoverType ==
  ASSUME TypeOK, NEW w \in Workers, RecoverStep(w)
  PROVE  TypeOK'
<1> USE TypeParts, TypePartsPrimed, UnchangedType
<1> DEFINE j == wk[w].job
<1>1. wk[w].pc # "idle" /\ j \in Jobs
  BY DEF RecoverStep, RecoverLookup, RecoverStaleExecution, WorkerTypeOK
<1>2. CASE RecoverLookup(w)
  <2>1. PICK answer \in LookupByReference(j) :
          wk' = [wk EXCEPT ![w] = [@ EXCEPT !.pc = "recovered", !.status = job[j].status, !.answer = answer]]
    BY <1>2 DEF RecoverLookup
  <2> DEFINE r == [wk[w] EXCEPT !.pc = "recovered", !.status = job[j].status, !.answer = answer]
  <2>2. answer \in {"found", "absent", "error"} /\ job[j].status \in Statuses
    BY <1>1, <2>1 DEF LookupByReference, TablesTypeOK, Row
  <2>3. wk[w] \in WorkerState
    BY DEF WorkerTypeOK
  <2>4. r \in WorkerState /\ r.job = j
    BY <2>2, <2>3 DEF WorkerState, Pcs
  <2>5. r.job \in Jobs
    BY <1>1, <2>4
  <2> QED
    BY <1>2, <2>1, <2>4, <2>5, MoveType DEF RecoverLookup
<1>3. CASE RecoverStaleExecution(w)
  <2> DEFINE status == RecoveredStatus(wk[w].answer)
  <2>1. status \in Statuses
    BY DEF RecoveredStatus, Statuses, Terminal
  <2>2. TablesTypeOK'
    BY <1>1, <1>3, <2>1, CommitTablesType DEF RecoverStaleExecution, TablesTypeOK, payments
  <2>3. WorkerTypeOK'
    BY <1>1, <1>3, <2>1, GotoWithType DEF RecoverStaleExecution, Pcs
  <2> QED
    BY <1>3, <2>2, <2>3 DEF RecoverStaleExecution
<1> QED
  BY <1>2, <1>3 DEF RecoverStep

LEMMA GuardType ==
  ASSUME TypeOK, NEW w \in Workers, GuardStep(w)
  PROVE  TypeOK'
<1> USE TypeParts, TypePartsPrimed, UnchangedType
<1> DEFINE j == wk[w].job
<1>1. wk[w].pc # "idle" /\ j \in Jobs
  BY DEF GuardStep, Execute, VoidOrderPaid, VoidOutcome, StubTokenRetry, RefuseLocally,
         ClaimForExecution, ClaimRefused, WorkerTypeOK
<1>2. job[j].status \in Statuses /\ job[j].kind \in FailureKinds \cup {"none"}
  BY <1>1 DEF TablesTypeOK, Row
<1>3. {"no_action", "stubbed", "failed", "executing"} \subseteq Statuses /\ "local_guard" \in FailureKinds
  BY DEF Statuses, Terminal, FailureKinds
<1>4. CASE Execute(w)
  BY <1>1, <1>2, <1>4, GotoWithType DEF Execute, Pcs
<1>5. CASE VoidOrderPaid(w)
  BY <1>1, <1>3, <1>5, CommitTablesType, GotoType DEF VoidOrderPaid, Pcs
<1>6. CASE VoidOutcome(w)
  BY <1>1, <1>6, OutcomeTablesType, DoneType DEF VoidOutcome
<1>7. CASE StubTokenRetry(w)
  BY <1>1, <1>3, <1>7, CommitTablesType, GotoWithType DEF StubTokenRetry, Pcs
<1>8. CASE RefuseLocally(w)
  BY <1>1, <1>3, <1>8, CommitTablesType, GotoWithType DEF RefuseLocally, Pcs
<1>9. CASE ClaimForExecution(w)
  <2>1. job' \in [Jobs -> Row]
    BY <1>1, <1>3, <1>9 DEF ClaimForExecution, TablesTypeOK, Row
  <2>2. WorkerTypeOK'
    BY <1>1, <1>3, <1>9, GotoWithType DEF ClaimForExecution, Pcs
  <2> QED
    BY <1>9, <2>1, <2>2 DEF ClaimForExecution, TablesTypeOK, payments
<1>10. CASE ClaimRefused(w)
  BY <1>1, <1>2, <1>10, GotoWithType DEF ClaimRefused, Pcs
<1> QED
  BY <1>4, <1>5, <1>6, <1>7, <1>8, <1>9, <1>10 DEF GuardStep

(* Any failure of the create loop leaves a well-formed worker. *)
LEMMA AfterFailureType ==
  ASSUME WorkerTypeOK, NEW w \in Workers, wk[w].pc = "create",
         NEW kind \in FailureKinds, AfterFailure(w, kind)
  PROVE  WorkerTypeOK'
<1>1. wk[w] \in WorkerState /\ wk[w].job \in Jobs
  BY DEF WorkerTypeOK
<1>2. FailureOf(w, kind) \in FailureKinds
  BY <1>1 DEF FailureOf, WorkerState
<1>3. CASE LastTry(w, kind)
  <2> DEFINE r == [wk[w] EXCEPT !.pc = "record", !.status = "failed", !.kind = FailureOf(w, kind)]
  <2>1. r \in WorkerState /\ r.job \in Jobs
    BY <1>1, <1>2 DEF WorkerState, Pcs, Statuses
  <2> QED
    BY <1>3, <2>1, MoveType DEF AfterFailure
<1>4. CASE ~LastTry(w, kind)
  <2> DEFINE k == IF kind \in AmbiguousKinds THEN kind ELSE wk[w].kind
             r == [wk[w] EXCEPT !.tries = wk[w].tries + 1, !.kind = k]
  <2>1. wk[w].tries + 1 \in 0..(MaxHttp - 1)
    BY <1>1, <1>4, ConstantsAssumption DEF LastTry, WorkerState
  <2>2. k \in FailureKinds \cup {"none"}
    BY <1>1 DEF WorkerState
  <2>3. r \in WorkerState /\ r.job \in Jobs
    BY <1>1, <2>1, <2>2 DEF WorkerState
  <2> QED
    BY <1>4, <2>3, MoveType DEF AfterFailure
<1> QED
  BY <1>3, <1>4

(* The earlier attempts looked up are jobs of the same payment. *)
LEMMA SuspectsAreJobs ==
  ASSUME NEW j \in Jobs
  PROVE  Suspects(j) \subseteq Jobs
<1> SUFFICES ASSUME NEW s \in 1..(j[2] - 1) PROVE <<j[1], s>> \in Jobs
  BY DEF Suspects, AmbiguousFailures
<1>1. j[1] \in Payments /\ j[2] \in 1..MaxSeq
  BY DEF Jobs
<1> QED
  BY <1>1, ConstantsAssumption DEF Jobs

LEMMA SendType ==
  ASSUME TypeOK, NEW w \in Workers, SendStep(w)
  PROVE  TypeOK'
<1> USE TypeParts, TypePartsPrimed, UnchangedType
<1> DEFINE j == wk[w].job
<1>0. 0 \in 0..(MaxHttp - 1)
  BY ConstantsAssumption
<1>1. wk[w].pc # "idle" /\ j \in Jobs /\ wk[w] \in WorkerState
  BY DEF SendStep, FinishShadow, SendSubscriptionPage, OrderCheckPaid, OrderCheckPasses,
         EarlierLanded, EarlierNone, Superseded, CreateLink, CreateDuplicate, CreateRefused,
         OfferRejected, CreateUnanswered, FinishDuplicate, RecordResult, WorkerTypeOK
<1>2. {"no_action", "shadow", "sent", "human_queue"} \subseteq Statuses
  BY DEF Statuses, Terminal
<1>3. CASE FinishShadow(w)
  BY <1>1, <1>2, <1>3, CommitTablesType, GotoWithType DEF FinishShadow, Pcs
<1>4. CASE SendSubscriptionPage(w)
  BY <1>1, <1>2, <1>4, CommitTablesType, GotoWithType DEF SendSubscriptionPage, Pcs
<1>5. CASE OrderCheckPaid(w)
  <2>1. TablesTypeOK'
    BY <1>1, <1>5 DEF OrderCheckPaid, TablesTypeOK, RazorpayTypeOK
  <2>2. WorkerTypeOK'
    BY <1>1, <1>5, GotoType DEF OrderCheckPaid, Pcs
  <2> QED
    BY <1>5, <2>1, <2>2 DEF OrderCheckPaid
<1>6. CASE OrderCheckPasses(w)
  BY <1>1, <1>6, GotoType DEF OrderCheckPasses, Pcs
<1>7. CASE EarlierLanded(w)
  <2>1. PICK k \in LandedSuspects(j) : Commit(k, "sent", "none", TRUE)
    BY <1>7 DEF EarlierLanded
  <2>2. k \in Jobs
    BY <1>1, <2>1, SuspectsAreJobs DEF LandedSuspects
  <2>3. TablesTypeOK'
    BY <1>2, <1>7, <2>1, <2>2, CommitTablesType DEF EarlierLanded
  <2>4. WorkerTypeOK'
    BY <1>1, <1>7, GotoType DEF EarlierLanded, Pcs
  <2> QED
    BY <1>7, <2>3, <2>4 DEF EarlierLanded
<1>8. CASE EarlierNone(w)
  <2> DEFINE r == [wk[w] EXCEPT !.pc = "create", !.kind = "none", !.tries = 0]
  <2>1. r \in WorkerState /\ r.job \in Jobs
    BY <1>1, <1>0 DEF WorkerState, Pcs
  <2> QED
    BY <1>8, <2>1, MoveType DEF EarlierNone
<1>9. CASE Superseded(w)
  BY <1>1, <1>2, <1>9, CommitTablesType, DoneType DEF Superseded
<1>10. CASE CreateLink(w)
  <2>1. RazorpayTypeOK'
    BY <1>10 DEF CreateLink, RazorpayTypeOK, LinkStates
  <2>2. WorkerTypeOK'
    BY <1>1, <1>2, <1>10, GotoWithType DEF CreateLink, Pcs
  <2> QED
    BY <1>10, <2>1, <2>2 DEF CreateLink
<1>11. CASE CreateDuplicate(w)
  BY <1>1, <1>11, GotoType DEF CreateDuplicate, Pcs
<1>12. CASE CreateRefused(w)
  BY <1>12, AfterFailureType DEF CreateRefused, FailureKinds, RetryableKinds
<1>13. CASE OfferRejected(w)
  <2> DEFINE r == [wk[w] EXCEPT !.plain = TRUE, !.tries = 0, !.kind = "none"]
  <2>1. r \in WorkerState /\ r.job \in Jobs
    BY <1>1, <1>0 DEF WorkerState
  <2> QED
    BY <1>13, <2>1, MoveType DEF OfferRejected
<1>14. CASE CreateUnanswered(w)
  <2>1. RazorpayTypeOK'
    BY <1>1, <1>14 DEF CreateUnanswered, RazorpayTypeOK, LinkStates
  <2>2. WorkerTypeOK'
    BY <1>14, AfterFailureType DEF CreateUnanswered, FailureKinds
  <2> QED
    BY <1>14, <2>1, <2>2 DEF CreateUnanswered
<1>15. CASE FinishDuplicate(w)
  <2>1. PICK answer \in LookupByReference(j), status \in {"sent", "human_queue"} :
          Commit(j, status, "none", answer = "found") /\ GotoWith(w, "finish", status, "none")
    BY <1>15 DEF FinishDuplicate
  <2> QED
    BY <1>1, <1>2, <1>15, <2>1, CommitTablesType, GotoWithType DEF FinishDuplicate, Pcs
<1>16. CASE RecordResult(w)
  <2>1. wk[w].status \in Statuses /\ wk[w].kind \in FailureKinds \cup {"none"}
    BY <1>1 DEF WorkerState
  <2> QED
    BY <1>1, <1>16, <2>1, CommitTablesType, GotoType DEF RecordResult, Pcs
<1> QED
  BY <1>3, <1>4, <1>5, <1>6, <1>7, <1>8, <1>9, <1>10, <1>11, <1>12, <1>13, <1>14, <1>15, <1>16 DEF SendStep

LEMMA FinishType ==
  ASSUME TypeOK, NEW w \in Workers, FinishStep(w)
  PROVE  TypeOK'
<1> USE TypeParts, TypePartsPrimed, UnchangedType
<1> DEFINE j == wk[w].job
<1>1. wk[w].pc # "idle" /\ j \in Jobs
  BY DEF FinishStep, FinishSent, FinishClosed, FinishThrottled, Reconcile, FinishOther, Close, WorkerTypeOK
<1>2. ASSUME ToClose(w) PROVE WorkerTypeOK'
  BY <1>1, <1>2, GotoType, DoneType DEF ToClose, Pcs
<1>3. CASE FinishSent(w)
  <2>1. job' \in [Jobs -> Row]
    BY <1>1, <1>3 DEF FinishSent, TablesTypeOK, Row
  <2> QED
    BY <1>3, <2>1, DoneType DEF FinishSent, TablesTypeOK, payments
<1>4. CASE FinishClosed(w)
  BY <1>2, <1>4 DEF FinishClosed
<1>5. CASE FinishThrottled(w)
  BY <1>1, <1>5, GotoType DEF FinishThrottled, Pcs
<1>6. CASE Reconcile(w)
  <2>1. TablesTypeOK'
    <3>1. "sent" \in Statuses
      BY DEF Statuses, Terminal
    <3>2. CASE Commit(j, "sent", "none", TRUE)
      BY <1>1, <1>6, <3>1, <3>2, CommitTablesType DEF Reconcile
    <3>3. CASE UNCHANGED job
      BY <1>6, <3>3 DEF Reconcile, TablesTypeOK, payments
    <3> QED
      BY <1>6, <3>2, <3>3 DEF Reconcile
  <2>2. WorkerTypeOK'
    BY <1>1, <1>2, <1>6, GotoType, GotoWithType DEF Reconcile, Pcs, Statuses, Terminal
  <2> QED
    BY <1>6, <2>1, <2>2 DEF Reconcile
<1>7. CASE FinishOther(w)
  BY <1>7, DoneType DEF FinishOther
<1>8. CASE Close(w)
  BY <1>1, <1>8, OutcomeTablesType, DoneType DEF Close
<1> QED
  BY <1>3, <1>4, <1>5, <1>6, <1>7, <1>8 DEF FinishStep

LEMMA BeginType ==
  ASSUME TypeOK, NEW w \in Workers, Begin(w)
  PROVE  TypeOK'
<1> USE TypeParts, TypePartsPrimed, UnchangedType
<1>1. ASSUME NEW p \in Payments, ProcessAttempt(w, p) PROVE TypeOK'
  <2>1. PICK act \in FirstActs :
          wk' = [wk EXCEPT ![w] = [Idle EXCEPT !.pc = "insert", !.job = <<p, 1>>, !.answer = act]]
    BY <1>1 DEF ProcessAttempt
  <2> DEFINE r == [Idle EXCEPT !.pc = "insert", !.job = <<p, 1>>, !.answer = act]
  <2>2. <<p, 1>> \in Jobs /\ act \in {"send"} \cup Parked
    BY <2>1, ConstantsAssumption DEF Jobs, Parked
  <2>3. r \in WorkerState /\ r.job \in Jobs
    BY <2>2, IdleType DEF WorkerState, Pcs
  <2> QED
    BY <1>1, <2>1, <2>3, MoveType DEF ProcessAttempt, TablesTypeOK
<1>2. ASSUME NEW j \in Jobs, Sweep(w, j) PROVE TypeOK'
  <2> DEFINE pc == IF job[j].status = "executing" THEN "recover" ELSE "execute"
             r == [Idle EXCEPT !.pc = pc, !.job = j, !.status = job[j].status]
  <2>1. job[j].status \in Statuses /\ pc \in Pcs
    BY DEF TablesTypeOK, Row, Pcs
  <2>2. r \in WorkerState /\ r.job \in Jobs
    BY <2>1, IdleType DEF WorkerState
  <2> QED
    BY <1>2, <2>2, MoveType DEF Sweep
<1> QED
  BY <1>1, <1>2 DEF Begin

LEMMA EnvironmentType ==
  ASSUME TypeOK, Environment
  PROVE  TypeOK'
<1> USE TypeParts, TypePartsPrimed, UnchangedType
<1>1. ASSUME NEW j \in Jobs, Land(j) PROVE TypeOK'
  <2>1. RazorpayTypeOK'
    BY <1>1 DEF Land, RazorpayTypeOK, LinkStates
  <2> QED
    BY <1>1, <2>1 DEF Land, WorkerTypeOK
<1>2. ASSUME NEW o \in Orders, Capture(o) PROVE TypeOK'
  BY <1>2 DEF Capture, RazorpayTypeOK, WorkerTypeOK
<1>3. ASSUME NEW w \in Workers, Crash(w) PROVE TypeOK'
  BY <1>3, DoneType DEF Crash
<1> QED
  BY <1>1, <1>2, <1>3 DEF Environment

(* Every reachable state is well formed: the rows, the links Razorpay holds *)
(* and the position of every process, for any number of each.               *)
THEOREM TypeCorrect == Spec => []TypeOK
<1>1. Init => TypeOK
  <2> SUFFICES ASSUME Init PROVE TypeOK
    OBVIOUS
  <2>1. NoRow \in Row
    BY DEF NoRow, Row, Statuses
  <2> QED
    BY <2>1, IdleType DEF Init, TypeOK, LinkStates
<1>2. TypeOK /\ [Next]_vars => TypeOK'
  <2> SUFFICES ASSUME TypeOK, [Next]_vars PROVE TypeOK'
    OBVIOUS
  <2>1. CASE UNCHANGED vars
    BY <2>1 DEF vars, TypeOK
  <2>2. ASSUME NEW w \in Workers, Begin(w) \/ Step(w) PROVE TypeOK'
    BY <2>2, BeginType, ScheduleType, RecoverType, GuardType, SendType, FinishType DEF Step
  <2>3. CASE Environment
    BY <2>3, EnvironmentType
  <2> QED
    BY <2>1, <2>2, <2>3 DEF Next
<1> QED
  BY <1>1, <1>2, PTL DEF Spec

-----------------------------------------------------------------------------
(* A job that says sent has its link.                                        *)
(*                                                                         *)
(* SentHasLink speaks of committed rows; a worker commits `sent` a step     *)
(* after it learned of the link, so the strengthening says what a worker    *)
(* about to do so knows.  Links never go back to "none" (LinksGrow).         *)

WorkerSent(r) ==
  /\ r.pc = "record" /\ r.status = "sent" => link[r.job] # "none"
  /\ r.pc = "recovered" /\ r.answer = "found" => link[r.job] # "none"
  /\ r.pc = "direct" => Route[r.job[1]] = "subscription"

SentInv ==
  /\ SentHasLink
  /\ \A w \in Workers : WorkerSent(wk[w])

LinksGrow == \A j \in Jobs : link[j] # "none" => link'[j] # "none"

(* The rows: a commit that writes `sent` names a link that exists. *)
LEMMA CommitSent ==
  ASSUME TypeOK, SentHasLink, LinksGrow, NEW j \in Jobs, NEW status, NEW kind, NEW linked \in BOOLEAN,
         Commit(j, status, kind, linked),
         linked => link[j] # "none",
         status = "sent" => linked \/ Route[j[1]] = "subscription"
  PROVE  SentHasLink'
<1> SUFFICES ASSUME NEW i \in Jobs
             PROVE  /\ job'[i].link => link'[i] # "none"
                    /\ job'[i].status = "sent" => job'[i].link \/ Route[i[1]] = "subscription"
  BY DEF SentHasLink
<1>1. job[i] \in Row /\ job[i].link \in BOOLEAN
  BY DEF TypeOK, Row
<1>2. CASE i = j
  <2>1. job'[i].status = status /\ job'[i].link = (job[i].link \/ linked)
    BY <1>1, <1>2 DEF Commit, TypeOK, Row
  <2> QED
    BY <1>1, <1>2, <2>1 DEF SentHasLink, LinksGrow
<1>3. CASE i # j
  <2>1. job'[i] = job[i]
    BY <1>3 DEF Commit, TypeOK
  <2> QED
    BY <2>1 DEF SentHasLink, LinksGrow
<1> QED
  BY <1>2, <1>3

LEMMA SameRowsSent ==
  ASSUME SentHasLink, LinksGrow, UNCHANGED job
  PROVE  SentHasLink'
BY DEF SentHasLink, LinksGrow

(* The workers: one moves, to a record that keeps the promise. *)
LEMMA MoveSent ==
  ASSUME TypeOK, SentInv, LinksGrow, NEW w \in Workers, NEW r, wk' = [wk EXCEPT ![w] = r],
         r.pc \in {"record", "recovered"} => r.job \in Jobs,
         WorkerSent(r)
  PROVE  \A v \in Workers : WorkerSent(wk[v])'
<1> SUFFICES ASSUME NEW v \in Workers PROVE WorkerSent(wk[v])'
  OBVIOUS
<1>1. CASE v = w
  BY <1>1 DEF TypeOK, WorkerSent, LinksGrow
<1>2. CASE v # w
  <2>1. wk'[v] = wk[v] /\ WorkerSent(wk[v])
    BY <1>2 DEF TypeOK, SentInv
  <2>2. wk[v].pc # "idle" => wk[v].job \in Jobs
    BY DEF TypeOK
  <2> QED
    BY <2>1, <2>2 DEF WorkerSent, LinksGrow
<1> QED
  BY <1>1, <1>2

LEMMA DoneSent ==
  ASSUME TypeOK, SentInv, LinksGrow, NEW w \in Workers, Done(w)
  PROVE  \A v \in Workers : WorkerSent(wk[v])'
<1>1. Idle.pc = "idle"
  BY DEF Idle
<1> QED
  BY <1>1, MoveSent DEF Done, WorkerSent

CarefulPcs == {"record", "recovered", "direct"}

LEMMA GotoSent ==
  ASSUME TypeOK, SentInv, LinksGrow, NEW w \in Workers, NEW pc, pc \notin CarefulPcs, Goto(w, pc)
  PROVE  \A v \in Workers : WorkerSent(wk[v])'
<1> DEFINE r == [wk[w] EXCEPT !.pc = pc]
<1>1. r.pc = pc
  BY DEF TypeOK, WorkerState
<1> QED
  BY <1>1, MoveSent DEF Goto, WorkerSent, CarefulPcs

LEMMA GotoWithSent ==
  ASSUME TypeOK, SentInv, LinksGrow, NEW w \in Workers, NEW pc, pc \notin CarefulPcs,
         NEW status, NEW kind, GotoWith(w, pc, status, kind)
  PROVE  \A v \in Workers : WorkerSent(wk[v])'
<1> DEFINE r == [wk[w] EXCEPT !.pc = pc, !.status = status, !.kind = kind]
<1>1. r.pc = pc
  BY DEF TypeOK, WorkerState
<1> QED
  BY <1>1, MoveSent DEF GotoWith, WorkerSent, CarefulPcs

(* The steps that write no row and touch no link, and end at a position     *)
(* about which nothing is promised.                                         *)
LEMMA ScheduleSent ==
  ASSUME TypeOK, SentInv, NEW w \in Workers, ScheduleStep(w)
  PROVE  SentInv'
<1> DEFINE j == wk[w].job
<1>1. LinksGrow /\ SentHasLink /\ wk[w].pc # "idle" /\ j \in Jobs
  BY DEF ScheduleStep, Followup, InsertDuplicate, Insert, Park, razorpay, LinksGrow, SentInv, TypeOK
<1>2. CASE Followup(w)
  <2> DEFINE r == [Idle EXCEPT !.pc = "insert", !.job = <<j[1], NextRetrySeq(j[1])>>, !.answer = FollowupAct(j[1])]
  <2>1. r.pc = "insert" /\ wk' = [wk EXCEPT ![w] = r]
    BY <1>2 DEF Followup, Idle
  <2> QED
    BY <1>1, <1>2, <2>1, MoveSent, SameRowsSent DEF Followup, SentInv, WorkerSent, db
<1>3. CASE InsertDuplicate(w)
  BY <1>1, <1>3, DoneSent, SameRowsSent DEF InsertDuplicate, SentInv, db
<1>4. CASE Insert(w)
  <2>1. PICK status \in ScheduleStatuses(j, wk[w].answer) :
          /\ job' = [job EXCEPT ![j] = [NoRow EXCEPT !.status = status]]
          /\ \/ status \in Parked /\ GotoWith(w, "park", status, "none")
             \/ status = "pending" /\ j[2] = 1 /\ GotoWith(w, "execute", status, "none")
             \/ status = "pending" /\ Done(w)
    BY <1>4 DEF Insert
  <2>2. SentHasLink'
    <3>1. status # "sent"
      BY <2>1 DEF Parked
    <3>2. job'[j].link = FALSE /\ job'[j].status = status
      BY <1>1, <2>1 DEF NoRow, TypeOK
    <3>3. \A i \in Jobs : i # j => job'[i] = job[i]
      BY <2>1 DEF TypeOK
    <3> QED
      BY <1>1, <3>1, <3>2, <3>3 DEF SentHasLink, LinksGrow
  <2>3. \A v \in Workers : WorkerSent(wk[v])'
    BY <1>1, <2>1, GotoWithSent, DoneSent DEF CarefulPcs
  <2> QED
    BY <2>2, <2>3 DEF SentInv
<1>5. CASE Park(w)
  BY <1>1, <1>5, DoneSent, SameRowsSent DEF Park, SentInv
<1> QED
  BY <1>2, <1>3, <1>4, <1>5 DEF ScheduleStep

LEMMA RecoverSent ==
  ASSUME TypeOK, SentInv, NEW w \in Workers, RecoverStep(w)
  PROVE  SentInv'
<1> DEFINE j == wk[w].job
<1>1. LinksGrow /\ SentHasLink /\ wk[w].pc # "idle" /\ j \in Jobs
  BY DEF RecoverStep, RecoverLookup, RecoverStaleExecution, razorpay, LinksGrow, SentInv, TypeOK
<1>2. CASE RecoverLookup(w)
  <2>1. PICK answer \in LookupByReference(j) :
          wk' = [wk EXCEPT ![w] = [@ EXCEPT !.pc = "recovered", !.status = job[j].status, !.answer = answer]]
    BY <1>2 DEF RecoverLookup
  <2> DEFINE r == [wk[w] EXCEPT !.pc = "recovered", !.status = job[j].status, !.answer = answer]
  <2>2. answer = "found" => link[j] # "none"
    BY <2>1 DEF LookupByReference
  <2>3. r.job = j /\ r.pc = "recovered" /\ r.answer = answer
    BY DEF TypeOK, WorkerState
  <2> QED
    BY <1>1, <1>2, <2>1, <2>2, <2>3, MoveSent, SameRowsSent DEF RecoverLookup, SentInv, WorkerSent, db
<1>3. CASE RecoverStaleExecution(w)
  <2> DEFINE status == RecoveredStatus(wk[w].answer)
  <2>1. status = "sent" => link[j] # "none"
    BY <1>3 DEF RecoverStaleExecution, RecoveredStatus, SentInv, WorkerSent
  <2>2. SentHasLink'
    BY <1>1, <1>3, <2>1, CommitSent, SameRowsSent DEF RecoverStaleExecution
  <2> QED
    BY <1>1, <1>3, <2>2, GotoWithSent DEF RecoverStaleExecution, CarefulPcs, SentInv
<1> QED
  BY <1>2, <1>3 DEF RecoverStep

LEMMA GuardSent ==
  ASSUME TypeOK, SentInv, NEW w \in Workers, GuardStep(w)
  PROVE  SentInv'
<1> DEFINE j == wk[w].job
<1>1. LinksGrow /\ SentHasLink /\ wk[w].pc # "idle" /\ j \in Jobs
  BY DEF GuardStep, Execute, VoidOrderPaid, VoidOutcome, StubTokenRetry, RefuseLocally,
         ClaimForExecution, ClaimRefused, razorpay, LinksGrow, SentInv, TypeOK
<1>2. CASE Execute(w)
  BY <1>1, <1>2, GotoWithSent, SameRowsSent DEF Execute, CarefulPcs, SentInv, db
<1>3. CASE VoidOrderPaid(w)
  BY <1>1, <1>3, CommitSent, GotoSent DEF VoidOrderPaid, CarefulPcs, SentInv
<1>4. CASE VoidOutcome(w)
  BY <1>1, <1>4, SameRowsSent, DoneSent DEF VoidOutcome, SentInv
<1>5. CASE StubTokenRetry(w)
  BY <1>1, <1>5, CommitSent, GotoWithSent DEF StubTokenRetry, CarefulPcs, SentInv
<1>6. CASE RefuseLocally(w)
  BY <1>1, <1>6, CommitSent, GotoWithSent DEF RefuseLocally, CarefulPcs, SentInv
<1>7. CASE ClaimForExecution(w)
  <2>1. SentHasLink'
    BY <1>1, <1>7 DEF ClaimForExecution, SentHasLink, LinksGrow, TypeOK, Row
  <2>2. PICK pc \in {"shadow", "check", "direct"} :
          /\ GotoWith(w, pc, "executing", "none")
          /\ pc = "direct" => Route[j[1]] = "subscription"
    BY <1>7 DEF ClaimForExecution
  <2> DEFINE r == [wk[w] EXCEPT !.pc = pc, !.status = "executing", !.kind = "none"]
  <2>3. r.pc = pc /\ r.job = j
    BY DEF TypeOK, WorkerState
  <2>4. \A v \in Workers : WorkerSent(wk[v])'
    BY <1>1, <2>2, <2>3, MoveSent DEF GotoWith, WorkerSent
  <2> QED
    BY <2>1, <2>4 DEF SentInv
<1>8. CASE ClaimRefused(w)
  BY <1>1, <1>8, GotoWithSent, SameRowsSent DEF ClaimRefused, CarefulPcs, SentInv, db
<1> QED
  BY <1>2, <1>3, <1>4, <1>5, <1>6, <1>7, <1>8 DEF GuardStep

(* The create loop leaves `create` only with a failure, or with the link. *)
LEMMA AfterFailureSent ==
  ASSUME TypeOK, SentInv, LinksGrow, NEW w \in Workers, wk[w].pc = "create",
         NEW kind, AfterFailure(w, kind)
  PROVE  \A v \in Workers : WorkerSent(wk[v])'
<1>1. CASE LastTry(w, kind)
  <2> DEFINE r == [wk[w] EXCEPT !.pc = "record", !.status = "failed", !.kind = FailureOf(w, kind)]
  <2>1. r.pc = "record" /\ r.status = "failed" /\ r.job = wk[w].job
    BY DEF TypeOK, WorkerState
  <2>2. wk[w].job \in Jobs
    BY DEF TypeOK
  <2> QED
    BY <1>1, <2>1, <2>2, MoveSent DEF AfterFailure, WorkerSent
<1>2. CASE ~LastTry(w, kind)
  <2> DEFINE r == [wk[w] EXCEPT !.tries = wk[w].tries + 1,
                                !.kind = IF kind \in AmbiguousKinds THEN kind ELSE wk[w].kind]
  <2>1. r.pc = "create"
    BY DEF TypeOK, WorkerState
  <2> QED
    BY <1>2, <2>1, MoveSent DEF AfterFailure, WorkerSent
<1> QED
  BY <1>1, <1>2

LEMMA SendSent ==
  ASSUME TypeOK, SentInv, NEW w \in Workers, SendStep(w)
  PROVE  SentInv'
<1> DEFINE j == wk[w].job
<1>1. SentHasLink /\ wk[w].pc # "idle" /\ j \in Jobs
  BY DEF SendStep, FinishShadow, SendSubscriptionPage, OrderCheckPaid, OrderCheckPasses,
         EarlierLanded, EarlierNone, Superseded, CreateLink, CreateDuplicate, CreateRefused,
         OfferRejected, CreateUnanswered, FinishDuplicate, RecordResult, SentInv, TypeOK
<1>2. ASSUME UNCHANGED link PROVE LinksGrow
  BY <1>2 DEF LinksGrow
<1>3. CASE FinishShadow(w)
  BY <1>1, <1>2, <1>3, CommitSent, GotoWithSent DEF FinishShadow, CarefulPcs, SentInv, razorpay
<1>4. CASE SendSubscriptionPage(w)
  <2>1. Route[j[1]] = "subscription"
    BY <1>4 DEF SendSubscriptionPage, SentInv, WorkerSent
  <2> QED
    BY <1>1, <1>2, <1>4, <2>1, CommitSent, GotoWithSent DEF SendSubscriptionPage, CarefulPcs, SentInv, razorpay
<1>5. CASE OrderCheckPaid(w)
  BY <1>1, <1>2, <1>5, SameRowsSent, GotoSent DEF OrderCheckPaid, CarefulPcs, SentInv, razorpay
<1>6. CASE OrderCheckPasses(w)
  BY <1>1, <1>2, <1>6, SameRowsSent, GotoSent DEF OrderCheckPasses, CarefulPcs, SentInv, db, razorpay
<1>7. CASE EarlierLanded(w)
  <2>1. PICK k \in LandedSuspects(j) : Commit(k, "sent", "none", TRUE)
    BY <1>7 DEF EarlierLanded
  <2>2. k \in Jobs /\ link[k] # "none"
    BY <1>1, <2>1, SuspectsAreJobs DEF LandedSuspects
  <2> QED
    BY <1>1, <1>2, <1>7, <2>1, <2>2, CommitSent, GotoSent DEF EarlierLanded, CarefulPcs, SentInv, razorpay
<1>8. CASE EarlierNone(w)
  <2> DEFINE r == [wk[w] EXCEPT !.pc = "create", !.kind = "none", !.tries = 0]
  <2>1. r.pc = "create"
    BY DEF TypeOK, WorkerState
  <2> QED
    BY <1>1, <1>2, <1>8, <2>1, MoveSent, SameRowsSent DEF EarlierNone, WorkerSent, SentInv, db, razorpay
<1>9. CASE Superseded(w)
  BY <1>1, <1>2, <1>9, CommitSent, DoneSent DEF Superseded, SentInv, razorpay
<1>10. CASE CreateLink(w)
  <2>1. LinksGrow /\ link'[j] = "created"
    BY <1>1, <1>10 DEF CreateLink, LinksGrow, TypeOK
  <2>2. SentHasLink'
    BY <1>1, <1>10, <2>1, SameRowsSent DEF CreateLink, db
  <2> DEFINE r == [wk[w] EXCEPT !.pc = "record", !.status = "sent", !.kind = "none"]
  <2>3. wk' = [wk EXCEPT ![w] = r] /\ r.pc = "record" /\ r.job = j
    BY <1>10 DEF CreateLink, GotoWith, TypeOK, WorkerState
  <2>4. \A v \in Workers : WorkerSent(wk[v])'
    <3> SUFFICES ASSUME NEW v \in Workers PROVE WorkerSent(wk[v])'
      OBVIOUS
    <3>1. CASE v = w
      BY <2>1, <2>3, <3>1 DEF TypeOK, WorkerSent
    <3>2. CASE v # w
      <4>1. wk'[v] = wk[v] /\ WorkerSent(wk[v]) /\ (wk[v].pc # "idle" => wk[v].job \in Jobs)
        BY <2>3, <3>2 DEF TypeOK, SentInv
      <4> QED
        BY <2>1, <4>1 DEF WorkerSent, LinksGrow
    <3> QED
      BY <3>1, <3>2
  <2> QED
    BY <2>2, <2>4 DEF SentInv
<1>11. CASE CreateDuplicate(w)
  BY <1>1, <1>2, <1>11, SameRowsSent, GotoSent DEF CreateDuplicate, CarefulPcs, SentInv, db, razorpay
<1>12. CASE CreateRefused(w)
  BY <1>1, <1>2, <1>12, AfterFailureSent, SameRowsSent DEF CreateRefused, SentInv, db, razorpay
<1>13. CASE OfferRejected(w)
  <2> DEFINE r == [wk[w] EXCEPT !.plain = TRUE, !.tries = 0, !.kind = "none"]
  <2>1. r.pc = "create"
    BY <1>13 DEF OfferRejected, TypeOK, WorkerState
  <2> QED
    BY <1>1, <1>2, <1>13, <2>1, MoveSent, SameRowsSent DEF OfferRejected, WorkerSent, SentInv, db, razorpay
<1>14. CASE CreateUnanswered(w)
  <2>1. LinksGrow
    BY <1>1, <1>14 DEF CreateUnanswered, LinksGrow, TypeOK
  <2> QED
    BY <1>1, <1>14, <2>1, AfterFailureSent, SameRowsSent DEF CreateUnanswered, SentInv, db
<1>15. CASE FinishDuplicate(w)
  <2>1. PICK answer \in LookupByReference(j), status \in {"sent", "human_queue"} :
          /\ Commit(j, status, "none", answer = "found")
          /\ GotoWith(w, "finish", status, "none")
          /\ status = "sent" => answer = "found"
    BY <1>15 DEF FinishDuplicate
  <2>2. answer = "found" => link[j] # "none"
    BY <2>1 DEF LookupByReference
  <2> QED
    BY <1>1, <1>2, <1>15, <2>1, <2>2, CommitSent, GotoWithSent DEF FinishDuplicate, CarefulPcs, SentInv, razorpay
<1>16. CASE RecordResult(w)
  <2>1. wk[w].status = "sent" => link[j] # "none"
    BY <1>16 DEF RecordResult, SentInv, WorkerSent
  <2> QED
    BY <1>1, <1>2, <1>16, <2>1, CommitSent, GotoSent DEF RecordResult, CarefulPcs, SentInv, razorpay
<1> QED
  BY <1>3, <1>4, <1>5, <1>6, <1>7, <1>8, <1>9, <1>10, <1>11, <1>12, <1>13, <1>14, <1>15, <1>16 DEF SendStep

LEMMA FinishSentStep ==
  ASSUME TypeOK, SentInv, NEW w \in Workers, FinishStep(w)
  PROVE  SentInv'
<1> DEFINE j == wk[w].job
<1>1. LinksGrow /\ SentHasLink /\ wk[w].pc # "idle" /\ j \in Jobs
  BY DEF FinishStep, FinishSent, FinishClosed, FinishThrottled, Reconcile, FinishOther, Close,
         razorpay, LinksGrow, SentInv, TypeOK
<1>2. ASSUME ToClose(w) PROVE \A v \in Workers : WorkerSent(wk[v])'
  BY <1>1, <1>2, GotoSent, DoneSent DEF ToClose, CarefulPcs
<1>3. CASE FinishSent(w)
  <2>1. SentHasLink'
    BY <1>1, <1>3 DEF FinishSent, SentHasLink, LinksGrow, TypeOK, Row
  <2> QED
    BY <1>1, <1>3, <2>1, DoneSent DEF FinishSent, SentInv
<1>4. CASE FinishClosed(w)
  BY <1>1, <1>2, <1>4, SameRowsSent DEF FinishClosed, SentInv, db
<1>5. CASE FinishThrottled(w)
  BY <1>1, <1>5, SameRowsSent, GotoSent DEF FinishThrottled, CarefulPcs, SentInv, db
<1>6. CASE Reconcile(w)
  <2>1. PICK answer \in LookupByReference(j) :
          \/ answer = "found" /\ Commit(j, "sent", "none", TRUE) /\ GotoWith(w, "finish", "sent", "none")
          \/ Goto(w, "followup") /\ UNCHANGED job
          \/ ToClose(w) /\ UNCHANGED job
    BY <1>6 DEF Reconcile
  <2>2. answer = "found" => link[j] # "none"
    BY <2>1 DEF LookupByReference
  <2>3. SentHasLink'
    BY <1>1, <2>1, <2>2, CommitSent, SameRowsSent
  <2>4. \A v \in Workers : WorkerSent(wk[v])'
    BY <1>1, <1>2, <2>1, GotoSent, GotoWithSent DEF CarefulPcs
  <2> QED
    BY <2>3, <2>4 DEF SentInv
<1>7. CASE FinishOther(w)
  BY <1>1, <1>7, SameRowsSent, DoneSent DEF FinishOther, SentInv, db
<1>8. CASE Close(w)
  BY <1>1, <1>8, SameRowsSent, DoneSent DEF Close, SentInv
<1> QED
  BY <1>3, <1>4, <1>5, <1>6, <1>7, <1>8 DEF FinishStep

LEMMA BeginSent ==
  ASSUME TypeOK, SentInv, NEW w \in Workers, Begin(w)
  PROVE  SentInv'
<1>1. LinksGrow /\ SentHasLink'
  BY SameRowsSent DEF Begin, ProcessAttempt, Sweep, db, razorpay, LinksGrow, SentInv
<1>2. ASSUME NEW r, wk' = [wk EXCEPT ![w] = r], r.pc \notin CarefulPcs PROVE SentInv'
  BY <1>1, <1>2, MoveSent DEF SentInv, WorkerSent, CarefulPcs
<1>3. ASSUME NEW p \in Payments, ProcessAttempt(w, p) PROVE SentInv'
  <2>1. PICK act : wk' = [wk EXCEPT ![w] = [Idle EXCEPT !.pc = "insert", !.job = <<p, 1>>, !.answer = act]]
    BY <1>3 DEF ProcessAttempt
  <2> DEFINE r == [Idle EXCEPT !.pc = "insert", !.job = <<p, 1>>, !.answer = act]
  <2>2. r.pc = "insert"
    BY DEF Idle
  <2> QED
    BY <1>2, <2>1, <2>2 DEF CarefulPcs
<1>4. ASSUME NEW j \in Jobs, Sweep(w, j) PROVE SentInv'
  <2> DEFINE pc == IF job[j].status = "executing" THEN "recover" ELSE "execute"
             r == [Idle EXCEPT !.pc = pc, !.job = j, !.status = job[j].status]
  <2>1. wk' = [wk EXCEPT ![w] = r] /\ r.pc = pc
    BY <1>4 DEF Sweep, Idle
  <2>2. r.pc \notin CarefulPcs
    BY <2>1 DEF CarefulPcs
  <2> QED
    BY <1>2, <2>1, <2>2
<1> QED
  BY <1>3, <1>4 DEF Begin

LEMMA EnvironmentSent ==
  ASSUME TypeOK, SentInv, Environment
  PROVE  SentInv'
<1>1. LinksGrow /\ UNCHANGED job
  BY DEF Environment, Land, Capture, Crash, db, razorpay, LinksGrow, TypeOK
<1>2. SentHasLink'
  BY <1>1, SameRowsSent DEF SentInv
<1>3. CASE UNCHANGED wk
  <2> SUFFICES ASSUME NEW v \in Workers PROVE WorkerSent(wk[v])'
    BY <1>2 DEF SentInv
  <2>1. WorkerSent(wk[v]) /\ wk'[v] = wk[v] /\ (wk[v].pc # "idle" => wk[v].job \in Jobs)
    BY <1>3 DEF SentInv, TypeOK
  <2> QED
    BY <1>1, <2>1 DEF WorkerSent, LinksGrow
<1>4. CASE \E w \in Workers : Done(w)
  BY <1>1, <1>2, <1>4, DoneSent DEF SentInv
<1> QED
  BY <1>3, <1>4 DEF Environment, Land, Capture, Crash

(* A job says sent only when its link exists at Razorpay: for any payments,  *)
(* any number of workers, every lost answer, late landing, failed lookup and *)
(* crash.  Only a subscription's page goes out without a link of its own.    *)
THEOREM SentIsTrue == Spec => []SentHasLink
<1>1. Init => SentInv
  BY DEF Init, SentInv, SentHasLink, WorkerSent, NoRow, Idle
<1>2. TypeOK /\ SentInv /\ [Next]_vars => SentInv'
  <2> SUFFICES ASSUME TypeOK, SentInv, [Next]_vars PROVE SentInv'
    OBVIOUS
  <2>1. CASE UNCHANGED vars
    <3>1. SentHasLink'
      BY <2>1 DEF vars, SentInv, SentHasLink
    <3>2. \A w \in Workers : WorkerSent(wk[w])'
      BY <2>1 DEF vars, SentInv, WorkerSent
    <3> QED
      BY <3>1, <3>2 DEF SentInv
  <2>2. ASSUME NEW w \in Workers, Begin(w) \/ Step(w) PROVE SentInv'
    BY <2>2, BeginSent, ScheduleSent, RecoverSent, GuardSent, SendSent, FinishSentStep DEF Step
  <2>3. CASE Environment
    BY <2>3, EnvironmentSent
  <2> QED
    BY <2>1, <2>2, <2>3 DEF Next
<1>3. SentInv => SentHasLink
  BY DEF SentInv
<1> QED
  BY <1>1, <1>2, <1>3, TypeCorrect, PTL DEF Spec

-----------------------------------------------------------------------------
(* The stop rule bounds the links.                                           *)
(*                                                                         *)
(* StopRule speaks of Razorpay; the budget is read when the row is written,  *)
(* long before the create call.  In between it is carried by the row (only  *)
(* a job within budget is ever due) and by the worker that took it.          *)

SendingPcs == {"recover", "recovered", "execute", "claim", "check", "earlier", "create"}
WorkerBudget(r) ==
  /\ r.pc \in SendingPcs => WithinBudget(r.job[2])
  /\ r.pc = "record" => r.status \in {"sent", "failed"}

BudgetInv ==
  /\ StopRule
  /\ \A j \in Jobs : job[j].status \in DueStatuses => WithinBudget(j[2])
  /\ \A w \in Workers : WorkerBudget(wk[w])

(* The rows: a commit makes a job due only within budget. *)
LEMMA CommitBudget ==
  ASSUME TypeOK, BudgetInv, NEW j \in Jobs, NEW status, NEW kind, NEW linked, Commit(j, status, kind, linked),
         status \in DueStatuses => WithinBudget(j[2])
  PROVE  \A i \in Jobs : job'[i].status \in DueStatuses => WithinBudget(i[2])
<1>1. job'[j].status = status
  BY DEF Commit, TypeOK, Row
<1>2. \A i \in Jobs : i # j => job'[i] = job[i]
  BY DEF Commit, TypeOK
<1> QED
  BY <1>1, <1>2 DEF BudgetInv

(* The workers: one moves. *)
LEMMA MoveBudget ==
  ASSUME TypeOK, BudgetInv, NEW w \in Workers, NEW r, wk' = [wk EXCEPT ![w] = r], WorkerBudget(r)
  PROVE  \A v \in Workers : WorkerBudget(wk[v])'
<1> SUFFICES ASSUME NEW v \in Workers PROVE WorkerBudget(wk[v])'
  OBVIOUS
<1>1. wk'[v] = IF v = w THEN r ELSE wk[v]
  BY DEF TypeOK
<1> QED
  BY <1>1 DEF BudgetInv, WorkerBudget, WithinBudget

LEMMA DoneBudget ==
  ASSUME TypeOK, BudgetInv, NEW w \in Workers, Done(w)
  PROVE  \A v \in Workers : WorkerBudget(wk[v])'
<1>1. WorkerBudget(Idle)
  BY DEF Idle, WorkerBudget, SendingPcs
<1> QED
  BY <1>1, MoveBudget DEF Done

LEMMA GotoBudget ==
  ASSUME TypeOK, BudgetInv, NEW w \in Workers, NEW pc, Goto(w, pc), pc # "record",
         pc \in SendingPcs => WithinBudget(wk[w].job[2])
  PROVE  \A v \in Workers : WorkerBudget(wk[v])'
<1> DEFINE r == [wk[w] EXCEPT !.pc = pc]
<1>1. r.pc = pc /\ r.job = wk[w].job
  BY DEF TypeOK, WorkerState
<1> QED
  BY <1>1, MoveBudget DEF Goto, WorkerBudget

LEMMA GotoWithBudget ==
  ASSUME TypeOK, BudgetInv, NEW w \in Workers, NEW pc, NEW status, NEW kind, GotoWith(w, pc, status, kind),
         pc \in SendingPcs => WithinBudget(wk[w].job[2]),
         pc = "record" => status \in {"sent", "failed"}
  PROVE  \A v \in Workers : WorkerBudget(wk[v])'
<1> DEFINE r == [wk[w] EXCEPT !.pc = pc, !.status = status, !.kind = kind]
<1>1. r.pc = pc /\ r.job = wk[w].job /\ r.status = status
  BY DEF TypeOK, WorkerState
<1> QED
  BY <1>1, MoveBudget DEF GotoWith, WorkerBudget

(* Nothing asked of Razorpay: the links and the requests stay as they are. *)
LEMMA NoSendBudget ==
  ASSUME BudgetInv, UNCHANGED <<link, inflight>>
  PROVE  StopRule'
BY DEF BudgetInv, StopRule

LEMMA ScheduleBudget ==
  ASSUME TypeOK, BudgetInv, NEW w \in Workers, ScheduleStep(w)
  PROVE  BudgetInv'
<1> DEFINE j == wk[w].job
<1>1. StopRule' /\ j \in Jobs
  BY NoSendBudget DEF ScheduleStep, Followup, InsertDuplicate, Insert, Park, razorpay, TypeOK
<1>2. ASSUME UNCHANGED job
      PROVE  \A i \in Jobs : job'[i].status \in DueStatuses => WithinBudget(i[2])
  BY <1>2 DEF BudgetInv
<1>3. CASE Followup(w)
  <2> DEFINE r == [Idle EXCEPT !.pc = "insert", !.job = <<j[1], NextRetrySeq(j[1])>>, !.answer = FollowupAct(j[1])]
  <2>1. r.pc = "insert" /\ wk' = [wk EXCEPT ![w] = r]
    BY <1>3 DEF Followup, Idle
  <2>2. WorkerBudget(r)
    BY <2>1 DEF WorkerBudget, SendingPcs
  <2> QED
    BY <1>1, <1>2, <1>3, <2>1, <2>2, MoveBudget DEF Followup, BudgetInv, db
<1>4. CASE InsertDuplicate(w)
  BY <1>1, <1>2, <1>4, DoneBudget DEF InsertDuplicate, BudgetInv, db
<1>5. CASE Insert(w)
  <2>1. PICK status \in ScheduleStatuses(j, wk[w].answer) :
          /\ job' = [job EXCEPT ![j] = [NoRow EXCEPT !.status = status]]
          /\ \/ status \in Parked /\ GotoWith(w, "park", status, "none")
             \/ status = "pending" /\ j[2] = 1 /\ GotoWith(w, "execute", status, "none")
             \/ status = "pending" /\ Done(w)
    BY <1>5 DEF Insert
  <2>2. status \in DueStatuses => WithinBudget(j[2])
    BY <2>1 DEF ScheduleStatuses, DueStatuses, Parked
  <2>3. \A i \in Jobs : job'[i].status \in DueStatuses => WithinBudget(i[2])
    <3>1. job'[j].status = status
      BY <1>1, <2>1 DEF NoRow, TypeOK
    <3>2. \A i \in Jobs : i # j => job'[i] = job[i]
      BY <2>1 DEF TypeOK
    <3> QED
      BY <2>2, <3>1, <3>2 DEF BudgetInv
  <2>4. \A v \in Workers : WorkerBudget(wk[v])'
    BY <2>1, <2>2, GotoWithBudget, DoneBudget DEF SendingPcs, DueStatuses
  <2> QED
    BY <1>1, <2>3, <2>4 DEF BudgetInv
<1>6. CASE Park(w)
  BY <1>1, <1>2, <1>6, DoneBudget DEF Park, BudgetInv
<1> QED
  BY <1>3, <1>4, <1>5, <1>6 DEF ScheduleStep

LEMMA RecoverBudget ==
  ASSUME TypeOK, BudgetInv, NEW w \in Workers, RecoverStep(w)
  PROVE  BudgetInv'
<1> DEFINE j == wk[w].job
<1>1. StopRule' /\ j \in Jobs /\ WithinBudget(j[2])
  BY NoSendBudget DEF RecoverStep, RecoverLookup, RecoverStaleExecution, razorpay, TypeOK,
                      BudgetInv, WorkerBudget, SendingPcs
<1>2. CASE RecoverLookup(w)
  <2>1. PICK answer :
          wk' = [wk EXCEPT ![w] = [@ EXCEPT !.pc = "recovered", !.status = job[j].status, !.answer = answer]]
    BY <1>2 DEF RecoverLookup
  <2> DEFINE r == [wk[w] EXCEPT !.pc = "recovered", !.status = job[j].status, !.answer = answer]
  <2>2. r.job = j /\ r.pc = "recovered"
    BY DEF TypeOK, WorkerState
  <2>3. WorkerBudget(r)
    BY <1>1, <2>2 DEF WorkerBudget
  <2> QED
    BY <1>1, <1>2, <2>1, <2>3, MoveBudget DEF RecoverLookup, BudgetInv, db
<1>3. CASE RecoverStaleExecution(w)
  <2>1. \A i \in Jobs : job'[i].status \in DueStatuses => WithinBudget(i[2])
    BY <1>1, <1>3, CommitBudget DEF RecoverStaleExecution, BudgetInv
  <2>2. \A v \in Workers : WorkerBudget(wk[v])'
    BY <1>1, <1>3, GotoWithBudget DEF RecoverStaleExecution
  <2> QED
    BY <1>1, <2>1, <2>2 DEF BudgetInv
<1> QED
  BY <1>2, <1>3 DEF RecoverStep

LEMMA GuardBudget ==
  ASSUME TypeOK, BudgetInv, NEW w \in Workers, GuardStep(w)
  PROVE  BudgetInv'
<1> DEFINE j == wk[w].job
<1>1. StopRule' /\ j \in Jobs
  BY NoSendBudget DEF GuardStep, Execute, VoidOrderPaid, VoidOutcome, StubTokenRetry, RefuseLocally,
                      ClaimForExecution, ClaimRefused, razorpay, TypeOK
<1>2. ASSUME UNCHANGED job
      PROVE  \A i \in Jobs : job'[i].status \in DueStatuses => WithinBudget(i[2])
  BY <1>2 DEF BudgetInv
<1>3. CASE Execute(w)
  <2>1. WithinBudget(j[2])
    BY <1>3 DEF Execute, BudgetInv, WorkerBudget, SendingPcs
  <2> QED
    BY <1>1, <1>2, <1>3, <2>1, GotoWithBudget DEF Execute, BudgetInv, db
<1>4. CASE VoidOrderPaid(w)
  BY <1>1, <1>4, CommitBudget, GotoBudget DEF VoidOrderPaid, DueStatuses, SendingPcs, BudgetInv
<1>5. CASE VoidOutcome(w)
  BY <1>1, <1>2, <1>5, DoneBudget DEF VoidOutcome, BudgetInv
<1>6. CASE StubTokenRetry(w)
  BY <1>1, <1>6, CommitBudget, GotoWithBudget DEF StubTokenRetry, DueStatuses, SendingPcs, BudgetInv
<1>7. CASE RefuseLocally(w)
  BY <1>1, <1>7, CommitBudget, GotoWithBudget DEF RefuseLocally, DueStatuses, SendingPcs, BudgetInv
<1>8. CASE ClaimForExecution(w)
  <2>1. WithinBudget(j[2])
    BY <1>8 DEF ClaimForExecution, BudgetInv, WorkerBudget, SendingPcs
  <2>2. \A i \in Jobs : i # j => job'[i] = job[i]
    BY <1>8 DEF ClaimForExecution, TypeOK
  <2>3. \A i \in Jobs : job'[i].status \in DueStatuses => WithinBudget(i[2])
    BY <2>1, <2>2 DEF BudgetInv
  <2> QED
    BY <1>1, <1>8, <2>1, <2>3, GotoWithBudget DEF ClaimForExecution, BudgetInv
<1>9. CASE ClaimRefused(w)
  BY <1>1, <1>2, <1>9, GotoWithBudget DEF ClaimRefused, SendingPcs, BudgetInv, db
<1> QED
  BY <1>3, <1>4, <1>5, <1>6, <1>7, <1>8, <1>9 DEF GuardStep

LEMMA AfterFailureBudget ==
  ASSUME TypeOK, BudgetInv, NEW w \in Workers, wk[w].pc = "create", NEW kind, AfterFailure(w, kind)
  PROVE  \A v \in Workers : WorkerBudget(wk[v])'
<1>1. WithinBudget(wk[w].job[2])
  BY DEF BudgetInv, WorkerBudget, SendingPcs
<1>2. PICK r : /\ wk' = [wk EXCEPT ![w] = r] /\ r.job = wk[w].job
               /\ r.pc = "record" => r.status = "failed"
  <2>1. CASE LastTry(w, kind)
    <3> DEFINE r == [wk[w] EXCEPT !.pc = "record", !.status = "failed", !.kind = FailureOf(w, kind)]
    <3>1. r.job = wk[w].job /\ r.status = "failed"
      BY DEF TypeOK, WorkerState
    <3> QED
      BY <2>1, <3>1 DEF AfterFailure
  <2>2. CASE ~LastTry(w, kind)
    <3> DEFINE r == [wk[w] EXCEPT !.tries = wk[w].tries + 1,
                                  !.kind = IF kind \in AmbiguousKinds THEN kind ELSE wk[w].kind]
    <3>1. r.job = wk[w].job /\ r.pc = "create"
      BY DEF TypeOK, WorkerState
    <3> QED
      BY <2>2, <3>1 DEF AfterFailure
  <2> QED
    BY <2>1, <2>2
<1> QED
  BY <1>1, <1>2, MoveBudget DEF WorkerBudget

LEMMA SendBudget ==
  ASSUME TypeOK, BudgetInv, NEW w \in Workers, SendStep(w)
  PROVE  BudgetInv'
<1> DEFINE j == wk[w].job
<1>1. j \in Jobs
  BY DEF SendStep, FinishShadow, SendSubscriptionPage, OrderCheckPaid, OrderCheckPasses,
         EarlierLanded, EarlierNone, Superseded, CreateLink, CreateDuplicate, CreateRefused,
         OfferRejected, CreateUnanswered, FinishDuplicate, RecordResult, TypeOK
<1>2. ASSUME UNCHANGED razorpay PROVE StopRule'
  BY <1>2, NoSendBudget DEF razorpay
<1>3. ASSUME UNCHANGED job
      PROVE  \A i \in Jobs : job'[i].status \in DueStatuses => WithinBudget(i[2])
  BY <1>3 DEF BudgetInv
<1>4. wk[w].pc \in {"check", "earlier", "create"} => WithinBudget(j[2])
  BY DEF BudgetInv, WorkerBudget, SendingPcs
<1>5. CASE FinishShadow(w)
  BY <1>1, <1>2, <1>5, CommitBudget, GotoWithBudget DEF FinishShadow, DueStatuses, SendingPcs, BudgetInv
<1>6. CASE SendSubscriptionPage(w)
  BY <1>1, <1>2, <1>6, CommitBudget, GotoWithBudget DEF SendSubscriptionPage, DueStatuses, SendingPcs, BudgetInv
<1>7. CASE OrderCheckPaid(w)
  BY <1>2, <1>3, <1>7, GotoBudget DEF OrderCheckPaid, SendingPcs, BudgetInv
<1>8. CASE OrderCheckPasses(w)
  BY <1>2, <1>3, <1>4, <1>8, GotoBudget DEF OrderCheckPasses, BudgetInv, db
<1>9. CASE EarlierLanded(w)
  <2>1. PICK k \in LandedSuspects(j) : Commit(k, "sent", "none", TRUE)
    BY <1>9 DEF EarlierLanded
  <2>2. k \in Jobs
    BY <1>1, <2>1, SuspectsAreJobs DEF LandedSuspects
  <2> QED
    BY <1>2, <1>9, <2>1, <2>2, CommitBudget, GotoBudget DEF EarlierLanded, DueStatuses, SendingPcs, BudgetInv
<1>10. CASE EarlierNone(w)
  <2> DEFINE r == [wk[w] EXCEPT !.pc = "create", !.kind = "none", !.tries = 0]
  <2>1. r.job = j /\ r.pc = "create"
    BY DEF TypeOK, WorkerState
  <2>2. WorkerBudget(r)
    BY <1>4, <1>10, <2>1 DEF EarlierNone, WorkerBudget
  <2> QED
    BY <1>2, <1>3, <1>10, <2>2, MoveBudget DEF EarlierNone, BudgetInv, db
<1>11. CASE Superseded(w)
  BY <1>1, <1>2, <1>11, CommitBudget, DoneBudget DEF Superseded, DueStatuses, BudgetInv
<1>12. CASE CreateLink(w)
  <2>1. StopRule'
    BY <1>4, <1>12 DEF CreateLink, BudgetInv, StopRule, TypeOK, WithinBudget
  <2> QED
    BY <1>3, <1>12, <2>1, GotoWithBudget DEF CreateLink, SendingPcs, BudgetInv, db
<1>13. CASE CreateDuplicate(w)
  BY <1>2, <1>3, <1>13, GotoBudget DEF CreateDuplicate, SendingPcs, BudgetInv, db
<1>14. CASE CreateRefused(w)
  BY <1>2, <1>3, <1>14, AfterFailureBudget DEF CreateRefused, BudgetInv, db
<1>15. CASE OfferRejected(w)
  <2> DEFINE r == [wk[w] EXCEPT !.plain = TRUE, !.tries = 0, !.kind = "none"]
  <2>1. r.job = j /\ r.pc = "create"
    BY <1>15 DEF OfferRejected, TypeOK, WorkerState
  <2>2. WorkerBudget(r)
    BY <1>4, <1>15, <2>1 DEF OfferRejected, WorkerBudget
  <2> QED
    BY <1>2, <1>3, <1>15, <2>2, MoveBudget DEF OfferRejected, BudgetInv, db
<1>16. CASE CreateUnanswered(w)
  <2>1. StopRule'
    BY <1>4, <1>16 DEF CreateUnanswered, BudgetInv, StopRule, TypeOK, WithinBudget
  <2>2. \A v \in Workers : WorkerBudget(wk[v])'
    BY <1>16, AfterFailureBudget DEF CreateUnanswered
  <2> QED
    BY <1>3, <1>16, <2>1, <2>2 DEF CreateUnanswered, BudgetInv, db
<1>17. CASE FinishDuplicate(w)
  <2>1. PICK answer \in LookupByReference(j), status \in {"sent", "human_queue"} :
          Commit(j, status, "none", answer = "found") /\ GotoWith(w, "finish", status, "none")
    BY <1>17 DEF FinishDuplicate
  <2> QED
    BY <1>1, <1>2, <1>17, <2>1, CommitBudget, GotoWithBudget DEF FinishDuplicate, DueStatuses, SendingPcs, BudgetInv
<1>18. CASE RecordResult(w)
  <2>1. wk[w].status \notin DueStatuses
    BY <1>18 DEF RecordResult, BudgetInv, WorkerBudget, DueStatuses
  <2> QED
    BY <1>1, <1>2, <1>18, <2>1, CommitBudget, GotoBudget DEF RecordResult, SendingPcs, BudgetInv
<1> QED
  BY <1>5, <1>6, <1>7, <1>8, <1>9, <1>10, <1>11, <1>12, <1>13, <1>14, <1>15, <1>16, <1>17, <1>18 DEF SendStep

LEMMA FinishBudget ==
  ASSUME TypeOK, BudgetInv, NEW w \in Workers, FinishStep(w)
  PROVE  BudgetInv'
<1> DEFINE j == wk[w].job
<1>1. StopRule' /\ j \in Jobs
  BY NoSendBudget DEF FinishStep, FinishSent, FinishClosed, FinishThrottled, Reconcile, FinishOther, Close,
                      razorpay, TypeOK
<1>2. ASSUME UNCHANGED job
      PROVE  \A i \in Jobs : job'[i].status \in DueStatuses => WithinBudget(i[2])
  BY <1>2 DEF BudgetInv
<1>3. ASSUME ToClose(w) PROVE \A v \in Workers : WorkerBudget(wk[v])'
  BY <1>3, GotoBudget, DoneBudget DEF ToClose, SendingPcs
<1>4. CASE FinishSent(w)
  <2>1. \A i \in Jobs : job'[i].status = job[i].status
    BY <1>1, <1>4 DEF FinishSent, TypeOK, Row
  <2> QED
    BY <1>1, <1>4, <2>1, DoneBudget DEF FinishSent, BudgetInv
<1>5. CASE FinishClosed(w)
  BY <1>1, <1>2, <1>3, <1>5 DEF FinishClosed, BudgetInv, db
<1>6. CASE FinishThrottled(w)
  BY <1>1, <1>2, <1>6, GotoBudget DEF FinishThrottled, SendingPcs, BudgetInv, db
<1>7. CASE Reconcile(w)
  <2>1. \/ Commit(j, "sent", "none", TRUE) /\ GotoWith(w, "finish", "sent", "none")
        \/ Goto(w, "followup") /\ UNCHANGED job
        \/ ToClose(w) /\ UNCHANGED job
    BY <1>7 DEF Reconcile
  <2>2. \A i \in Jobs : job'[i].status \in DueStatuses => WithinBudget(i[2])
    BY <1>1, <1>2, <2>1, CommitBudget DEF DueStatuses
  <2>3. \A v \in Workers : WorkerBudget(wk[v])'
    BY <1>3, <2>1, GotoBudget, GotoWithBudget DEF SendingPcs
  <2> QED
    BY <1>1, <2>2, <2>3 DEF BudgetInv
<1>8. CASE FinishOther(w)
  BY <1>1, <1>2, <1>8, DoneBudget DEF FinishOther, BudgetInv, db
<1>9. CASE Close(w)
  BY <1>1, <1>2, <1>9, DoneBudget DEF Close, BudgetInv
<1> QED
  BY <1>4, <1>5, <1>6, <1>7, <1>8, <1>9 DEF FinishStep

LEMMA BeginBudget ==
  ASSUME TypeOK, BudgetInv, NEW w \in Workers, Begin(w)
  PROVE  BudgetInv'
<1>1. StopRule' /\ \A i \in Jobs : job'[i].status \in DueStatuses => WithinBudget(i[2])
  BY NoSendBudget DEF Begin, ProcessAttempt, Sweep, db, razorpay, BudgetInv
<1>2. ASSUME NEW p \in Payments, ProcessAttempt(w, p) PROVE BudgetInv'
  <2>1. PICK act : wk' = [wk EXCEPT ![w] = [Idle EXCEPT !.pc = "insert", !.job = <<p, 1>>, !.answer = act]]
    BY <1>2 DEF ProcessAttempt
  <2> DEFINE r == [Idle EXCEPT !.pc = "insert", !.job = <<p, 1>>, !.answer = act]
  <2>2. r.pc = "insert"
    BY DEF Idle
  <2>3. WorkerBudget(r)
    BY <2>2 DEF WorkerBudget, SendingPcs
  <2> QED
    BY <1>1, <2>1, <2>3, MoveBudget DEF BudgetInv
<1>3. ASSUME NEW j \in Jobs, Sweep(w, j) PROVE BudgetInv'
  <2> DEFINE pc == IF job[j].status = "executing" THEN "recover" ELSE "execute"
             r == [Idle EXCEPT !.pc = pc, !.job = j, !.status = job[j].status]
  <2>1. wk' = [wk EXCEPT ![w] = r] /\ r.pc = pc /\ r.job = j
    BY <1>3 DEF Sweep, Idle
  <2>2. WithinBudget(j[2])
    BY <1>3 DEF Sweep, BudgetInv
  <2>3. WorkerBudget(r)
    BY <2>1, <2>2 DEF WorkerBudget
  <2> QED
    BY <1>1, <2>1, <2>3, MoveBudget DEF BudgetInv
<1> QED
  BY <1>2, <1>3 DEF Begin

LEMMA EnvironmentBudget ==
  ASSUME TypeOK, BudgetInv, Environment
  PROVE  BudgetInv'
<1>1. UNCHANGED job
  BY DEF Environment, Land, Capture, Crash, db
<1>2. \A i \in Jobs : job'[i].status \in DueStatuses => WithinBudget(i[2])
  BY <1>1 DEF BudgetInv
<1>3. StopRule'
  <2>1. ASSUME NEW i \in Jobs, Land(i) PROVE StopRule'
    BY <2>1 DEF Land, BudgetInv, StopRule, TypeOK, WithinBudget
  <2>2. CASE UNCHANGED <<link, inflight>>
    BY <2>2, NoSendBudget
  <2> QED
    BY <2>1, <2>2 DEF Environment, Capture, Crash, razorpay
<1>4. \A v \in Workers : WorkerBudget(wk[v])'
  <2>1. CASE UNCHANGED wk
    BY <2>1 DEF BudgetInv, WorkerBudget
  <2>2. CASE \E w \in Workers : Done(w)
    BY <2>2, DoneBudget
  <2> QED
    BY <2>1, <2>2 DEF Environment, Land, Capture, Crash
<1> QED
  BY <1>2, <1>3, <1>4 DEF BudgetInv

(* max_attempts bounds what Razorpay is asked to create, not only the rows:  *)
(* for any number of workers, crashes, retries, reclaimed jobs and requests  *)
(* that land late, no link exists or is under way beyond the budget.        *)
THEOREM StopRuleHolds == Spec => []StopRule
<1>1. Init => BudgetInv
  <2>1. Init => StopRule
    BY DEF Init, StopRule
  <2> QED
    BY <2>1 DEF Init, BudgetInv, WorkerBudget, SendingPcs, DueStatuses, NoRow, Idle
<1>2. TypeOK /\ BudgetInv /\ [Next]_vars => BudgetInv'
  <2> SUFFICES ASSUME TypeOK, BudgetInv, [Next]_vars PROVE BudgetInv'
    OBVIOUS
  <2>1. CASE UNCHANGED vars
    BY <2>1 DEF vars, BudgetInv, StopRule, WorkerBudget
  <2>2. ASSUME NEW w \in Workers, Begin(w) \/ Step(w) PROVE BudgetInv'
    BY <2>2, BeginBudget, ScheduleBudget, RecoverBudget, GuardBudget, SendBudget, FinishBudget DEF Step
  <2>3. CASE Environment
    BY <2>3, EnvironmentBudget
  <2> QED
    BY <2>1, <2>2, <2>3 DEF Next
<1>3. BudgetInv => StopRule
  BY DEF BudgetInv
<1> QED
  BY <1>1, <1>2, <1>3, TypeCorrect, PTL DEF Spec

-----------------------------------------------------------------------------
(* No link over one that landed late.  With one process that does not crash *)
(* and lookups that answer, a follow-up is only made of a payment whose     *)
(* rows all failed, and every one of them that may have a link is looked up *)
(* before the next create call.                                             *)

\* One process, as the lock of serve makes it.
Serial == \A v, w \in Workers : v = w

(* Where a process is after it moved, and the row it then holds. *)
LEMMA DoneAt ==
  ASSUME TypeOK, NEW w \in Workers, Done(w)
  PROVE  wk'[w].pc = "idle"
BY IdleType DEF Done, TypeOK

LEMMA GotoAt ==
  ASSUME TypeOK, NEW w \in Workers, NEW pc, Goto(w, pc)
  PROVE  /\ wk'[w].pc = pc
         /\ wk'[w].job = wk[w].job
         /\ wk'[w].status = wk[w].status
         /\ wk'[w].kind = wk[w].kind
BY DEF Goto, TypeOK, WorkerState

LEMMA GotoWithAt ==
  ASSUME TypeOK, NEW w \in Workers, NEW pc, NEW status, NEW kind, GotoWith(w, pc, status, kind)
  PROVE  /\ wk'[w].pc = pc
         /\ wk'[w].job = wk[w].job
         /\ wk'[w].status = status
         /\ wk'[w].kind = kind
BY DEF GotoWith, TypeOK, WorkerState

(* The create loop goes on, or leaves with the failure to record. *)
LEMMA AfterFailureAt ==
  ASSUME TypeOK, NEW w \in Workers, NEW kind, AfterFailure(w, kind), wk[w].pc = "create"
  PROVE  /\ wk'[w].job = wk[w].job
         /\ \/ /\ wk'[w].pc = "record"
               /\ wk'[w].status = "failed"
               /\ wk'[w].kind = FailureOf(w, kind)
            \/ /\ wk'[w].pc = "create"
               /\ wk'[w].kind = IF kind \in AmbiguousKinds THEN kind ELSE wk[w].kind
<1>1. wk[w] \in WorkerState /\ wk \in [Workers -> WorkerState]
  BY DEF TypeOK
<1>2. CASE LastTry(w, kind)
  <2> DEFINE r == [wk[w] EXCEPT !.pc = "record", !.status = "failed", !.kind = FailureOf(w, kind)]
  <2>1. wk'[w] = r
    BY <1>1, <1>2 DEF AfterFailure
  <2> QED
    BY <1>1, <2>1 DEF WorkerState
<1>3. CASE ~LastTry(w, kind)
  <2> DEFINE k == IF kind \in AmbiguousKinds THEN kind ELSE wk[w].kind
             r == [wk[w] EXCEPT !.tries = wk[w].tries + 1, !.kind = k]
  <2>1. wk'[w] = r
    BY <1>1, <1>3 DEF AfterFailure
  <2>2. r.pc = wk[w].pc /\ r.job = wk[w].job /\ r.kind = k
    BY <1>1 DEF WorkerState
  <2> QED
    BY <2>1, <2>2
<1> QED
  BY <1>2, <1>3

(* The positions that follow a claim, and what holds at each. *)

AfterClaim == {"shadow", "direct", "check", "earlier", "superseded", "create", "duplicate", "record"}

\* Where a worker may be with a request Razorpay may have carried out.
Calling(w) ==
  \/ wk[w].pc = "create" /\ wk[w].kind \in AmbiguousKinds
  \/ wk[w].pc = "duplicate"
  \/ wk[w].pc = "record" /\ wk[w].status = "sent"
  \/ wk[w].pc = "record" /\ wk[w].status = "failed" /\ wk[w].kind \in AmbiguousKinds

\* No other row of the payment is open.
Alone(j) ==
  \A k \in Jobs : k[1] = j[1] =>
    (k[2] < j[2] => job[k].status = "failed") /\ (k[2] > j[2] => job[k].status = "absent")

\* What holds of the row a worker is at.
AtRow(w) ==
  LET j == wk[w].job IN
  /\ wk[w].pc \notin {"recover", "recovered"}
  /\ wk[w].pc = "insert" => j[2] = 1 \/ (Alone(j) /\ job[j].status = "absent")
  /\ wk[w].pc \in {"execute", "stub", "refuse", "claim"} => job[j].status = "pending"
  /\ wk[w].pc = "void" => job[j].status \in {"pending", "executing"}
  /\ wk[w].pc \in AfterClaim => job[j].status = "executing"
  /\ wk[w].pc = "create" =>
       /\ wk[w].kind \in AmbiguousKinds \cup {"none"}
       /\ \A k \in Jobs : k[1] = j[1] /\ k # j /\ link[k] # "none" => k \in raced
  /\ wk[w].pc = "duplicate" => link[j] # "none"
  /\ wk[w].pc = "record" => wk[w].status \in {"sent", "failed"}
  /\ wk[w].pc = "followup" \/ (wk[w].pc = "finish" /\ wk[w].status = "failed") =>
       Alone(j) /\ job[j].status = "failed"

\* Rows are claimed by the worker only.
Claimed(w) ==
  \A j \in Jobs : job[j].status = "executing" => wk[w].job = j /\ wk[w].pc \in AfterClaim \cup {"void"}

\* A row another one follows has failed, or it was found to have its link when
\* the newer one was about to be sent.
InTurn(w) ==
  \A s, t \in Jobs : s[1] = t[1] /\ s[2] < t[2] /\ job[t].status # "absent" =>
    \/ job[s].status = "failed"
    \/ /\ job[s].status = "sent"
       /\ job[t].status \in {"failed", "no_action"} \/ (wk[w].pc = "superseded" /\ wk[w].job = t)

\* The rows whose request may have reached Razorpay.
Accounted(w) ==
  \A j \in Jobs : link[j] # "none" \/ j \in inflight =>
    \/ job[j].status = "sent"
    \/ job[j].status = "failed" /\ job[j].kind \in AmbiguousKinds
    \/ job[j].status = "executing" /\ wk[w].job = j /\ Calling(w)

RowsOK(w) == Claimed(w) /\ InTurn(w) /\ Accounted(w)
OverInv == \A w \in Workers : AtRow(w) /\ RowsOK(w)

LEMMA PlaceAfter ==
  ASSUME TypeOK, NEW w \in Workers, wk[w].pc # "idle"
  PROVE  /\ wk[w].job \in Jobs
         /\ Done(w) => wk'[w].pc = "idle"
         /\ \A pc : Goto(w, pc) =>
              /\ wk'[w].pc = pc /\ wk'[w].job = wk[w].job
              /\ wk'[w].status = wk[w].status /\ wk'[w].kind = wk[w].kind
         /\ \A pc, status, kind : GotoWith(w, pc, status, kind) =>
              wk'[w].pc = pc /\ wk'[w].job = wk[w].job /\ wk'[w].status = status /\ wk'[w].kind = kind
<1>1. wk[w].job \in Jobs
  BY DEF TypeOK
<1> QED
  BY <1>1, DoneAt, GotoAt, GotoWithAt

LEMMA AtNone ==
  ASSUME NEW w, wk'[w].pc \in {"idle", "park", "voided", "close"}
  PROVE  AtRow(w)'
  BY DEF AtRow, AfterClaim

\* A job that is still to be done, or only now gets its row, is the open one.
LEMMA OpenIsAlone ==
  ASSUME TypeOK, NEW w, InTurn(w), wk[w].pc # "superseded", NEW j \in Jobs, job[j].status \in {"pending", "executing"}
  PROVE  Alone(j)
<1> SUFFICES ASSUME NEW k \in Jobs, k[1] = j[1]
             PROVE  (k[2] < j[2] => job[k].status = "failed") /\ (k[2] > j[2] => job[k].status = "absent")
  BY DEF Alone
<1>1. ASSUME k[2] < j[2] PROVE job[k].status = "failed"
  BY <1>1 DEF InTurn
<1>2. ASSUME k[2] > j[2] PROVE job[k].status = "absent"
  <2>1. j[2] < k[2]
    BY <1>2 DEF Jobs
  <2> QED
    BY <2>1 DEF InTurn
<1> QED
  BY <1>1, <1>2

LEMMA NewIsAlone ==
  ASSUME NEW w, InTurn(w), AtRow(w), wk[w].pc = "insert", wk[w].job \in Jobs, job[wk[w].job].status = "absent"
  PROVE  Alone(wk[w].job)
<1>1. PICK j \in Jobs : j = wk[w].job
  OBVIOUS
<1>2. CASE j[2] = 1
  <2> SUFFICES ASSUME NEW k \in Jobs, k[1] = j[1]
               PROVE  (k[2] < j[2] => job[k].status = "failed") /\ (k[2] > j[2] => job[k].status = "absent")
    BY <1>1 DEF Alone
  <2>1. k[2] \in 1..MaxSeq /\ MaxSeq \in Nat
    BY ConstantsAssumption DEF Jobs
  <2>2. ~(k[2] < j[2])
    BY <1>2, <2>1
  <2>3. ASSUME k[2] > j[2] PROVE job[k].status = "absent"
    <3>1. j[2] < k[2]
      BY <1>2, <2>1, <2>3
    <3>2. job[j].status = "absent"
      BY <1>1
    <3> QED
      BY <3>1, <3>2 DEF InTurn
  <2> QED
    BY <2>2, <2>3
<1>3. CASE j[2] # 1
  BY <1>1, <1>3 DEF AtRow
<1> QED
  BY <1>2, <1>3

LEMMA AloneStays ==
  ASSUME TypeOK, NEW j \in Jobs, Alone(j), \A k \in Jobs : k # j => job'[k] = job[k]
  PROVE  Alone(j)'
<1>1. ASSUME NEW k \in Jobs, k[2] < j[2] \/ k[2] > j[2] PROVE k # j
  BY <1>1 DEF Jobs
<1> QED
  BY <1>1 DEF Alone

-----------------------------------------------------------------------------
(* A step that changes no row; one that changes the row of its own job.      *)

LEMMA MoveRows ==
  ASSUME NEW w, RowsOK(w), UNCHANGED <<link, inflight>>, wk[w].pc # "superseded",
         \A k \in Jobs : job'[k].status = job[k].status /\ job'[k].kind = job[k].kind,
         wk[w].pc \in AfterClaim \cup {"void"} => wk'[w].job = wk[w].job /\ wk'[w].pc \in AfterClaim \cup {"void"},
         Calling(w) => Calling(w)'
  PROVE  RowsOK(w)'
<1>1. Claimed(w)'
  BY DEF RowsOK, Claimed
<1>2. InTurn(w)'
  BY DEF RowsOK, InTurn
<1>3. Accounted(w)'
  <2>1. Calling(w) => wk'[w].job = wk[w].job
    BY DEF Calling, AfterClaim
  <2> QED
    BY <2>1 DEF RowsOK, Accounted
<1> QED
  BY <1>1, <1>2, <1>3 DEF RowsOK

LEMMA WriteRows ==
  ASSUME TypeOK, NEW w, RowsOK(w), NEW j \in Jobs, wk[w].job = j, wk[w].pc # "superseded", Alone(j),
         \A k \in Jobs : k # j => job'[k] = job[k], UNCHANGED <<link, inflight>>,
         job'[j].status = "executing" => wk'[w].job = j /\ wk'[w].pc \in AfterClaim \cup {"void"},
         link[j] # "none" \/ j \in inflight =>
           \/ job'[j].status = "sent"
           \/ job'[j].status = "failed" /\ job'[j].kind \in AmbiguousKinds
  PROVE  RowsOK(w)'
<1>2. Claimed(w)'
  BY DEF RowsOK, Claimed
<1>3. InTurn(w)'
  <2> SUFFICES ASSUME NEW s \in Jobs, NEW t \in Jobs, s[1] = t[1], s[2] < t[2], job'[t].status # "absent"
               PROVE  \/ job'[s].status = "failed"
                      \/ job'[s].status = "sent" /\ job'[t].status \in {"failed", "no_action"}
    BY DEF InTurn
  <2>1. s # t
    BY DEF Jobs
  <2>2. CASE t = j
    BY <2>1, <2>2 DEF Alone
  <2>3. CASE s = j
    <3>1. t[2] > s[2]
      BY DEF Jobs
    <3> QED
      BY <2>1, <2>3, <3>1 DEF Alone
  <2>4. CASE s # j /\ t # j
    BY <2>4 DEF RowsOK, InTurn
  <2> QED
    BY <2>2, <2>3, <2>4
<1>4. Accounted(w)'
  BY DEF RowsOK, Accounted
<1> QED
  BY <1>2, <1>3, <1>4 DEF RowsOK

-----------------------------------------------------------------------------
(* The steps before a claim. *)

LEMMA LastIsOne ==
  ASSUME NEW p, SeqsOf(p) # {}
  PROVE  LastSeq(p) \in SeqsOf(p)
<1>1. SeqsOf(p) \in SUBSET (1..MaxSeq) /\ MaxSeq \in Nat
  BY ConstantsAssumption DEF SeqsOf
<1>2. \E s \in SeqsOf(p) : \A t \in SeqsOf(p) : t <= s
  BY <1>1, LargestExists
<1> QED
  BY <1>2 DEF LastSeq

\* A follow-up takes the number after the one that failed.
LEMMA FollowupIsAlone ==
  ASSUME TypeOK, NEW j \in Jobs, Alone(j), job[j].status = "failed", NEW n \in Jobs, n = <<j[1], NextRetrySeq(j[1])>>
  PROVE  Alone(n) /\ job[n].status = "absent"
<1>1. PICK p, s : p = j[1] /\ s = j[2]
  OBVIOUS
<1>2. PICK next : next = NextRetrySeq(p)
  OBVIOUS
<1>3. p \in Payments /\ s \in 1..MaxSeq /\ j = <<p, s>> /\ MaxSeq \in Nat
  BY <1>1, ConstantsAssumption DEF Jobs
<1>4. s \in SeqsOf(p) /\ SeqsOf(p) \subseteq 1..MaxSeq
  BY <1>3 DEF SeqsOf, Exists
<1>5. next \in Nat /\ \A t \in SeqsOf(p) : t < next
  BY <1>2, NextSeqIsNext
<1>6. PICK last : last = LastSeq(p)
  OBVIOUS
<1>7. last \in SeqsOf(p) /\ next = last + 1
  BY <1>2, <1>4, <1>6, LastIsOne DEF NextRetrySeq
<1>8. last <= s
  <2> SUFFICES ASSUME ~(last <= s) PROVE FALSE
    OBVIOUS
  <2>1. last > s /\ <<p, last>> \in Jobs
    BY <1>3, <1>4, <1>7 DEF Jobs
  <2>2. job[<<p, last>>].status = "absent"
    BY <1>1, <2>1 DEF Alone
  <2>3. job[<<p, last>>].status # "absent"
    BY <1>7 DEF SeqsOf, Exists
  <2> QED
    BY <2>2, <2>3
<1>9. next = s + 1
  BY <1>3, <1>4, <1>5, <1>7, <1>8
<1>10. n = <<p, s + 1>>
  BY <1>1, <1>2, <1>9
<1>11. ASSUME NEW k \in Jobs, k[1] = p
       PROVE  (k[2] < s + 1 => job[k].status = "failed") /\ (k[2] > s => job[k].status = "absent")
  <2>1. k[2] \in 1..MaxSeq /\ k = <<p, k[2]>>
    BY <1>11 DEF Jobs
  <2>2. ASSUME k[2] < s + 1 PROVE k[2] < s \/ k = j
    BY <1>3, <2>1, <2>2
  <2> QED
    BY <1>1, <1>11, <2>2 DEF Alone
<1>12. Alone(n)
  <2> SUFFICES ASSUME NEW k \in Jobs, k[1] = p
               PROVE  (k[2] < s + 1 => job[k].status = "failed") /\ (k[2] > s + 1 => job[k].status = "absent")
    BY <1>10 DEF Alone
  <2>1. k[2] > s + 1 => k[2] > s
    BY <1>3 DEF Jobs
  <2> QED
    BY <1>11, <2>1
<1>13. n[1] = p /\ n[2] > s
  BY <1>3, <1>10
<1> QED
  BY <1>11, <1>12, <1>13

LEMMA ScheduleOver ==
  ASSUME TypeOK, NEW w \in Workers, AtRow(w), RowsOK(w), ScheduleStep(w)
  PROVE  AtRow(w)' /\ RowsOK(w)'
<1> DEFINE j == wk[w].job
<1>0. wk[w].pc # "idle" /\ wk[w].pc \notin AfterClaim \cup {"void", "superseded"} /\ ~Calling(w)
  BY DEF ScheduleStep, Followup, InsertDuplicate, Insert, Park, AfterClaim, Calling
<1>1. CASE Followup(w)
  <2>1. PICK n : n = <<j[1], NextRetrySeq(j[1])>>
    OBVIOUS
  <2>2. wk[w].pc = "followup" /\ NextRetrySeq(j[1]) <= MaxSeq /\ UNCHANGED <<db, razorpay>>
    BY <1>1 DEF Followup
  <2>3. wk'[w].pc = "insert" /\ wk'[w].job = n
    BY <1>1, <2>1 DEF Followup, Idle, TypeOK, WorkerState
  <2>4. j \in Jobs /\ n \in Jobs
    BY <1>0, <2>1, <2>2, NextSeqIsNext, ConstantsAssumption DEF TypeOK, Jobs
  <2>5. Alone(n) /\ job[n].status = "absent"
    BY <2>1, <2>2, <2>4, FollowupIsAlone DEF AtRow
  <2>6. AtRow(w)'
    BY <2>2, <2>3, <2>5 DEF AtRow, Alone, AfterClaim, db
  <2> QED
    BY <1>0, <2>2, <2>6, MoveRows DEF db, razorpay
<1>2. CASE InsertDuplicate(w)
  BY <1>0, <1>2, AtNone, PlaceAfter, MoveRows DEF InsertDuplicate, db, razorpay
<1>3. CASE Insert(w)
  <2>1. wk[w].pc = "insert" /\ j \in Jobs /\ job[j].status = "absent"
    BY <1>0, <1>3, PlaceAfter DEF Insert, KeyTaken, Exists
  <2>2. PICK status, row :
          /\ status \in {"pending"} \cup Parked
          /\ row = [NoRow EXCEPT !.status = status]
          /\ job' = [job EXCEPT ![j] = row]
          /\ \/ status \in Parked /\ GotoWith(w, "park", status, "none")
             \/ status = "pending" /\ j[2] = 1 /\ GotoWith(w, "execute", status, "none")
             \/ status = "pending" /\ Done(w)
    BY <1>3 DEF Insert, ScheduleStatuses, Parked
  <2>3. job'[j].status = status /\ \A k \in Jobs : k # j => job'[k] = job[k]
    BY <2>1, <2>2 DEF NoRow, TypeOK
  <2>4. Alone(j)
    BY <2>1, NewIsAlone DEF RowsOK
  <2>5. link[j] = "none" /\ j \notin inflight
    BY <2>1 DEF RowsOK, Accounted
  <2>6. job'[j].status # "executing" /\ UNCHANGED <<link, inflight>>
    BY <1>3, <2>2, <2>3 DEF Parked, Insert, razorpay
  <2>7. RowsOK(w)'
    BY <1>0, <2>1, <2>3, <2>4, <2>5, <2>6, WriteRows
  <2>8. wk'[w].pc \in {"park", "idle"} \/ (wk'[w].pc = "execute" /\ wk'[w].job = j /\ status = "pending")
    BY <1>0, <2>2, <2>3, PlaceAfter
  <2>10. CASE wk'[w].pc \in {"park", "idle"}
    BY <2>7, <2>10, AtNone
  <2>11. CASE wk'[w].pc = "execute" /\ wk'[w].job = j /\ status = "pending"
    <3>1. AtRow(w)'
      BY <2>3, <2>11 DEF AtRow, AfterClaim
    <3> QED
      BY <2>7, <3>1
  <2> QED
    BY <2>8, <2>10, <2>11
<1>4. CASE Park(w)
  BY <1>0, <1>4, AtNone, PlaceAfter, MoveRows DEF Park, razorpay
<1> QED
  BY <1>1, <1>2, <1>3, <1>4 DEF ScheduleStep

LEMMA GuardOver ==
  ASSUME TypeOK, NEW w \in Workers, AtRow(w), RowsOK(w), GuardStep(w)
  PROVE  AtRow(w)' /\ RowsOK(w)'
<1>0. PICK j \in Jobs : j = wk[w].job
  BY PlaceAfter DEF GuardStep, Execute, VoidOrderPaid, VoidOutcome, StubTokenRetry, RefuseLocally,
         ClaimForExecution, ClaimRefused
<1>1. wk[w].pc # "idle" /\ wk[w].pc \notin {"create", "duplicate", "record", "superseded"} /\ ~Calling(w) /\ UNCHANGED razorpay
  BY DEF GuardStep, Execute, VoidOrderPaid, VoidOutcome, StubTokenRetry, RefuseLocally,
         ClaimForExecution, ClaimRefused, Calling
<1>2. link[j] # "none" \/ j \in inflight => job[j].status \notin {"pending", "executing"}
  BY <1>0, <1>1 DEF RowsOK, Accounted
<1>3. UNCHANGED <<link, inflight, raced>>
  BY <1>1 DEF razorpay
<1>4. job[j].status \in {"pending", "executing"} => Alone(j)
  BY <1>1, OpenIsAlone DEF RowsOK
<1>5. CASE Execute(w)
  <2>1. job[j].status = "pending" /\ UNCHANGED job /\ wk[w].pc = "execute"
    BY <1>0, <1>5 DEF Execute, AtRow, db
  <2>2. wk'[w].job = j /\ wk'[w].pc \in {"void", "stub", "refuse", "claim"}
    BY <1>0, <1>1, <1>5, <2>1, PlaceAfter DEF Execute, Terminal
  <2>3. AtRow(w)'
    BY <2>1, <2>2 DEF AtRow, AfterClaim
  <2>4. RowsOK(w)'
    BY <1>1, <1>3, <2>1, MoveRows DEF AfterClaim
  <2> QED
    BY <2>3, <2>4
<1>6. CASE VoidOrderPaid(w)
  <2>1. wk'[w].pc = "voided" /\ wk[w].pc = "void"
    BY <1>6, GotoAt DEF VoidOrderPaid
  <2>2. job[j].status \in {"pending", "executing"}
    BY <1>0, <2>1 DEF AtRow
  <2>3. job'[j].status = "no_action" /\ \A k \in Jobs : k # j => job'[k] = job[k]
    BY <1>0, <1>6 DEF VoidOrderPaid, Commit, TypeOK, Row
  <2> QED
    BY <1>0, <1>1, <1>2, <1>3, <1>4, <2>1, <2>2, <2>3, AtNone, WriteRows
<1>7. CASE VoidOutcome(w)
  BY <1>1, <1>3, <1>7, AtNone, PlaceAfter, MoveRows DEF VoidOutcome, AfterClaim
<1>8. CASE StubTokenRetry(w)
  <2>1. wk'[w].pc = "finish" /\ wk'[w].status = "stubbed" /\ wk[w].pc = "stub"
    BY <1>8, GotoWithAt DEF StubTokenRetry
  <2>2. job[j].status = "pending"
    BY <1>0, <2>1 DEF AtRow
  <2>3. job'[j].status = "stubbed" /\ \A k \in Jobs : k # j => job'[k] = job[k]
    BY <1>0, <1>8 DEF StubTokenRetry, Commit, TypeOK, Row
  <2>4. AtRow(w)'
    BY <2>1 DEF AtRow, AfterClaim
  <2> QED
    BY <1>0, <1>1, <1>2, <1>3, <1>4, <2>2, <2>3, <2>4, WriteRows
<1>9. CASE RefuseLocally(w)
  <2>1. wk[w].pc = "refuse" /\ wk'[w].pc = "finish" /\ wk'[w].status = "failed" /\ wk'[w].job = j
    BY <1>0, <1>9, GotoWithAt DEF RefuseLocally
  <2>2. job[j].status = "pending"
    BY <1>0, <2>1 DEF AtRow
  <2>3. job'[j].status = "failed" /\ \A k \in Jobs : k # j => job'[k] = job[k]
    BY <1>0, <1>9 DEF RefuseLocally, Commit, TypeOK, Row
  <2>4. Alone(j)' /\ job'[j].status = "failed"
    BY <1>4, <2>2, <2>3, AloneStays
  <2>5. AtRow(w)'
    BY <2>1, <2>4 DEF AtRow, AfterClaim
  <2> QED
    BY <1>0, <1>1, <1>2, <1>3, <1>4, <2>2, <2>3, <2>5, WriteRows
<1>10. CASE ClaimForExecution(w)
  <2>1. job[j].status = "pending" /\ wk'[w].job = j /\ wk'[w].pc \in {"shadow", "direct", "check"}
    BY <1>0, <1>1, <1>10, PlaceAfter DEF ClaimForExecution
  <2>2. job'[j].status = "executing" /\ \A k \in Jobs : k # j => job'[k] = job[k]
    BY <1>0, <1>10 DEF ClaimForExecution, TypeOK, Row
  <2>4. AtRow(w)'
    BY <2>1, <2>2 DEF AtRow, AfterClaim
  <2>5. wk'[w].pc \in AfterClaim
    BY <2>1 DEF AfterClaim
  <2> QED
    BY <1>0, <1>1, <1>2, <1>3, <1>4, <2>1, <2>2, <2>4, <2>5, WriteRows
<1>11. CASE ClaimRefused(w)
  BY <1>0, <1>11 DEF ClaimRefused, AtRow
<1> QED
  BY <1>5, <1>6, <1>7, <1>8, <1>9, <1>10, <1>11 DEF GuardStep

-----------------------------------------------------------------------------
(* The steps after a claim. *)

\* A create call changes nothing but its own link.
LEMMA CallRows ==
  ASSUME NEW w, RowsOK(w), UNCHANGED job, wk[w].pc = "create", NEW j \in Jobs, wk[w].job = j,
         wk'[w].job = j, wk'[w].pc \in AfterClaim,
         \A k \in Jobs : k # j => link'[k] = link[k] /\ (k \in inflight' => k \in inflight),
         link'[j] # "none" \/ j \in inflight' => job[j].status = "executing" /\ Calling(w)'
  PROVE  RowsOK(w)'
<1>1. Claimed(w)'
  BY DEF RowsOK, Claimed
<1>2. InTurn(w)'
  BY DEF RowsOK, InTurn
<1>3. Accounted(w)'
  BY DEF RowsOK, Accounted
<1> QED
  BY <1>1, <1>2, <1>3 DEF RowsOK

LEMMA CreateOver ==
  ASSUME TypeOK, NEW w \in Workers, AtRow(w), RowsOK(w),
         CreateLink(w) \/ CreateDuplicate(w) \/ CreateRefused(w) \/ OfferRejected(w) \/ CreateUnanswered(w)
  PROVE  AtRow(w)' /\ RowsOK(w)'
<1>0. PICK j \in Jobs : j = wk[w].job
  BY PlaceAfter DEF CreateLink, CreateDuplicate, CreateRefused, OfferRejected, CreateUnanswered
<1>1. wk[w].pc = "create" /\ UNCHANGED <<job, raced>>
  BY DEF CreateLink, CreateDuplicate, CreateRefused, OfferRejected, CreateUnanswered, db, razorpay
<1>2. /\ job[j].status = "executing" /\ wk[w].kind \in AmbiguousKinds \cup {"none"}
      /\ \A k \in Jobs : k[1] = j[1] /\ k # j /\ link[k] # "none" => k \in raced
  BY <1>0, <1>1 DEF AtRow, AfterClaim
<1>3. link[j] # "none" \/ j \in inflight => wk[w].kind \in AmbiguousKinds
  BY <1>0, <1>1, <1>2 DEF RowsOK, Accounted, Calling
<1>4. "none" \notin AmbiguousKinds /\ "final_4xx" \notin AmbiguousKinds /\ "rate_limited" \notin AmbiguousKinds
  BY DEF AmbiguousKinds
<1>5. link \in [Jobs -> LinkStates]
  BY DEF TypeOK
\* The loop goes on, or ends in a result to record.
<1>6. ASSUME wk'[w].job = j,
             \A k \in Jobs : k # j => link'[k] = link[k] /\ (k \in inflight' => k \in inflight),
             \/ wk'[w].pc = "record" /\ wk'[w].status = "sent"
             \/ /\ \/ wk'[w].pc = "record" /\ wk'[w].status = "failed"
                   \/ wk'[w].pc = "create" /\ wk'[w].kind \in AmbiguousKinds \cup {"none"}
                /\ link'[j] # "none" \/ j \in inflight' => wk'[w].kind \in AmbiguousKinds
      PROVE  AtRow(w)' /\ RowsOK(w)'
  <2>1. AtRow(w)'
    BY <1>1, <1>2, <1>6 DEF AtRow, AfterClaim
  <2>2. link'[j] # "none" \/ j \in inflight' => job[j].status = "executing" /\ Calling(w)'
    BY <1>2, <1>6 DEF Calling
  <2>3. wk'[w].pc \in AfterClaim
    BY <1>6 DEF AfterClaim
  <2> QED
    BY <1>0, <1>1, <1>6, <2>1, <2>2, <2>3, CallRows
<1>7. CASE CreateLink(w)
  <2>1. wk'[w].pc = "record" /\ wk'[w].status = "sent" /\ wk'[w].job = j
    BY <1>0, <1>7, GotoWithAt DEF CreateLink
  <2>2. \A k \in Jobs : k # j => link'[k] = link[k] /\ (k \in inflight' => k \in inflight)
    BY <1>0, <1>5, <1>7 DEF CreateLink
  <2> QED
    BY <1>6, <2>1, <2>2
<1>8. CASE CreateDuplicate(w)
  <2>1. wk'[w].pc = "duplicate" /\ wk'[w].job = j /\ link[j] # "none" /\ UNCHANGED <<link, inflight>>
    BY <1>0, <1>8, GotoAt DEF CreateDuplicate, razorpay
  <2>2. AtRow(w)'
    BY <1>1, <1>2, <2>1 DEF AtRow, AfterClaim
  <2>3. Calling(w)' /\ wk'[w].pc \in AfterClaim
    BY <2>1 DEF Calling, AfterClaim
  <2> QED
    BY <1>0, <1>1, <1>2, <2>1, <2>2, <2>3, CallRows
<1>9. CASE CreateRefused(w)
  <2>1. PICK kind \in {"rate_limited", "final_4xx"} : AfterFailure(w, kind)
    BY <1>9 DEF CreateRefused
  <2>2. UNCHANGED <<link, inflight>>
    BY <1>9 DEF CreateRefused, razorpay
  <2>3. /\ wk'[w].job = j
        /\ \/ wk'[w].pc = "record" /\ wk'[w].status = "failed" /\ wk'[w].kind = FailureOf(w, kind)
           \/ wk'[w].pc = "create" /\ wk'[w].kind = wk[w].kind
    BY <1>0, <1>1, <1>4, <2>1, AfterFailureAt
  <2>4. link[j] # "none" \/ j \in inflight => FailureOf(w, kind) \in AmbiguousKinds
    BY <1>3, <1>4, <2>1 DEF FailureOf
  <2> QED
    BY <1>2, <1>3, <1>6, <2>2, <2>3, <2>4
<1>10. CASE OfferRejected(w)
  <2>1. wk[w].kind = "none"
    BY <1>2, <1>4, <1>10 DEF OfferRejected, FailureOf
  <2>2. UNCHANGED <<link, inflight>>
    BY <1>10 DEF OfferRejected, razorpay
  <2>3. wk'[w].pc = "create" /\ wk'[w].job = j /\ wk'[w].kind = "none"
    BY <1>0, <1>10 DEF OfferRejected, TypeOK, WorkerState
  <2> QED
    BY <1>3, <1>4, <1>6, <2>1, <2>2, <2>3
<1>11. CASE CreateUnanswered(w)
  <2>1. PICK kind \in AmbiguousKinds : AfterFailure(w, kind)
    BY <1>11 DEF CreateUnanswered
  <2>2. FailureOf(w, kind) = kind
    BY <2>1 DEF FailureOf
  <2>3. /\ wk'[w].job = j /\ wk'[w].kind \in AmbiguousKinds
        /\ \/ wk'[w].pc = "record" /\ wk'[w].status = "failed"
           \/ wk'[w].pc = "create"
    BY <1>0, <1>1, <2>1, <2>2, AfterFailureAt
  <2>4. \A k \in Jobs : k # j => link'[k] = link[k] /\ (k \in inflight' => k \in inflight)
    BY <1>0, <1>5, <1>11 DEF CreateUnanswered
  <2> QED
    BY <1>6, <2>3, <2>4
<1> QED
  BY <1>7, <1>8, <1>9, <1>10, <1>11

\* Of a payment whose open row is at its checks, what may have a link is known.
LEMMA EarlierOver ==
  ASSUME TypeOK, ~LookupFaults, NEW w \in Workers, AtRow(w), RowsOK(w),
         EarlierLanded(w) \/ EarlierNone(w) \/ Superseded(w)
  PROVE  AtRow(w)' /\ RowsOK(w)'
<1>0. PICK j \in Jobs : j = wk[w].job
  BY PlaceAfter DEF EarlierLanded, EarlierNone, Superseded
<1>1. wk[w].pc \in {"earlier", "superseded"} /\ ~Calling(w) /\ UNCHANGED razorpay
  BY DEF EarlierLanded, EarlierNone, Superseded, Calling
<1>2. job[j].status = "executing"
  BY <1>0, <1>1 DEF AtRow, AfterClaim
<1>3. link[j] = "none" /\ j \notin inflight /\ UNCHANGED <<link, inflight, raced>>
  BY <1>1, <1>2 DEF RowsOK, Accounted, razorpay
<1>4. wk[w].pc = "earlier" => Alone(j)
  BY <1>0, <1>2, OpenIsAlone DEF RowsOK
<1>5. CASE EarlierLanded(w)
  <2>1. PICK k \in LandedSuspects(j) : Commit(k, "sent", "none", TRUE)
    BY <1>0, <1>5 DEF EarlierLanded
  <2>2. wk'[w].pc = "superseded" /\ wk'[w].job = j /\ wk[w].pc = "earlier"
    BY <1>0, <1>5, GotoAt DEF EarlierLanded
  <2>3. k \in AmbiguousFailures(j)
    BY <2>1 DEF LandedSuspects, Suspects
  <2>4. PICK s \in 1..(j[2] - 1) : k = <<j[1], s>> /\ job[k].status = "failed"
    BY <2>3 DEF AmbiguousFailures
  <2>5. k \in Jobs /\ k # j /\ k[1] = j[1] /\ k[2] < j[2]
    BY <2>4, ConstantsAssumption DEF Jobs
  <2>6. job'[k].status = "sent" /\ \A i \in Jobs : i # k => job'[i] = job[i]
    BY <2>1, <2>5 DEF Commit, TypeOK, Row
  <2>7. AtRow(w)'
    BY <1>2, <2>2, <2>5, <2>6 DEF AtRow, AfterClaim
  <2>8. Claimed(w)'
    BY <1>0, <1>1, <2>2, <2>6 DEF RowsOK, Claimed, AfterClaim
  <2>9. InTurn(w)'
    <3> SUFFICES ASSUME NEW s1 \in Jobs, NEW t1 \in Jobs, s1[1] = t1[1], s1[2] < t1[2], job'[t1].status # "absent"
                 PROVE  \/ job'[s1].status = "failed"
                        \/ /\ job'[s1].status = "sent"
                           /\ job'[t1].status \in {"failed", "no_action"} \/ t1 = j
      BY <2>2 DEF InTurn
    <3>1. s1 # t1
      BY DEF Jobs
    <3>2. CASE s1 = k
      <4>1. CASE t1[2] < j[2]
        BY <1>4, <2>2, <2>5, <2>6, <3>1, <3>2, <4>1 DEF Alone
      <4>2. CASE t1[2] > j[2]
        BY <1>4, <2>2, <2>5, <2>6, <3>1, <3>2, <4>2 DEF Alone
      <4>3. CASE t1[2] = j[2]
        BY <2>5, <2>6, <3>2, <4>3 DEF Jobs
      <4> QED
        BY <4>1, <4>2, <4>3 DEF Jobs
    <3>3. CASE t1 = k
      <4>1. s1[2] < j[2] /\ s1[1] = j[1]
        BY <2>5, <3>3 DEF Jobs
      <4> QED
        BY <1>4, <2>2, <2>6, <3>1, <3>3, <4>1 DEF Alone
    <3>4. CASE s1 # k /\ t1 # k
      BY <2>2, <2>6, <3>4 DEF RowsOK, InTurn
    <3> QED
      BY <3>2, <3>3, <3>4
  <2>10. Accounted(w)'
    BY <1>1, <1>3, <2>6 DEF RowsOK, Accounted
  <2> QED
    BY <2>7, <2>8, <2>9, <2>10 DEF RowsOK
<1>6. CASE EarlierNone(w)
  <2>1. wk[w].pc = "earlier" /\ LandedSuspects(j) = {} /\ UNCHANGED job
    BY <1>0, <1>6 DEF EarlierNone, db
  <2>2. wk'[w].pc = "create" /\ wk'[w].job = j /\ wk'[w].kind = "none"
    BY <1>0, <1>6 DEF EarlierNone, TypeOK, WorkerState
  <2>3. ASSUME NEW k \in Jobs, k[1] = j[1], k # j PROVE link[k] = "none"
    <3>1. CASE k[2] < j[2]
      <4>1. job[k].status = "failed"
        BY <1>4, <2>1, <2>3, <3>1 DEF Alone
      <4>2. SUFFICES ASSUME link[k] # "none" PROVE FALSE
        OBVIOUS
      <4>3. job[k].kind \in AmbiguousKinds
        BY <4>1, <4>2 DEF RowsOK, Accounted
      <4>4. k = <<j[1], k[2]>> /\ k[2] \in 1..(j[2] - 1)
        BY <2>3, <3>1 DEF Jobs
      <4>5. k \in LandedSuspects(j)
        BY <4>1, <4>2, <4>3, <4>4 DEF LandedSuspects, Suspects, AmbiguousFailures
      <4> QED
        BY <2>1, <4>5
    <3>2. CASE k[2] > j[2]
      BY <1>4, <2>1, <2>3, <3>2 DEF Alone, RowsOK, Accounted
    <3> QED
      BY <2>3, <3>1, <3>2 DEF Jobs
  <2>4. AtRow(w)'
    BY <1>2, <1>3, <2>1, <2>2, <2>3 DEF AtRow, AfterClaim
  <2>5. wk'[w].pc \in AfterClaim
    BY <2>2 DEF AfterClaim
  <2> QED
    BY <1>0, <1>1, <1>3, <2>1, <2>2, <2>4, <2>5, MoveRows
<1>7. CASE Superseded(w)
  <2>1. wk[w].pc = "superseded" /\ wk'[w].pc = "idle"
    BY <1>7, DoneAt DEF Superseded
  <2>2. job'[j].status = "no_action" /\ \A k \in Jobs : k # j => job'[k] = job[k]
    BY <1>0, <1>7 DEF Superseded, Commit, TypeOK, Row
  <2>3. Claimed(w)'
    BY <1>0, <2>2 DEF RowsOK, Claimed
  <2>4. InTurn(w)'
    <3> SUFFICES ASSUME NEW s \in Jobs, NEW t \in Jobs, s[1] = t[1], s[2] < t[2], job'[t].status # "absent"
                 PROVE  \/ job'[s].status = "failed"
                        \/ job'[s].status = "sent" /\ job'[t].status \in {"failed", "no_action"}
      BY DEF InTurn
    <3>1. s # t
      BY DEF Jobs
    <3>2. job[t].status # "absent"
      BY <1>2, <2>2
    <3>3. job[s].status \in {"failed", "sent"} /\ (job[s].status = "sent" => job[t].status \in {"failed", "no_action"} \/ t = j)
      BY <1>0, <3>2 DEF RowsOK, InTurn
    <3> QED
      BY <1>2, <2>2, <3>1, <3>3
  <2>5. Accounted(w)'
    BY <1>1, <1>3, <2>2 DEF RowsOK, Accounted
  <2> QED
    BY <2>1, <2>3, <2>4, <2>5, AtNone DEF RowsOK
<1> QED
  BY <1>5, <1>6, <1>7

LEMMA SendOver ==
  ASSUME TypeOK, ~LookupFaults, NEW w \in Workers, AtRow(w), RowsOK(w), SendStep(w)
  PROVE  AtRow(w)' /\ RowsOK(w)'
<1>1. CASE CreateLink(w) \/ CreateDuplicate(w) \/ CreateRefused(w) \/ OfferRejected(w) \/ CreateUnanswered(w)
  BY <1>1, CreateOver
<1>2. CASE EarlierLanded(w) \/ EarlierNone(w) \/ Superseded(w)
  BY <1>2, EarlierOver
<1>3. CASE FinishShadow(w) \/ SendSubscriptionPage(w) \/ OrderCheckPaid(w) \/ OrderCheckPasses(w)
           \/ FinishDuplicate(w) \/ RecordResult(w)
  <2>0. PICK j \in Jobs : j = wk[w].job
    BY <1>3, PlaceAfter DEF FinishShadow, SendSubscriptionPage, OrderCheckPaid, OrderCheckPasses,
           FinishDuplicate, RecordResult
  <2>1. wk[w].pc \in {"shadow", "direct", "check", "duplicate", "record"} /\ UNCHANGED <<link, inflight, raced>>
    BY <1>3 DEF FinishShadow, SendSubscriptionPage, OrderCheckPaid, OrderCheckPasses,
           FinishDuplicate, RecordResult, razorpay
  <2>2. job[j].status = "executing"
    BY <2>0, <2>1 DEF AtRow, AfterClaim
  <2>3. Alone(j)
    BY <2>0, <2>1, <2>2, OpenIsAlone DEF RowsOK
  <2>4. link[j] # "none" \/ j \in inflight => Calling(w)
    BY <2>2 DEF RowsOK, Accounted
  \* The row is committed with the status the worker goes on with.
  <2>5. ASSUME NEW status, status # "executing", job'[j].status = status, \A k \in Jobs : k # j => job'[k] = job[k],
               wk'[w].pc = "finish", wk'[w].job = j, wk'[w].status = status,
               link[j] # "none" \/ j \in inflight =>
                 status = "sent" \/ (status = "failed" /\ job'[j].kind \in AmbiguousKinds)
        PROVE  AtRow(w)' /\ RowsOK(w)'
    <3>1. RowsOK(w)'
      BY <2>0, <2>1, <2>3, <2>5, WriteRows
    <3>2. Alone(j)'
      BY <2>3, <2>5, AloneStays
    <3>3. AtRow(w)'
      BY <2>5, <3>2 DEF AtRow, AfterClaim
    <3> QED
      BY <3>1, <3>3
  <2>6. CASE FinishShadow(w)
    <3>1. wk'[w].pc = "finish" /\ wk'[w].job = j /\ wk'[w].status = "shadow" /\ wk[w].pc = "shadow"
      BY <2>0, <2>6, GotoWithAt DEF FinishShadow
    <3>2. job'[j].status = "shadow" /\ \A k \in Jobs : k # j => job'[k] = job[k]
      BY <2>0, <2>6 DEF FinishShadow, Commit, TypeOK, Row
    <3>3. ~Calling(w)
      BY <3>1 DEF Calling
    <3> QED
      BY <2>4, <2>5, <3>1, <3>2, <3>3
  <2>7. CASE SendSubscriptionPage(w)
    <3>1. wk'[w].pc = "finish" /\ wk'[w].job = j /\ wk'[w].status = "sent"
      BY <2>0, <2>7, GotoWithAt DEF SendSubscriptionPage
    <3>2. job'[j].status = "sent" /\ \A k \in Jobs : k # j => job'[k] = job[k]
      BY <2>0, <2>7 DEF SendSubscriptionPage, Commit, TypeOK, Row
    <3> QED
      BY <2>5, <3>1, <3>2
  <2>8. CASE OrderCheckPaid(w) \/ OrderCheckPasses(w)
    <3>1. wk'[w].pc \in {"void", "earlier"} /\ wk'[w].job = j /\ wk[w].pc = "check" /\ UNCHANGED job
      BY <2>0, <2>8, GotoAt DEF OrderCheckPaid, OrderCheckPasses, db
    <3>2. AtRow(w)'
      BY <2>2, <3>1 DEF AtRow, AfterClaim
    <3>3. ~Calling(w) /\ wk'[w].pc \in AfterClaim \cup {"void"}
      BY <3>1 DEF Calling, AfterClaim
    <3> QED
      BY <2>0, <2>1, <3>1, <3>2, <3>3, MoveRows
  <2>9. CASE FinishDuplicate(w)
    <3>1. link[j] # "none"
      BY <2>0, <2>9 DEF FinishDuplicate, AtRow
    <3>2. LookupByReference(j) = {"found"}
      BY <3>1 DEF LookupByReference
    <3>3. Commit(wk[w].job, "sent", "none", TRUE) /\ GotoWith(w, "finish", "sent", "none")
      BY <2>0, <2>9, <3>2 DEF FinishDuplicate
    <3>4. wk'[w].pc = "finish" /\ wk'[w].job = j /\ wk'[w].status = "sent"
      BY <2>0, <3>3, GotoWithAt
    <3>5. job'[j].status = "sent" /\ \A k \in Jobs : k # j => job'[k] = job[k]
      BY <2>0, <3>3 DEF Commit, TypeOK, Row
    <3> QED
      BY <2>5, <3>4, <3>5
  <2>10. CASE RecordResult(w)
    <3>1. PICK status, kind : status = wk[w].status /\ kind = wk[w].kind
      OBVIOUS
    <3>2. wk'[w].pc = "finish" /\ wk'[w].job = j /\ wk'[w].status = status /\ wk[w].pc = "record"
      BY <2>0, <2>10, <3>1, GotoAt DEF RecordResult
    <3>3. job'[j].status = status /\ job'[j].kind = kind /\ \A k \in Jobs : k # j => job'[k] = job[k]
      BY <2>0, <2>10, <3>1 DEF RecordResult, Commit, TypeOK, Row
    <3>4. status \in {"sent", "failed"}
      BY <3>1, <3>2 DEF AtRow
    <3>5. Calling(w) => status = "sent" \/ (status = "failed" /\ kind \in AmbiguousKinds)
      BY <3>1, <3>2 DEF Calling
    <3> QED
      BY <2>4, <2>5, <3>2, <3>3, <3>4, <3>5
  <2> QED
    BY <1>3, <2>6, <2>7, <2>8, <2>9, <2>10
<1> QED
  BY <1>1, <1>2, <1>3 DEF SendStep

LEMMA FinishOver ==
  ASSUME TypeOK, ~LookupFaults, NEW w \in Workers, AtRow(w), RowsOK(w), FinishStep(w)
  PROVE  AtRow(w)' /\ RowsOK(w)'
<1>0. PICK j \in Jobs : j = wk[w].job
  BY PlaceAfter DEF FinishStep, FinishSent, FinishClosed, FinishThrottled, Reconcile, FinishOther, Close
<1>1. wk[w].pc \in {"finish", "close"} /\ UNCHANGED <<link, inflight, raced>>
  BY DEF FinishStep, FinishSent, FinishClosed, FinishThrottled, Reconcile, FinishOther, Close, razorpay
<1>2. wk[w].pc \notin AfterClaim \cup {"void", "superseded"} /\ ~Calling(w)
  BY <1>1 DEF AfterClaim, Calling
<1>3. ASSUME \A k \in Jobs : job'[k].status = job[k].status /\ job'[k].kind = job[k].kind,
             wk'[w].pc \in {"idle", "close"}
      PROVE  AtRow(w)' /\ RowsOK(w)'
  BY <1>1, <1>2, <1>3, AtNone, MoveRows
<1>4. ASSUME wk'[w].pc = "followup", wk'[w].job = j, wk[w].pc = "finish", wk[w].status = "failed", UNCHANGED job
      PROVE  AtRow(w)' /\ RowsOK(w)'
  <2>1. Alone(j) /\ job[j].status = "failed"
    BY <1>0, <1>4 DEF AtRow
  <2>2. AtRow(w)'
    BY <1>4, <2>1 DEF AtRow, Alone, AfterClaim
  <2> QED
    BY <1>1, <1>2, <1>4, <2>2, MoveRows
<1>5. CASE FinishSent(w)
  <2>1. \A k \in Jobs : job'[k].status = job[k].status /\ job'[k].kind = job[k].kind
    BY <1>0, <1>5 DEF FinishSent, TypeOK, Row
  <2> QED
    BY <1>3, <1>5, <2>1, DoneAt DEF FinishSent
<1>6. CASE FinishClosed(w)
  <2>1. wk'[w].pc \in {"idle", "close"} /\ UNCHANGED job
    BY <1>6, DoneAt, GotoAt DEF FinishClosed, ToClose, db
  <2> QED
    BY <1>3, <2>1
<1>7. CASE FinishThrottled(w)
  BY <1>0, <1>4, <1>7, GotoAt DEF FinishThrottled, db
<1>8. CASE Reconcile(w)
  <2>1. wk[w].pc = "finish" /\ wk[w].status = "failed"
    BY <1>8 DEF Reconcile
  <2>2. \/ Commit(wk[w].job, "sent", "none", TRUE) /\ GotoWith(w, "finish", "sent", "none")
        \/ Goto(w, "followup") /\ UNCHANGED job
        \/ ToClose(w) /\ UNCHANGED job
    BY <1>8 DEF Reconcile
  <2>3. CASE Commit(wk[w].job, "sent", "none", TRUE) /\ GotoWith(w, "finish", "sent", "none")
    <3>1. wk'[w].pc = "finish" /\ wk'[w].status = "sent"
      BY <2>3, GotoWithAt
    <3>2. job'[j].status = "sent" /\ \A k \in Jobs : k # j => job'[k] = job[k]
      BY <1>0, <2>3 DEF Commit, TypeOK, Row
    <3>3. Alone(j)
      BY <1>0, <2>1 DEF AtRow
    <3>4. AtRow(w)'
      BY <3>1 DEF AtRow, AfterClaim
    <3> QED
      BY <1>0, <1>1, <1>2, <3>2, <3>3, <3>4, WriteRows
  <2>4. CASE Goto(w, "followup") /\ UNCHANGED job
    BY <1>0, <1>4, <2>1, <2>4, GotoAt
  <2>5. CASE ToClose(w) /\ UNCHANGED job
    BY <1>3, <2>5, DoneAt, GotoAt DEF ToClose
  <2> QED
    BY <2>2, <2>3, <2>4, <2>5
<1>9. CASE FinishOther(w)
  BY <1>3, <1>9, DoneAt DEF FinishOther, db
<1>10. CASE Close(w)
  BY <1>3, <1>10, DoneAt DEF Close
<1> QED
  BY <1>5, <1>6, <1>7, <1>8, <1>9, <1>10 DEF FinishStep

-----------------------------------------------------------------------------
(* Something new, and the environment. *)

\* No claim is left to a process that is about to sweep.
LEMMA BeginOver ==
  ASSUME TypeOK, NEW w \in Workers, AtRow(w), RowsOK(w), Begin(w)
  PROVE  AtRow(w)' /\ RowsOK(w)'
<1>1. wk[w].pc = "idle" /\ UNCHANGED <<job, link, inflight>>
  BY DEF Begin, ProcessAttempt, Sweep, db, razorpay
<1>2. RowsOK(w)'
  <2>1. wk[w].pc \notin AfterClaim \cup {"void", "superseded"} /\ ~Calling(w)
    BY <1>1 DEF AfterClaim, Calling
  <2> QED
    BY <1>1, <2>1, MoveRows
<1>3. ASSUME NEW p \in Payments, ProcessAttempt(w, p) PROVE AtRow(w)'
  <2>1. wk'[w].pc = "insert" /\ wk'[w].job = <<p, 1>>
    BY <1>3 DEF ProcessAttempt, TypeOK, Idle
  <2>2. wk'[w].job[2] = 1
    BY <2>1
  <2> QED
    BY <2>1, <2>2 DEF AtRow, AfterClaim
<1>4. ASSUME NEW j \in Jobs, Sweep(w, j) PROVE AtRow(w)'
  <2>1. job[j].status # "executing"
    BY <1>1 DEF RowsOK, Claimed, AfterClaim
  <2>2. job[j].status = "pending"
    BY <1>4, <2>1 DEF Sweep, DueStatuses
  <2>3. wk'[w].pc = "execute" /\ wk'[w].job = j
    BY <1>4, <2>1 DEF Sweep, TypeOK, Idle
  <2> QED
    BY <1>1, <2>2, <2>3 DEF AtRow, AfterClaim
<1> QED
  BY <1>2, <1>3, <1>4 DEF Begin

LEMMA EnvironmentOver ==
  ASSUME TypeOK, ~Crashes, NEW w \in Workers, AtRow(w), RowsOK(w), Environment
  PROVE  AtRow(w)' /\ RowsOK(w)'
<1>1. UNCHANGED <<db, wk>>
  BY DEF Environment, Land, Capture, Crash
<1>2. CASE UNCHANGED <<link, inflight, raced>>
  <2>1. UNCHANGED <<job, wk, link, inflight, raced>>
    BY <1>1, <1>2 DEF db
  <2>2. AtRow(w)'
    BY <2>1 DEF AtRow, Alone
  <2>3. RowsOK(w)'
    BY <2>1 DEF RowsOK, Claimed, InTurn, Accounted, Calling
  <2> QED
    BY <2>2, <2>3
<1>3. ASSUME NEW i \in Jobs, Land(i) PROVE AtRow(w)' /\ RowsOK(w)'
  <2>0. UNCHANGED <<job, wk>>
    BY <1>1 DEF db
  <2>1. /\ i \in inflight /\ inflight' \subseteq inflight
        /\ \A k \in Jobs : k # i => link'[k] = link[k]
        /\ \A k \in Jobs : link[k] # "none" => link'[k] # "none"
    BY <1>3 DEF Land, TypeOK
  <2>2. raced \subseteq raced'
    BY <1>3 DEF Land
  <2>3. wk[w].pc = "create" /\ wk[w].job[1] = i[1] /\ wk[w].job # i => i \in raced'
    BY <1>3 DEF Land
  <2>4. AtRow(w)'
    <3>1. ASSUME wk[w].pc = "create", NEW k \in Jobs, k[1] = wk[w].job[1], k # wk[w].job, link'[k] # "none"
          PROVE  k \in raced'
      <4>1. CASE k = i
        BY <2>3, <3>1, <4>1
      <4>2. CASE k # i
        BY <2>1, <2>2, <3>1, <4>2 DEF AtRow
      <4> QED
        BY <4>1, <4>2
    <3>2. wk[w].pc = "duplicate" => link'[wk[w].job] # "none"
      <4>1. wk[w].pc = "duplicate" => wk[w].job \in Jobs
        BY PlaceAfter
      <4> QED
        BY <2>1, <4>1 DEF AtRow
    <3> QED
      BY <2>0, <3>1, <3>2 DEF AtRow, Alone, AfterClaim
  <2>5. RowsOK(w)'
    <3>1. Claimed(w)' /\ InTurn(w)'
      BY <2>0 DEF RowsOK, Claimed, InTurn
    <3>2. \A k \in Jobs : link'[k] # "none" \/ k \in inflight' => link[k] # "none" \/ k \in inflight
      BY <2>1
    <3>3. Accounted(w)'
      BY <2>0, <3>2 DEF RowsOK, Accounted, Calling
    <3> QED
      BY <3>1, <3>3 DEF RowsOK
  <2> QED
    BY <2>4, <2>5
<1> QED
  BY <1>2, <1>3 DEF Environment, Capture, Crash

LEMMA OverStep ==
  ASSUME Serial, ~Crashes, ~LookupFaults, TypeOK, OverInv, [Next]_vars
  PROVE  OverInv'
<1> SUFFICES ASSUME NEW w \in Workers
             PROVE  AtRow(w)' /\ RowsOK(w)'
  BY DEF OverInv
<1>1. AtRow(w) /\ RowsOK(w)
  BY DEF OverInv
<1>2. CASE UNCHANGED vars
  <2>1. UNCHANGED <<job, wk, link, inflight, raced>>
    BY <1>2 DEF vars
  <2>2. AtRow(w)'
    BY <1>1, <2>1 DEF AtRow, Alone
  <2>3. RowsOK(w)'
    BY <1>1, <2>1 DEF RowsOK, Claimed, InTurn, Accounted, Calling
  <2> QED
    BY <2>2, <2>3
<1>3. CASE Environment
  BY <1>1, <1>3, EnvironmentOver
<1>4. ASSUME NEW v \in Workers, Begin(v) \/ Step(v) PROVE AtRow(w)' /\ RowsOK(w)'
  <2>1. v = w
    BY DEF Serial
  <2>2. ~RecoverStep(w)
    BY <1>1 DEF RecoverStep, RecoverLookup, RecoverStaleExecution, AtRow
  <2> QED
    BY <1>1, <1>4, <2>1, <2>2, ScheduleOver, GuardOver, SendOver, FinishOver, BeginOver DEF Step
<1> QED
  BY <1>2, <1>3, <1>4 DEF Next

LEMMA OverInit == Init => OverInv
<1> SUFFICES ASSUME Init, NEW w \in Workers PROVE AtRow(w) /\ RowsOK(w)
  BY DEF OverInv
<1>1. wk[w].pc = "idle" /\ \A j \in Jobs : job[j].status = "absent" /\ link[j] = "none" /\ j \notin inflight
  BY DEF Init, Idle, NoRow
<1> QED
  BY <1>1 DEF AtRow, AfterClaim, RowsOK, Claimed, InTurn, Accounted

\* A create call is the only step that makes a link of a request not under way.
LEMMA CallMakesLink ==
  ASSUME TypeOK, [Next]_vars, NEW j \in Jobs, NewLink(j), j \notin inflight
  PROVE  \E w \in Workers : wk[w].pc = "create" /\ j = wk[w].job
<1>0. link \in [Jobs -> LinkStates]
  BY DEF TypeOK
<1>1. link'[j] # link[j]
  BY DEF NewLink
<1>2. ~UNCHANGED link
  BY <1>1
<1>3. ~Environment
  <2>1. ASSUME NEW i \in Jobs, Land(i) PROVE FALSE
    BY <1>0, <1>1, <2>1 DEF Land
  <2> QED
    BY <1>2, <2>1 DEF Environment, Capture, Crash, razorpay
<1>4. PICK w \in Workers : Begin(w) \/ Step(w)
  BY <1>2, <1>3 DEF Next, vars
<1>5. CreateLink(w) \/ CreateUnanswered(w)
  <2>1. ~Begin(w) /\ ~ScheduleStep(w) /\ ~RecoverStep(w) /\ ~GuardStep(w) /\ ~FinishStep(w)
    BY <1>2 DEF Begin, ProcessAttempt, Sweep, ScheduleStep, Followup, InsertDuplicate, Insert, Park,
         RecoverStep, RecoverLookup, RecoverStaleExecution, GuardStep, Execute, VoidOrderPaid, VoidOutcome,
         StubTokenRetry, RefuseLocally, ClaimForExecution, ClaimRefused, FinishStep, FinishSent, FinishClosed,
         FinishThrottled, Reconcile, FinishOther, Close, razorpay
  <2> QED
    BY <1>2, <1>4, <2>1 DEF Step, SendStep, FinishShadow, SendSubscriptionPage, OrderCheckPaid,
         OrderCheckPasses, EarlierLanded, EarlierNone, Superseded, CreateDuplicate, CreateRefused, OfferRejected,
         FinishDuplicate, RecordResult, razorpay
<1>6. wk[w].pc = "create"
  BY <1>5 DEF CreateLink, CreateUnanswered
<1>7. j = wk[w].job
  <2>1. CASE CreateLink(w)
    BY <1>0, <1>1, <2>1 DEF CreateLink
  <2>2. CASE CreateUnanswered(w)
    BY <1>0, <1>1, <2>2 DEF CreateUnanswered
  <2> QED
    BY <1>5, <2>1, <2>2
<1> QED
  BY <1>6, <1>7

(* With one process that does not die and lookups that answer, a follow-up   *)
(* makes no link beside a link of an earlier attempt of its payment that    *)
(* landed late, however the answers of the create calls and of the lookups  *)
(* fall, unless it landed while the create call was being made              *)
(* (_earlier_landed of executor.py).                                        *)
THEOREM FollowupMakesNoSecondLink ==
  ASSUME Serial, ~Crashes, ~LookupFaults
  PROVE  Spec => NoCreateOverLanded
<1>1. TypeOK /\ OverInv /\ [Next]_vars => OverInv'
  BY OverStep
<1>2. TypeOK /\ OverInv /\ [Next]_vars
        => [\A j \in Jobs : NewLink(j) /\ j \notin inflight =>
              \A k \in Jobs : k[1] = j[1] /\ Live(k) => k \in raced]_vars
  <2> SUFFICES ASSUME TypeOK, OverInv, [Next]_vars, NEW j \in Jobs, NewLink(j), j \notin inflight,
                      NEW k \in Jobs, k[1] = j[1], Live(k)
               PROVE  k \in raced
    OBVIOUS
  <2>1. PICK w \in Workers : wk[w].pc = "create" /\ j = wk[w].job
    BY CallMakesLink
  <2>2. AtRow(w)
    BY DEF OverInv
  <2>3. link[k] # "none" /\ k # j
    BY DEF Live, NewLink
  <2> QED
    BY <2>1, <2>2, <2>3 DEF AtRow
<1> QED
  BY <1>1, <1>2, OverInit, TypeCorrect, PTL DEF Spec, NoCreateOverLanded

-----------------------------------------------------------------------------
(* The first of a set of jobs is one of them. *)

LEMMA FirstIsMember ==
  ASSUME NEW T \in SUBSET Jobs, T # {}
  PROVE  First(T) \in T
<1> DEFINE Down == {MaxSeq + 1 - j[2] : j \in T}
<1>1. \A j \in T : j[2] \in 1..MaxSeq
  BY DEF Jobs
<1>2. Down \in SUBSET (1..MaxSeq) /\ Down # {} /\ MaxSeq \in Nat
  BY <1>1, ConstantsAssumption
<1>3. PICK x \in Down : \A y \in Down : y <= x
  BY <1>2, LargestExists
<1>4. PICK j \in T : x = MaxSeq + 1 - j[2]
  BY <1>3
<1>5. \A k \in T : MaxSeq + 1 - k[2] <= MaxSeq + 1 - j[2]
  BY <1>3, <1>4
<1>6. \A k \in T : j[2] <= k[2]
  BY <1>1, <1>2, <1>5
<1> QED
  BY <1>6 DEF First

-----------------------------------------------------------------------------
(* Type correctness. *)

HandlerState ==
  [pc : HandlerPcs, job : Jobs \cup {NoJob}, order : Orders \cup {"none"}, todo : SUBSET Ordered,
   pending : SUBSET Jobs, live : SUBSET Jobs, seen : LinkStates]

(* The positions that have a job, or an order, at hand. *)
JobPcs == {"paid", "recovered", "expired", "lapsed", "cancelled", "parked", "closed", "fetch", "polled"}
OrderPcs == {"mark"}

HandlerTypeOK ==
  /\ hd \in [Workers -> HandlerState]
  /\ \A w \in Workers : hd[w].pc \in JobPcs => hd[w].job \in Jobs
  /\ \A w \in Workers : hd[w].pc \in OrderPcs => hd[w].order \in Orders

OneSide == \A w \in Workers : hd[w].pc # "idle" => wk[w] = Idle

STypeInv == TypeOK /\ HandlerTypeOK /\ OneSide

LEMMA STypeInvImplies == STypeInv => SettlementTypeOK
BY DEF STypeInv, HandlerTypeOK, HandlerState, OneSide, SettlementTypeOK

(* A process that executes moves itself only. *)
LEMMA ExecutionMoves ==
  ASSUME NEW w \in Workers, Begin(w) \/ Step(w)
  PROVE  \E r : wk' = [wk EXCEPT ![w] = r]
<1>1. ASSUME ScheduleStep(w) PROVE \E r : wk' = [wk EXCEPT ![w] = r]
  BY <1>1 DEF ScheduleStep, Followup, InsertDuplicate, Insert, Park, Done, GotoWith
<1>2. ASSUME RecoverStep(w) \/ GuardStep(w) PROVE \E r : wk' = [wk EXCEPT ![w] = r]
  BY <1>2 DEF RecoverStep, RecoverLookup, RecoverStaleExecution, GuardStep, Execute, VoidOrderPaid, VoidOutcome,
         StubTokenRetry, RefuseLocally, ClaimForExecution, ClaimRefused, Done, Goto, GotoWith
<1>3. ASSUME SendStep(w) PROVE \E r : wk' = [wk EXCEPT ![w] = r]
  BY <1>3 DEF SendStep, FinishShadow, SendSubscriptionPage, OrderCheckPaid, OrderCheckPasses,
         EarlierLanded, EarlierNone, Superseded, CreateLink, CreateDuplicate, CreateRefused,
         OfferRejected, CreateUnanswered, FinishDuplicate, RecordResult, AfterFailure, Done, Goto, GotoWith
<1>4. ASSUME FinishStep(w) PROVE \E r : wk' = [wk EXCEPT ![w] = r]
  BY <1>4 DEF FinishStep, FinishSent, FinishClosed, FinishThrottled, Reconcile, FinishOther, Close, ToClose,
         Done, Goto, GotoWith
<1>5. ASSUME Begin(w) PROVE \E r : wk' = [wk EXCEPT ![w] = r]
  BY <1>5 DEF Begin, ProcessAttempt, Sweep
<1> QED
  BY <1>1, <1>2, <1>3, <1>4, <1>5 DEF Step

LEMMA ExecutionType ==
  ASSUME STypeInv, NEW w \in Workers, Execution(w)
  PROVE  STypeInv'
<1>1. TypeOK'
  BY BeginType, ScheduleType, RecoverType, GuardType, SendType, FinishType DEF Execution, Step, STypeInv
<1>2. PICK r : wk' = [wk EXCEPT ![w] = r]
  BY ExecutionMoves DEF Execution
<1>3. hd[w].pc = "idle" /\ UNCHANGED hd
  BY DEF Execution, NoHandler
<1>4. OneSide'
  BY <1>2, <1>3 DEF STypeInv, OneSide, TypeOK
<1> QED
  BY <1>1, <1>3, <1>4 DEF STypeInv, HandlerTypeOK

(* A handler that moves to a well-formed record while its process stays idle. *)
LEMMA HandlerMove ==
  ASSUME STypeInv, NEW w \in Workers, NEW r \in HandlerState, hd' = [hd EXCEPT ![w] = r], UNCHANGED wk,
         wk[w] = Idle, r.pc \in JobPcs => r.job \in Jobs, r.pc \in OrderPcs => r.order \in Orders
  PROVE  HandlerTypeOK' /\ OneSide'
BY DEF STypeInv, HandlerTypeOK, OneSide

LEMMA NoHandlerType == NoHandler \in HandlerState /\ NoHandler.pc = "idle"
BY DEF NoHandler, HandlerState, HandlerPcs, LinkStates

LEMMA AnsweredType ==
  ASSUME STypeInv, NEW w \in Workers, Answered(w), wk' \in [Workers -> WorkerState],
         \A v \in Workers \ {w} : wk'[v] = wk[v]
  PROVE  HandlerTypeOK' /\ OneSide'
BY NoHandlerType DEF STypeInv, HandlerTypeOK, OneSide, Answered, JobPcs, OrderPcs

LEMMA HandleType ==
  ASSUME STypeInv, NEW w \in Workers, NEW pc \in HandlerPcs, Handle(w, pc), UNCHANGED wk, hd[w].pc # "idle",
         pc \in JobPcs => hd[w].job \in Jobs, pc \notin OrderPcs
  PROVE  HandlerTypeOK' /\ OneSide'
<1> DEFINE r == [hd[w] EXCEPT !.pc = pc]
<1>1. r \in HandlerState /\ r.pc = pc /\ r.job = hd[w].job /\ wk[w] = Idle
  BY DEF STypeInv, HandlerTypeOK, HandlerState, OneSide
<1> QED
  BY <1>1, HandlerMove DEF Handle

(* What a handler does to the tables. *)
LEMMA SettleTables ==
  ASSUME TypeOK, NEW j \in Jobs, NEW result \in {"recovered", "lost"}, RecordOutcome(j, result)
  PROVE  outcome' \in [Jobs -> Seq({"recovered", "lost"})]
BY DEF RecordOutcome, TypeOK

LEMMA SameTables ==
  ASSUME STypeInv, UNCHANGED vars
  PROVE  TypeOK' /\ wk' \in [Workers -> WorkerState] /\ UNCHANGED wk
BY DEF STypeInv, TypeOK, vars

LEMMA PaidType ==
  ASSUME STypeInv, NEW w \in Workers, PaidIgnored(w) \/ PaidChecked(w) \/ ClosePaidLink(w)
  PROVE  STypeInv'
<1> DEFINE j == hd[w].job
<1>1. j \in Jobs /\ hd[w] \in HandlerState /\ hd[w].pc # "idle" /\ wk[w] = Idle
  BY DEF STypeInv, HandlerTypeOK, OneSide, PaidIgnored, PaidChecked, ClosePaidLink, JobPcs
<1>2. CASE PaidIgnored(w)
  BY <1>2, SameTables, AnsweredType DEF PaidIgnored, STypeInv
<1>3. CASE PaidChecked(w)
  BY <1>1, <1>3, SameTables, HandleType DEF PaidChecked, STypeInv, HandlerPcs, OrderPcs
<1>4. CASE ClosePaidLink(w)
  <2>1. TypeOK'
    <3>1. job' \in [Jobs -> Row]
      <4>1. job \in [Jobs -> Row] /\ job[j].kind \in FailureKinds \cup {"none"}
        BY <1>1 DEF STypeInv, TypeOK, Row
      <4>2. "sent" \in Statuses /\ TRUE \in BOOLEAN
        BY DEF Statuses, Terminal
      <4>3. ASSUME Commit(j, "sent", job[j].kind, TRUE) PROVE job' \in [Jobs -> Row]
        BY <1>1, <4>1, <4>2, <4>3, CommitType
      <4> QED
        BY <1>4, <4>1, <4>3 DEF ClosePaidLink
    <3>2. outcome' \in [Jobs -> Seq({"recovered", "lost"})]
      BY <1>1, <1>4, SettleTables DEF ClosePaidLink, STypeInv
    <3> QED
      BY <1>4, <3>1, <3>2 DEF ClosePaidLink, STypeInv, TypeOK, payments, razorpay
  <2>2. CASE Answered(w)
    BY <1>4, <2>1, <2>2, AnsweredType DEF ClosePaidLink, STypeInv, TypeOK
  <2>3. CASE hd' = [hd EXCEPT ![w] = [NoHandler EXCEPT !.pc = "mark", !.order = OrderOf[j[1]]]]
    <3> DEFINE r == [NoHandler EXCEPT !.pc = "mark", !.order = OrderOf[j[1]]]
    <3>1. OrderOf[j[1]] \in Orders
      BY <1>1 DEF Orders, Jobs
    <3>2. r \in HandlerState /\ r.pc = "mark" /\ r.order = OrderOf[j[1]]
      BY <3>1, NoHandlerType DEF HandlerState, HandlerPcs, NoHandler
    <3> QED
      BY <1>1, <1>4, <2>1, <2>3, <3>1, <3>2, HandlerMove DEF ClosePaidLink, STypeInv, JobPcs
  <2> QED
    BY <1>4, <2>2, <2>3 DEF ClosePaidLink
<1> QED
  BY <1>2, <1>3, <1>4

LEMMA OrderType ==
  ASSUME STypeInv, NEW w \in Workers,
         MarkOrderPaid(w) \/ TakeAttempt(w) \/ AttemptsDone(w) \/ VoidPending(w)
           \/ CancelLink(w) \/ CancelSkipped(w) \/ RecordCancel(w) \/ CloseStopped(w)
  PROVE  STypeInv'
<1> DEFINE h == hd[w]
<1>1. h \in HandlerState /\ h.pc # "idle" /\ wk[w] = Idle /\ TypeOK
  BY DEF STypeInv, HandlerTypeOK, OneSide, MarkOrderPaid, TakeAttempt, AttemptsDone, VoidPending,
         CancelLink, CancelSkipped, RecordCancel, CloseStopped
<1>2. ASSUME h.pending # {} PROVE First(h.pending) \in h.pending /\ First(h.pending) \in Jobs
  BY <1>1, <1>2, FirstIsMember DEF HandlerState
<1>3. ASSUME h.live # {} PROVE First(h.live) \in h.live /\ First(h.live) \in Jobs
  BY <1>1, <1>3, FirstIsMember DEF HandlerState
<1>4. CASE MarkOrderPaid(w)
  <2>1. h.order \in Orders
    BY <1>4 DEF MarkOrderPaid, STypeInv, HandlerTypeOK, OrderPcs
  <2>2. TypeOK'
    BY <1>1, <1>4, <2>1 DEF MarkOrderPaid, TypeOK, razorpay
  <2>3. CASE Answered(w)
    BY <1>4, <2>2, <2>3, AnsweredType DEF MarkOrderPaid, STypeInv, TypeOK
  <2>4. CASE hd' = [hd EXCEPT ![w] = [@ EXCEPT !.pc = "attempt", !.todo = AttemptsOf(h.order)]]
    <3> DEFINE r == [h EXCEPT !.pc = "attempt", !.todo = AttemptsOf(h.order)]
    <3>1. r \in HandlerState /\ r.pc = "attempt"
      BY <1>1 DEF HandlerState, HandlerPcs, AttemptsOf
    <3> QED
      BY <1>1, <1>4, <2>2, <2>4, <3>1, HandlerMove DEF MarkOrderPaid, STypeInv, JobPcs, OrderPcs
  <2> QED
    BY <1>4, <2>3, <2>4 DEF MarkOrderPaid
<1>5. CASE TakeAttempt(w)
  <2>1. PICK p \in h.todo :
          hd' = [hd EXCEPT ![w] = [@ EXCEPT !.todo = h.todo \ {p}, !.pending = PendingOf(p), !.live = LiveOf(p)]]
    BY <1>5 DEF TakeAttempt
  <2> DEFINE r == [h EXCEPT !.todo = h.todo \ {p}, !.pending = PendingOf(p), !.live = LiveOf(p)]
  <2>2. r \in HandlerState /\ r.pc = "attempt"
    BY <1>1, <1>5 DEF HandlerState, PendingOf, LiveOf, TakeAttempt
  <2>3. hd' = [hd EXCEPT ![w] = r]
    BY <2>1
  <2> QED
    BY <1>1, <1>5, <2>2, <2>3, HandlerMove, SameTables DEF TakeAttempt, STypeInv, JobPcs, OrderPcs
<1>6. CASE AttemptsDone(w)
  BY <1>6, SameTables, AnsweredType DEF AttemptsDone, STypeInv
<1>7. CASE VoidPending(w)
  <2> DEFINE j == First(h.pending)
             r == [h EXCEPT !.pc = "closed", !.job = j, !.pending = h.pending \ {j}]
  <2>1. j \in Jobs /\ "no_action" \in Statuses
    BY <1>2, <1>7 DEF VoidPending, Statuses, Terminal
  <2>2. TablesTypeOK' /\ RazorpayTypeOK'
    BY <1>1, <1>7, <2>1, TypeParts, CommitTablesType, UnchangedType DEF VoidPending
  <2>3. r \in HandlerState /\ r.pc = "closed" /\ r.job = j
    BY <1>1, <2>1 DEF HandlerState, HandlerPcs
  <2>4. hd' = [hd EXCEPT ![w] = r] /\ UNCHANGED wk
    BY <1>7 DEF VoidPending
  <2>5. TypeOK'
    BY <1>1, <2>2, <2>4, TypeParts, TypePartsPrimed DEF WorkerTypeOK
  <2> QED
    BY <1>1, <2>1, <2>3, <2>4, <2>5, HandlerMove DEF STypeInv, OrderPcs
<1>8. CASE CancelLink(w)
  <2> DEFINE j == First(h.live)
  <2>1. j \in Jobs
    BY <1>3, <1>8 DEF CancelLink
  <2>2. link' \in [Jobs -> LinkStates]
    BY <1>1, <1>8, <2>1 DEF CancelLink, TypeOK, LinkStates
  <2>3. TypeOK'
    BY <1>1, <1>8, <2>2 DEF CancelLink, TypeOK, db, payments
  <2>4. PICK pc \in {"cancelled", "parked"} :
          hd' = [hd EXCEPT ![w] = [@ EXCEPT !.pc = pc, !.job = j, !.live = h.live \ {j}]]
    BY <1>8 DEF CancelLink
  <2> DEFINE r == [h EXCEPT !.pc = pc, !.job = j, !.live = h.live \ {j}]
  <2>5. r \in HandlerState /\ r.pc = pc /\ r.job = j
    BY <1>1, <2>1 DEF HandlerState, HandlerPcs
  <2>6. hd' = [hd EXCEPT ![w] = r] /\ UNCHANGED wk
    BY <1>8, <2>4 DEF CancelLink
  <2> QED
    BY <1>1, <2>1, <2>3, <2>5, <2>6, HandlerMove DEF STypeInv, OrderPcs
<1>9. CASE CancelSkipped(w)
  <2> DEFINE r == [h EXCEPT !.live = h.live \ {First(h.live)}]
  <2>1. r \in HandlerState /\ r.pc = "attempt"
    BY <1>1, <1>9 DEF HandlerState, CancelSkipped
  <2>2. hd' = [hd EXCEPT ![w] = r]
    BY <1>9 DEF CancelSkipped
  <2> QED
    BY <1>1, <1>9, <2>1, <2>2, HandlerMove, SameTables DEF CancelSkipped, STypeInv, JobPcs, OrderPcs
<1>10. CASE RecordCancel(w)
  <2>1. h.job \in Jobs /\ {"cancelled", "human_queue"} \subseteq Statuses
    BY <1>10 DEF RecordCancel, STypeInv, HandlerTypeOK, JobPcs, Statuses, Terminal
  <2>2. TablesTypeOK' /\ RazorpayTypeOK'
    BY <1>1, <1>10, <2>1, TypeParts, CommitTablesType, UnchangedType DEF RecordCancel
  <2>3. TypeOK'
    BY <1>1, <1>10, <2>2, TypeParts, TypePartsPrimed DEF WorkerTypeOK, RecordCancel
  <2> QED
    BY <1>1, <1>10, <2>1, <2>3, HandleType DEF RecordCancel, STypeInv, HandlerPcs, OrderPcs
<1>11. CASE CloseStopped(w)
  <2> DEFINE r == [h EXCEPT !.pc = "attempt", !.job = NoJob]
  <2>1. h.job \in Jobs
    BY <1>11 DEF CloseStopped, STypeInv, HandlerTypeOK, JobPcs
  <2>2. TablesTypeOK' /\ RazorpayTypeOK'
    BY <1>1, <1>11, <2>1, TypeParts, OutcomeTablesType, UnchangedType DEF CloseStopped
  <2>3. r \in HandlerState /\ r.pc = "attempt"
    BY <1>1 DEF HandlerState, HandlerPcs
  <2>4. hd' = [hd EXCEPT ![w] = r] /\ UNCHANGED wk
    BY <1>11 DEF CloseStopped
  <2>5. TypeOK'
    BY <1>1, <2>2, <2>4, TypeParts, TypePartsPrimed DEF WorkerTypeOK
  <2> QED
    BY <1>1, <2>3, <2>4, <2>5, HandlerMove DEF STypeInv, JobPcs, OrderPcs
<1> QED
  BY <1>4, <1>5, <1>6, <1>7, <1>8, <1>9, <1>10, <1>11

LEMMA PollType ==
  ASSUME STypeInv, NEW w \in Workers,
         ExpiredIgnored(w) \/ ExpiredChecked(w) \/ StillOpen(w) \/ FetchLink(w) \/ RecordSeen(w) \/ ExpiryFollowup(w)
  PROVE  STypeInv'
<1> DEFINE h == hd[w]
           j == h.job
<1>1. h \in HandlerState /\ h.pc # "idle" /\ wk[w] = Idle /\ TypeOK /\ j \in Jobs
  BY DEF STypeInv, HandlerTypeOK, OneSide, ExpiredIgnored, ExpiredChecked, StillOpen, FetchLink, RecordSeen,
         ExpiryFollowup, JobPcs
<1>2. CASE ExpiredIgnored(w)
  BY <1>2, SameTables, AnsweredType DEF ExpiredIgnored, STypeInv
<1>3. CASE ExpiredChecked(w)
  BY <1>1, <1>3, SameTables, HandleType DEF ExpiredChecked, STypeInv, HandlerPcs, OrderPcs
<1>4. CASE StillOpen(w)
  BY <1>4, SameTables, AnsweredType DEF StillOpen, STypeInv
<1>5. CASE FetchLink(w)
  <2> DEFINE r == [h EXCEPT !.pc = "polled", !.seen = link[j]]
  <2>1. r \in HandlerState /\ r.pc = "polled" /\ r.job = j
    BY <1>1 DEF HandlerState, HandlerPcs, TypeOK
  <2>2. hd' = [hd EXCEPT ![w] = r]
    BY <1>5 DEF FetchLink
  <2> QED
    BY <1>1, <1>5, <2>1, <2>2, HandlerMove, SameTables DEF FetchLink, STypeInv, OrderPcs
<1>6. CASE RecordSeen(w)
  <2>1. outcome' \in [Jobs -> Seq({"recovered", "lost"})]
    BY <1>1, <1>6, SettleTables DEF RecordSeen
  <2>2. job' \in [Jobs -> Row]
    BY <1>1, <1>6 DEF RecordSeen, TypeOK, Row
  <2>3. TypeOK'
    BY <1>1, <1>6, <2>1, <2>2 DEF RecordSeen, TypeOK, payments, razorpay
  <2>4. CASE Handle(w, "lapsed")
    BY <1>1, <1>6, <2>3, <2>4, HandleType DEF RecordSeen, STypeInv, HandlerPcs, OrderPcs
  <2>5. CASE Answered(w)
    BY <1>6, <2>3, <2>5, AnsweredType DEF RecordSeen, STypeInv, TypeOK
  <2> QED
    BY <1>6, <2>4, <2>5 DEF RecordSeen
<1>7. CASE ExpiryFollowup(w)
  <2> DEFINE s == IF AwaitsAttempt(j[1]) THEN Idle ELSE [Idle EXCEPT !.pc = "followup", !.job = j]
  <2>1. s \in WorkerState /\ (s.pc # "idle" => s.job \in Jobs)
    BY <1>1, IdleType DEF WorkerState, Pcs
  <2>2. wk' = [wk EXCEPT ![w] = s]
    BY <1>7 DEF ExpiryFollowup
  <2>3. TypeOK'
    BY <1>1, <1>7, <2>1, <2>2, TypeParts, TypePartsPrimed, UnchangedType, MoveType DEF ExpiryFollowup
  <2>4. wk' \in [Workers -> WorkerState] /\ \A v \in Workers \ {w} : wk'[v] = wk[v]
    BY <1>1, <2>2, <2>3 DEF TypeOK
  <2> QED
    BY <1>7, <2>3, <2>4, AnsweredType DEF ExpiryFollowup, STypeInv
<1> QED
  BY <1>2, <1>3, <1>4, <1>5, <1>6, <1>7

LEMMA ReceiveType ==
  ASSUME STypeInv, NEW w \in Workers, Receive(w)
  PROVE  STypeInv'
<1>1. hd[w] = NoHandler /\ wk[w] = Idle /\ UNCHANGED vars
  BY DEF Receive, ReceivePaid, ReceiveExpired, PollLink, ReceiveCaptured, Free
<1>2. ASSUME NEW j \in Jobs, ReceivePaid(w, j) \/ ReceiveExpired(w, j) \/ PollLink(w, j) PROVE STypeInv'
  <2>1. PICK r \in HandlerState : hd' = [hd EXCEPT ![w] = r] /\ r.job = j /\ r.pc \notin OrderPcs
    <3>1. CASE ReceivePaid(w, j)
      <4> DEFINE r == [NoHandler EXCEPT !.pc = "paid", !.job = j, !.seen = link[j]]
      <4>1. r \in HandlerState /\ r.job = j /\ r.pc = "paid"
        BY NoHandlerType DEF HandlerState, HandlerPcs, STypeInv, TypeOK
      <4> QED
        BY <1>1, <3>1, <4>1 DEF ReceivePaid, OrderPcs
    <3>2. CASE ReceiveExpired(w, j)
      <4> DEFINE r == [NoHandler EXCEPT !.pc = "expired", !.job = j, !.seen = "expired"]
      <4>1. r \in HandlerState /\ r.job = j /\ r.pc = "expired"
        BY NoHandlerType DEF HandlerState, HandlerPcs, LinkStates
      <4> QED
        BY <1>1, <3>2, <4>1 DEF ReceiveExpired, OrderPcs
    <3>3. CASE PollLink(w, j)
      <4> DEFINE r == [NoHandler EXCEPT !.pc = "fetch", !.job = j]
      <4>1. r \in HandlerState /\ r.job = j /\ r.pc = "fetch"
        BY NoHandlerType DEF HandlerState, HandlerPcs
      <4> QED
        BY <1>1, <3>3, <4>1 DEF PollLink, OrderPcs
    <3> QED
      BY <1>2, <3>1, <3>2, <3>3
  <2> QED
    BY <1>1, <2>1, HandlerMove, SameTables DEF STypeInv
<1>3. ASSUME NEW o \in Orders, ReceiveCaptured(w, o) PROVE STypeInv'
  <2> DEFINE r == [hd[w] EXCEPT !.pc = "mark", !.order = o]
  <2>1. r \in HandlerState /\ r.pc = "mark" /\ r.order = o
    BY <1>1, NoHandlerType DEF HandlerState, HandlerPcs
  <2>2. hd' = [hd EXCEPT ![w] = r]
    BY <1>3 DEF ReceiveCaptured
  <2> QED
    BY <1>1, <2>1, <2>2, HandlerMove, SameTables DEF STypeInv, JobPcs
<1> QED
  BY <1>2, <1>3 DEF Receive

LEMMA WorldType ==
  ASSUME STypeInv, World
  PROVE  STypeInv'
<1>1. ASSUME NEW j \in Jobs, PayLink(j) \/ PayPart(j) \/ EndLink(j) PROVE STypeInv'
  <2>1. link' \in [Jobs -> LinkStates] /\ UNCHANGED <<db, inflight, captured, raced, wk, hd>>
    BY <1>1 DEF PayLink, PayPart, EndLink, STypeInv, TypeOK, LinkStates
  <2> QED
    BY <2>1 DEF STypeInv, TypeOK, HandlerTypeOK, OneSide, db, payments
<1>2. ASSUME NEW j \in Jobs, Land(j), UNCHANGED hd PROVE STypeInv'
  <2>1. TypeOK' /\ UNCHANGED wk
    BY <1>2, EnvironmentType DEF Environment, STypeInv, Land
  <2> QED
    BY <1>2, <2>1 DEF STypeInv, HandlerTypeOK, OneSide
<1>3. ASSUME NEW o \in Orders, PayElsewhere(o) PROVE STypeInv'
  <2>1. UNCHANGED <<db, link, inflight, raced, wk, hd>> /\ captured' \subseteq Orders
    BY <1>3 DEF PayElsewhere, Capture, STypeInv, TypeOK
  <2> QED
    BY <2>1 DEF STypeInv, TypeOK, HandlerTypeOK, OneSide, db, payments
<1>4. ASSUME NEW w \in Workers, SettlementCrash(w) PROVE STypeInv'
  <2>1. TypeOK'
    BY <1>4, TypeParts, TypePartsPrimed, UnchangedType, DoneType DEF SettlementCrash, STypeInv
  <2>2. wk' \in [Workers -> WorkerState] /\ \A v \in Workers \ {w} : wk'[v] = wk[v]
    BY <1>4, <2>1 DEF SettlementCrash, Done, TypeOK, STypeInv
  <2> QED
    BY <1>4, <2>1, <2>2, AnsweredType DEF SettlementCrash, STypeInv
<1> QED
  BY <1>1, <1>2, <1>3, <1>4 DEF World

LEMMA SettlementStepType ==
  ASSUME STypeInv, [SNext]_svars
  PROVE  STypeInv'
<1>1. CASE UNCHANGED svars
  BY <1>1 DEF svars, vars, STypeInv, TypeOK, HandlerTypeOK, OneSide
<1>2. ASSUME NEW w \in Workers, Execution(w) \/ SettleStep(w) \/ Receive(w) PROVE STypeInv'
  BY <1>2, ExecutionType, PaidType, OrderType, PollType, ReceiveType DEF SettleStep
<1>3. CASE World
  BY <1>3, WorldType
<1> QED
  BY <1>1, <1>2, <1>3 DEF SNext

LEMMA InitType == SInit => STypeInv
<1> SUFFICES ASSUME SInit PROVE STypeInv
  OBVIOUS
<1>1. TypeOK
  <2>1. NoRow \in Row
    BY DEF NoRow, Row, Statuses
  <2> QED
    BY <2>1, IdleType DEF SInit, Init, TypeOK, LinkStates
<1>2. HandlerTypeOK /\ OneSide
  BY NoHandlerType DEF SInit, HandlerTypeOK, OneSide, JobPcs, OrderPcs
<1> QED
  BY <1>1, <1>2 DEF STypeInv

LEMMA STypeCorrect == SSpec => []STypeInv
BY InitType, SettlementStepType, PTL DEF SSpec

(* Every reachable state of the webhooks, the poll and the executor together *)
(* is well formed; a process is never in a handler and in execute_job at     *)
(* once, and a handler that has a job at hand has one with a key.            *)
THEOREM SettlementTypeCorrect == SSpec => []SettlementTypeOK
BY STypeCorrect, STypeInvImplies, PTL

-----------------------------------------------------------------------------
(* Nothing is sent for an order recorded paid.                             *)
(*                                                                         *)
(* execute_job reads the order before its claim; what keeps the answer good *)
(* until the create call is the lock of serve: one process, so that         *)
(* record_order_paid cannot run in between.                                *)

GuardedPcs == {"claim", "check", "earlier", "create"}
OrderGuard == \A w \in Workers : wk[w].pc \in GuardedPcs => OrderOf[wk[w].job[1]] \notin orderPaid

(* A process that takes up something new starts from Idle. *)
LEMMA StartAt ==
  ASSUME TypeOK, NEW w \in Workers, NEW pc, NEW j, NEW status, NEW answer,
         wk' = [wk EXCEPT ![w] = [Idle EXCEPT !.pc = pc, !.job = j, !.status = status, !.answer = answer]]
  PROVE  wk'[w].pc = pc /\ wk'[w].job = j /\ wk'[w].status = status
BY DEF TypeOK, Idle

(* A process comes to a guarded position from the check, or from another one. *)
LEMMA GuardedSteps ==
  ASSUME STypeInv, NEW w \in Workers, Begin(w) \/ Step(w), wk'[w].pc \in GuardedPcs
  PROVE  /\ wk'[w].job = wk[w].job
         /\ wk[w].pc \in GuardedPcs \/ ~OrderIsPaid(wk[w].job)
         /\ UNCHANGED orderPaid
<1> USE DoneAt, GotoAt, GotoWithAt DEF GuardedPcs
<1>0. TypeOK /\ wk[w] \in WorkerState /\ wk \in [Workers -> WorkerState]
  BY DEF STypeInv, TypeOK
<1>2. ~ScheduleStep(w)
  <2>1. CASE Followup(w)
    BY <1>0, <2>1 DEF Followup, Idle
  <2>2. CASE InsertDuplicate(w) \/ Park(w)
    BY <1>0, <2>2 DEF InsertDuplicate, Park
  <2>3. CASE Insert(w)
    BY <1>0, <2>3 DEF Insert
  <2> QED
    BY <2>1, <2>2, <2>3 DEF ScheduleStep
<1>3. ~RecoverStep(w)
  <2>1. CASE RecoverLookup(w)
    BY <1>0, <2>1 DEF RecoverLookup, WorkerState
  <2>2. CASE RecoverStaleExecution(w)
    BY <1>0, <2>2 DEF RecoverStaleExecution
  <2> QED
    BY <2>1, <2>2 DEF RecoverStep
<1>4. ~Begin(w)
  <2>1. ASSUME NEW p \in Payments, ProcessAttempt(w, p) PROVE FALSE
    BY <1>0, <2>1 DEF ProcessAttempt, Idle
  <2>2. ASSUME NEW j \in Jobs, Sweep(w, j) PROVE FALSE
    BY <1>0, <2>2 DEF Sweep, Idle
  <2> QED
    BY <2>1, <2>2 DEF Begin
<1>5. ~FinishStep(w)
  <2>1. CASE FinishSent(w) \/ FinishOther(w) \/ Close(w) \/ FinishThrottled(w)
    BY <1>0, <2>1 DEF FinishSent, FinishOther, Close, FinishThrottled
  <2>2. CASE FinishClosed(w)
    BY <1>0, <2>2 DEF FinishClosed, ToClose
  <2>3. CASE Reconcile(w)
    <3>1. GotoWith(w, "finish", "sent", "none") \/ Goto(w, "followup") \/ Goto(w, "close") \/ Done(w)
      BY <2>3 DEF Reconcile, ToClose
    <3> QED
      BY <1>0, <3>1
  <2> QED
    BY <2>1, <2>2, <2>3 DEF FinishStep
<1>6. CASE GuardStep(w)
  <2>1. CASE Execute(w)
    BY <1>0, <2>1 DEF Execute, db, payments
  <2>2. CASE VoidOrderPaid(w) \/ VoidOutcome(w) \/ StubTokenRetry(w) \/ RefuseLocally(w) \/ ClaimRefused(w)
    <3>1. \/ Goto(w, "voided") \/ Done(w)
          \/ \E status, kind : GotoWith(w, "finish", status, kind)
      BY <2>2 DEF VoidOrderPaid, VoidOutcome, StubTokenRetry, RefuseLocally, ClaimRefused
    <3> QED
      BY <1>0, <3>1
  <2>3. CASE ClaimForExecution(w)
    BY <1>0, <2>3 DEF ClaimForExecution, payments
  <2> QED
    BY <1>6, <2>1, <2>2, <2>3 DEF GuardStep
<1>7. CASE SendStep(w)
  <2>1. CASE FinishShadow(w) \/ SendSubscriptionPage(w) \/ OrderCheckPaid(w) \/ EarlierLanded(w) \/ Superseded(w)
    <3>1. \/ Goto(w, "void") \/ Goto(w, "superseded") \/ Done(w)
          \/ \E status, kind : GotoWith(w, "finish", status, kind)
      BY <2>1 DEF FinishShadow, SendSubscriptionPage, OrderCheckPaid, EarlierLanded, Superseded
    <3> QED
      BY <1>0, <3>1
  <2>2. CASE CreateLink(w) \/ CreateDuplicate(w) \/ FinishDuplicate(w) \/ RecordResult(w)
    BY <1>0, <2>2 DEF CreateLink, CreateDuplicate, FinishDuplicate, RecordResult
  <2>3. CASE OrderCheckPasses(w)
    BY <1>0, <2>3 DEF OrderCheckPasses, db, payments
  <2>4. CASE EarlierNone(w)
    BY <1>0, <2>4 DEF EarlierNone, db, payments, WorkerState
  <2>5. CASE OfferRejected(w)
    BY <1>0, <2>5 DEF OfferRejected, db, payments, WorkerState
  <2>6. CASE CreateRefused(w) \/ CreateUnanswered(w)
    BY <1>0, <2>6, AfterFailureAt DEF CreateRefused, CreateUnanswered, db, payments
  <2> QED
    BY <1>7, <2>1, <2>2, <2>3, <2>4, <2>5, <2>6 DEF SendStep
<1> QED
  BY <1>2, <1>3, <1>4, <1>5, <1>6, <1>7 DEF Step

LEMMA OrderGuardStep ==
  ASSUME Serial, STypeInv, OrderGuard, [SNext]_svars
  PROVE  OrderGuard'
<1>0. ~("idle" \in GuardedPcs) /\ ~("followup" \in GuardedPcs) /\ Idle.pc = "idle" /\ TypeOK /\ \A v \in Workers : wk[v] \in WorkerState
  BY IdleType DEF GuardedPcs, STypeInv, TypeOK
<1>1. ASSUME UNCHANGED <<wk, orderPaid>> PROVE OrderGuard'
  BY <1>1 DEF OrderGuard
<1>2. ASSUME NEW w \in Workers, Execution(w) PROVE OrderGuard'
  <2> SUFFICES ASSUME wk'[w].pc \in GuardedPcs PROVE OrderOf[wk'[w].job[1]] \notin orderPaid'
    BY DEF Serial, OrderGuard
  <2> QED
    BY <1>2, GuardedSteps DEF Execution, OrderGuard, OrderIsPaid
<1>3. ASSUME NEW w \in Workers, SettleStep(w) PROVE OrderGuard'
  <2>1. wk[w] = Idle
    BY <1>3 DEF SettleStep, STypeInv, OneSide, PaidIgnored, PaidChecked, ClosePaidLink, MarkOrderPaid, TakeAttempt,
           AttemptsDone, VoidPending, CancelLink, CancelSkipped, RecordCancel, CloseStopped, ExpiredIgnored,
           ExpiredChecked, StillOpen, FetchLink, RecordSeen, ExpiryFollowup
  <2>2. CASE UNCHANGED wk
    BY <1>0, <2>1, <2>2 DEF OrderGuard, Serial
  <2>3. CASE ExpiryFollowup(w)
    <3>1. wk'[w].pc = "idle" \/ wk'[w].pc = "followup"
      BY <1>0, <2>3 DEF ExpiryFollowup, Idle, STypeInv, TypeOK
    <3> QED
      BY <1>0, <3>1 DEF OrderGuard, Serial
  <2> QED
    BY <1>3, <2>2, <2>3 DEF SettleStep, PaidIgnored, PaidChecked, ClosePaidLink, MarkOrderPaid, TakeAttempt,
           AttemptsDone, VoidPending, CancelLink, CancelSkipped, RecordCancel, CloseStopped, ExpiredIgnored,
           ExpiredChecked, StillOpen, FetchLink, RecordSeen, vars
<1>4. ASSUME NEW w \in Workers, Receive(w) PROVE OrderGuard'
  BY <1>1, <1>4 DEF Receive, ReceivePaid, ReceiveExpired, PollLink, ReceiveCaptured, vars
<1>5. CASE World
  <2>1. ASSUME NEW w \in Workers, SettlementCrash(w) PROVE OrderGuard'
    <3>1. wk'[w].pc = "idle"
      BY <1>0, <2>1, DoneAt DEF SettlementCrash
    <3> QED
      BY <1>0, <3>1 DEF OrderGuard, Serial
  <2> QED
    BY <1>1, <1>5, <2>1 DEF World, PayLink, PayPart, EndLink, Land, PayElsewhere, Capture, db, payments
<1> QED
  BY <1>1, <1>2, <1>3, <1>4, <1>5 DEF SNext, svars, vars

(* A link comes into being by a create call, or by one that was under way. *)
LEMMA NewLinkIsCreated ==
  ASSUME STypeInv, [SNext]_svars, NEW j \in Jobs, NewLink(j), j \notin inflight
  PROVE  \E w \in Workers : /\ CreateLink(w) \/ CreateUnanswered(w)
                            /\ hd[w] = NoHandler
                            /\ UNCHANGED hd
                            /\ j = wk[w].job
<1>0. link \in [Jobs -> LinkStates]
  BY DEF STypeInv, TypeOK
<1>1. link'[j] # link[j] /\ link[j] = "none" /\ link'[j] = "created"
  BY DEF NewLink
<1>2. ASSUME UNCHANGED link PROVE FALSE
  BY <1>1, <1>2
<1>3. ASSUME NEW w \in Workers, Execution(w)
      PROVE  (CreateLink(w) \/ CreateUnanswered(w)) /\ j = wk[w].job /\ hd[w] = NoHandler /\ UNCHANGED hd
  <2>1. CreateLink(w) \/ CreateUnanswered(w)
    <3>1. ~Begin(w) /\ ~ScheduleStep(w) /\ ~RecoverStep(w) /\ ~GuardStep(w) /\ ~FinishStep(w)
      BY <1>2 DEF Begin, ProcessAttempt, Sweep, ScheduleStep, Followup, InsertDuplicate, Insert, Park,
           RecoverStep, RecoverLookup, RecoverStaleExecution, GuardStep, Execute, VoidOrderPaid, VoidOutcome,
           StubTokenRetry, RefuseLocally, ClaimForExecution, ClaimRefused, FinishStep, FinishSent, FinishClosed,
           FinishThrottled, Reconcile, FinishOther, Close, razorpay
    <3> QED
      BY <1>2, <1>3, <3>1 DEF Execution, Step, SendStep, FinishShadow, SendSubscriptionPage, OrderCheckPaid,
           OrderCheckPasses, EarlierLanded, EarlierNone, Superseded, CreateDuplicate, CreateRefused, OfferRejected,
           FinishDuplicate, RecordResult, razorpay
  <2>2. j = wk[w].job
    <3>1. CASE CreateLink(w)
      BY <1>0, <1>1, <3>1 DEF CreateLink
    <3>2. CASE CreateUnanswered(w)
      BY <1>0, <1>1, <3>2 DEF CreateUnanswered
    <3> QED
      BY <2>1, <3>1, <3>2
  <2> QED
    BY <1>3, <2>1, <2>2 DEF Execution
<1>4. ASSUME NEW w \in Workers, SettleStep(w) PROVE FALSE
  <2>1. CASE CancelLink(w)
    BY <1>0, <1>1, <2>1 DEF CancelLink
  <2> QED
    BY <1>2, <1>4, <2>1 DEF SettleStep, PaidIgnored, PaidChecked, ClosePaidLink, MarkOrderPaid, TakeAttempt,
           AttemptsDone, VoidPending, CancelSkipped, RecordCancel, CloseStopped, ExpiredIgnored,
           ExpiredChecked, StillOpen, FetchLink, RecordSeen, ExpiryFollowup, vars, razorpay
<1>5. ASSUME NEW w \in Workers, Receive(w) PROVE FALSE
  BY <1>2, <1>5 DEF Receive, ReceivePaid, ReceiveExpired, PollLink, ReceiveCaptured, vars
<1>6. ~World
  <2>1. ASSUME NEW i \in Jobs, PayLink(i) PROVE FALSE
    BY <1>0, <1>1, <2>1 DEF PayLink
  <2>2. ASSUME NEW i \in Jobs, PayPart(i) PROVE FALSE
    BY <1>0, <1>1, <2>2 DEF PayPart
  <2>3. ASSUME NEW i \in Jobs, EndLink(i) PROVE FALSE
    BY <1>0, <1>1, <2>3 DEF EndLink
  <2>4. ASSUME NEW i \in Jobs, Land(i) PROVE FALSE
    BY <1>0, <1>1, <2>4 DEF Land
  <2> QED
    BY <1>2, <2>1, <2>2, <2>3, <2>4 DEF World, PayElsewhere, Capture, SettlementCrash, razorpay
<1> QED
  BY <1>2, <1>3, <1>4, <1>5, <1>6 DEF SNext, svars, vars

(* Under the lock of serve no create call is made for an order that is       *)
(* recorded paid, by any job of any payment of it, whatever is redelivered,  *)
(* retried, recovered after a crash or landing late (the order-paid boundary *)
(* of money_path.md).                                                       *)
THEOREM PaidOrderIsSafe ==
  ASSUME Serial
  PROVE  SSpec => PaidOrderNeverSends
<1>1. SInit => OrderGuard
  BY IdleType DEF SInit, Init, OrderGuard, GuardedPcs
<1>2. STypeInv /\ OrderGuard /\ [SNext]_svars => OrderGuard'
  BY OrderGuardStep
<1>3. STypeInv /\ OrderGuard /\ [SNext]_svars
        => [\A j \in Jobs : NewLink(j) /\ j \notin inflight => OrderOf[j[1]] \notin orderPaid]_vars
  <2> SUFFICES ASSUME STypeInv, OrderGuard, [SNext]_svars, NEW j \in Jobs, NewLink(j), j \notin inflight
               PROVE  OrderOf[j[1]] \notin orderPaid
    OBVIOUS
  <2>1. PICK w \in Workers : wk[w].pc = "create" /\ j = wk[w].job
    BY NewLinkIsCreated DEF CreateLink, CreateUnanswered
  <2> QED
    BY <2>1 DEF OrderGuard, GuardedPcs
<1> QED
  BY <1>1, <1>2, <1>3, STypeCorrect, PTL DEF SSpec, PaidOrderNeverSends

-----------------------------------------------------------------------------
(* What is counted was collected.                                          *)
(*                                                                         *)
(* A handler counts what it saw a step earlier.  A paid link stays paid; a  *)
(* partially paid one may still be cancelled for its order, so it must not  *)
(* be counted by one process while another cancels it: either one process   *)
(* handles everything, or no link takes part payments.                      *)

Counted(j) == \E i \in DOMAIN outcome[j] : outcome[j][i] = "recovered"
Collected(j) == link[j] \in {"paid", "partial"}
CancelPcs == {"attempt", "cancelled", "parked", "closed"}

HandlerMoney(h) ==
  /\ h.pc \in {"paid", "recovered"} => Collected(h.job)
  /\ h.pc = "expired" => ~Recovering(h.seen)
  /\ h.pc = "polled" /\ Recovering(h.seen) => Collected(h.job)
  /\ h.pc \notin CancelPcs => h.live = {}
  /\ Serial => \A j \in h.live : ~Counted(j)

MoneyInv ==
  /\ RecoveredIsPaid
  /\ \A w \in Workers : HandlerMoney(hd[w])
  /\ Offered = {} => \A j \in Jobs : link[j] # "partial"

(* An outcome that is appended is counted where it says so, and only there. *)
LEMMA AppendCounts ==
  ASSUME TypeOK, NEW j \in Jobs, NEW result \in {"recovered", "lost"}, RecordOutcome(j, result), NEW k \in Jobs,
         Counted(k)'
  PROVE  Counted(k) \/ (k = j /\ result = "recovered")
<1>1. outcome[k] \in Seq({"recovered", "lost"}) /\ outcome' = [outcome EXCEPT ![j] = Append(@, result)]
  BY DEF TypeOK, RecordOutcome
<1>2. CASE k # j
  <2>1. outcome'[k] = outcome[k]
    BY <1>1, <1>2 DEF TypeOK
  <2> QED
    BY <2>1 DEF Counted
<1>3. CASE k = j
  <2>1. outcome'[k] = Append(outcome[k], result)
    BY <1>1, <1>3 DEF TypeOK
  <2>2. PICK i \in DOMAIN outcome'[k] : outcome'[k][i] = "recovered"
    BY DEF Counted
  <2>3. i \in 1..(Len(outcome[k]) + 1) /\ Len(outcome[k]) \in Nat
    BY <1>1, <2>1, <2>2
  <2>4. CASE i = Len(outcome[k]) + 1
    BY <1>1, <1>3, <2>1, <2>2, <2>4
  <2>5. CASE i # Len(outcome[k]) + 1
    BY <1>1, <2>1, <2>2, <2>3, <2>5 DEF Counted
  <2> QED
    BY <2>4, <2>5
<1> QED
  BY <1>2, <1>3

(* Whatever a process executes, nothing is counted by it and no link that   *)
(* exists is changed.                                                       *)
LEMMA ExecutionOutcomes ==
  ASSUME STypeInv, NEW w \in Workers, Begin(w) \/ Step(w)
  PROVE  \/ UNCHANGED outcome
         \/ /\ wk[w].pc \in {"park", "voided", "close"}
            /\ wk[w].job \in Jobs
            /\ RecordOutcome(wk[w].job, "lost")
<1>1. wk[w].pc # "idle" => wk[w].job \in Jobs
  BY DEF STypeInv, TypeOK
<1> QED
  BY <1>1 DEF Begin, ProcessAttempt, Sweep, Step, ScheduleStep, Followup, InsertDuplicate, Insert, Park,
     RecoverStep, RecoverLookup, RecoverStaleExecution, GuardStep, Execute, VoidOrderPaid, VoidOutcome,
     StubTokenRetry, RefuseLocally, ClaimForExecution, ClaimRefused, FinishStep, FinishSent, FinishClosed,
     FinishThrottled, Reconcile, FinishOther, Close, SendStep, FinishShadow, SendSubscriptionPage, OrderCheckPaid,
     OrderCheckPasses, EarlierLanded, EarlierNone, Superseded, CreateLink, CreateDuplicate, CreateRefused,
     OfferRejected, CreateUnanswered, FinishDuplicate, RecordResult, db

LEMMA ExecutionLinks ==
  ASSUME STypeInv, NEW w \in Workers, Begin(w) \/ Step(w)
  PROVE  \/ UNCHANGED link
         \/ /\ wk[w].pc = "create"
            /\ wk[w].job \in Jobs
            /\ link[wk[w].job] = "none"
            /\ link' = [link EXCEPT ![wk[w].job] = "created"]
<1>1. wk[w].pc # "idle" => wk[w].job \in Jobs
  BY DEF STypeInv, TypeOK
<1> QED
  BY <1>1 DEF Begin, ProcessAttempt, Sweep, Step, ScheduleStep, Followup, InsertDuplicate, Insert, Park,
     RecoverStep, RecoverLookup, RecoverStaleExecution, GuardStep, Execute, VoidOrderPaid, VoidOutcome,
     StubTokenRetry, RefuseLocally, ClaimForExecution, ClaimRefused, FinishStep, FinishSent, FinishClosed,
     FinishThrottled, Reconcile, FinishOther, Close, SendStep, FinishShadow, SendSubscriptionPage, OrderCheckPaid,
     OrderCheckPasses, EarlierLanded, EarlierNone, Superseded, CreateLink, CreateDuplicate, CreateRefused,
     OfferRejected, CreateUnanswered, FinishDuplicate, RecordResult, razorpay

(* A step that counts nothing new and un-collects nothing keeps the promise *)
(* if each handler's record still does.                                     *)
LEMMA MoneyFrame ==
  ASSUME STypeInv, MoneyInv, \A k \in Jobs : Counted(k)' => Counted(k), \A k \in Jobs : Collected(k) => Collected(k)',
         Offered = {} => \A k \in Jobs : link[k] = "partial" \/ link'[k] # "partial",
         \A w \in Workers : hd'[w] = hd[w] \/ HandlerMoney(hd[w])'
  PROVE  MoneyInv'
<1>1. \A w \in Workers : hd[w].pc \in JobPcs => hd[w].job \in Jobs
  BY DEF STypeInv, HandlerTypeOK
<1>2. \A w \in Workers : hd[w].live \subseteq Jobs
  BY DEF STypeInv, HandlerTypeOK, HandlerState
<1>3. RecoveredIsPaid'
  BY DEF MoneyInv, RecoveredIsPaid, Counted, Collected
<1>4. ASSUME NEW w \in Workers, hd'[w] = hd[w] PROVE HandlerMoney(hd[w])'
  BY <1>1, <1>2, <1>4 DEF MoneyInv, HandlerMoney, JobPcs
<1>5. Offered = {} => \A k \in Jobs : link'[k] # "partial"
  BY DEF MoneyInv
<1> QED
  BY <1>3, <1>4, <1>5 DEF MoneyInv

LEMMA SameMoney ==
  ASSUME UNCHANGED <<outcome, link>>
  PROVE  /\ \A k \in Jobs : Counted(k)' => Counted(k)
         /\ \A k \in Jobs : Collected(k) => Collected(k)'
         /\ \A k \in Jobs : link[k] = "partial" \/ link'[k] # "partial"
BY DEF Counted, Collected, MoneyInv

(* An idle handler, and one that moves within its outcome's path. *)
LEMMA NoHandlerMoney == HandlerMoney(NoHandler) /\ HandlerMoney(NoHandler)'
BY DEF NoHandler, HandlerMoney, CancelPcs

LEMMA AnsweredMoney ==
  ASSUME STypeInv, NEW w \in Workers, Answered(w)
  PROVE  \A v \in Workers : hd'[v] = hd[v] \/ HandlerMoney(hd[v])'
BY NoHandlerMoney DEF Answered, STypeInv, HandlerTypeOK

(* Where a handler is after it moved. *)
LEMMA MovedAt ==
  ASSUME STypeInv, NEW w \in Workers, NEW r, hd' = [hd EXCEPT ![w] = r]
  PROVE  hd'[w] = r /\ \A v \in Workers \ {w} : hd'[v] = hd[v]
BY DEF STypeInv, HandlerTypeOK

LEMMA HandleAt ==
  ASSUME STypeInv, NEW w \in Workers, NEW pc, Handle(w, pc)
  PROVE  /\ hd'[w].pc = pc
         /\ hd'[w].job = hd[w].job
         /\ hd'[w].seen = hd[w].seen
         /\ hd'[w].todo = hd[w].todo
         /\ hd'[w].pending = hd[w].pending
         /\ hd'[w].live = hd[w].live
         /\ \A v \in Workers \ {w} : hd'[v] = hd[v]
BY DEF Handle, STypeInv, HandlerTypeOK, HandlerState

(* A paid link is answered, or goes on to its order with nothing at hand. *)
LEMMA ClosePaidAt ==
  ASSUME STypeInv, NEW w \in Workers, ClosePaidLink(w)
  PROVE  /\ hd'[w].pc \in {"idle", "mark"}
         /\ hd'[w].pending = {}
         /\ hd'[w].live = {}
<1> DEFINE r == [NoHandler EXCEPT !.pc = "mark", !.order = OrderOf[hd[w].job[1]]]
<1>1. hd \in [Workers -> HandlerState]
  BY DEF STypeInv, HandlerTypeOK
<1>2. r.pc = "mark" /\ r.pending = {} /\ r.live = {}
  BY DEF NoHandler
<1>3. NoHandler.pc = "idle" /\ NoHandler.pending = {} /\ NoHandler.live = {}
  BY DEF NoHandler
<1>4. hd' = [hd EXCEPT ![w] = r] \/ hd' = [hd EXCEPT ![w] = NoHandler]
  BY DEF ClosePaidLink, Answered
<1>5. hd'[w] = r \/ hd'[w] = NoHandler
  BY <1>1, <1>4
<1> QED
  BY <1>2, <1>3, <1>5

LEMMA ExecutionMoney ==
  ASSUME STypeInv, MoneyInv, NEW w \in Workers, Execution(w)
  PROVE  MoneyInv'
<1>1. TypeOK /\ UNCHANGED hd
  BY DEF STypeInv, Execution
<1>2. \A k \in Jobs : Counted(k)' => Counted(k)
  BY <1>1, ExecutionOutcomes, AppendCounts DEF Execution, Counted
<1>3. \A k \in Jobs : (Collected(k) => Collected(k)') /\ (link[k] = "partial" \/ link'[k] # "partial")
  BY <1>1, ExecutionLinks DEF Execution, Collected, TypeOK
<1> QED
  BY <1>1, <1>2, <1>3, MoneyFrame

LEMMA PaidMoney ==
  ASSUME STypeInv, MoneyInv, NEW w \in Workers, PaidIgnored(w) \/ PaidChecked(w) \/ ClosePaidLink(w)
  PROVE  MoneyInv'
<1> DEFINE j == hd[w].job
<1>1. TypeOK /\ j \in Jobs /\ HandlerMoney(hd[w])
  BY DEF STypeInv, HandlerTypeOK, JobPcs, PaidIgnored, PaidChecked, ClosePaidLink, MoneyInv
<1>2. CASE PaidIgnored(w)
  BY <1>2, SameMoney, AnsweredMoney, MoneyFrame DEF PaidIgnored, vars
<1>3. CASE PaidChecked(w)
  <2>1. UNCHANGED <<outcome, link>> /\ Handle(w, "recovered") /\ hd[w].pc = "paid"
    BY <1>3 DEF PaidChecked, vars
  <2>2. HandlerMoney(hd[w])'
    BY <1>1, <2>1, HandleAt DEF HandlerMoney, Collected, CancelPcs
  <2> QED
    BY <2>1, <2>2, HandleAt, SameMoney, MoneyFrame
<1>4. CASE ClosePaidLink(w)
  <2>1. UNCHANGED link /\ Collected(j) /\ RecordOutcome(j, "recovered")
    BY <1>1, <1>4 DEF ClosePaidLink, razorpay, HandlerMoney
  <2>2. RecoveredIsPaid'
    <3>1. \A k \in Jobs : Counted(k)' => Collected(k)
      BY <1>1, <2>1, AppendCounts DEF MoneyInv, RecoveredIsPaid, Counted, Collected
    <3> QED
      BY <2>1, <3>1 DEF RecoveredIsPaid, Counted, Collected
  <2>3. hd'[w].live = {} /\ hd'[w].pc \in {"idle", "mark"}
    BY <1>4, ClosePaidAt
  <2>4. \A v \in Workers \ {w} : hd'[v] = hd[v]
    BY <1>4 DEF ClosePaidLink, Answered, STypeInv, HandlerTypeOK
  <2>5. HandlerMoney(hd[w])'
    BY <2>3 DEF HandlerMoney, CancelPcs
  <2>6. ASSUME NEW v \in Workers \ {w} PROVE HandlerMoney(hd[v])'
    BY <2>1, <2>4, <2>6 DEF MoneyInv, HandlerMoney, Collected, Serial
  <2> QED
    BY <2>1, <2>2, <2>5, <2>6 DEF MoneyInv
<1> QED
  BY <1>2, <1>3, <1>4

LEMMA OrderMoney ==
  ASSUME STypeInv, MoneyInv, Serial \/ Offered = {}, NEW w \in Workers,
         MarkOrderPaid(w) \/ TakeAttempt(w) \/ AttemptsDone(w) \/ VoidPending(w)
           \/ CancelLink(w) \/ CancelSkipped(w) \/ RecordCancel(w) \/ CloseStopped(w)
  PROVE  MoneyInv'
<1> DEFINE h == hd[w]
<1>1. TypeOK /\ h \in HandlerState /\ HandlerMoney(h) /\ hd \in [Workers -> HandlerState]
  BY DEF STypeInv, HandlerTypeOK, MoneyInv
<1>2. CASE MarkOrderPaid(w)
  <2>1. UNCHANGED <<outcome, link>>
    BY <1>2 DEF MarkOrderPaid, razorpay
  <2>2. CASE Answered(w)
    BY <2>1, <2>2, SameMoney, AnsweredMoney, MoneyFrame
  <2>3. CASE hd' = [hd EXCEPT ![w] = [@ EXCEPT !.pc = "attempt", !.todo = AttemptsOf(h.order)]]
    <3> DEFINE r == [h EXCEPT !.pc = "attempt", !.todo = AttemptsOf(h.order)]
    <3>1. r.pc = "attempt" /\ r.live = h.live
      BY <1>1 DEF HandlerState
    <3>2. hd'[w] = r /\ \A v \in Workers \ {w} : hd'[v] = hd[v]
      BY <2>3, MovedAt
    <3>3. HandlerMoney(hd[w])'
      BY <1>1, <2>1, <3>1, <3>2 DEF HandlerMoney, Counted, CancelPcs
    <3> QED
      BY <2>1, <3>2, <3>3, SameMoney, MoneyFrame
  <2> QED
    BY <1>2, <2>2, <2>3 DEF MarkOrderPaid
<1>3. CASE TakeAttempt(w)
  <2>1. PICK p \in h.todo :
          hd' = [hd EXCEPT ![w] = [@ EXCEPT !.todo = h.todo \ {p}, !.pending = PendingOf(p), !.live = LiveOf(p)]]
    BY <1>3 DEF TakeAttempt
  <2> DEFINE r == [h EXCEPT !.todo = h.todo \ {p}, !.pending = PendingOf(p), !.live = LiveOf(p)]
  <2>2. r.pc = "attempt" /\ r.live = LiveOf(p) /\ UNCHANGED <<outcome, link>>
    BY <1>1, <1>3 DEF HandlerState, TakeAttempt, vars
  <2>3. \A j \in LiveOf(p) : ~Counted(j)
    BY DEF LiveOf, HasOutcome, Counted
  <2>4. hd'[w] = r /\ \A v \in Workers \ {w} : hd'[v] = hd[v]
    BY <2>1, MovedAt
  <2>5. HandlerMoney(hd[w])'
    BY <2>2, <2>3, <2>4 DEF HandlerMoney, CancelPcs, Counted
  <2> QED
    BY <2>2, <2>4, <2>5, SameMoney, MoneyFrame
<1>4. CASE AttemptsDone(w)
  BY <1>4, SameMoney, AnsweredMoney, MoneyFrame DEF AttemptsDone, vars
<1>5. CASE VoidPending(w)
  <2> DEFINE j == First(h.pending)
             r == [h EXCEPT !.pc = "closed", !.job = j, !.pending = h.pending \ {j}]
  <2>1. r.pc = "closed" /\ r.live = h.live /\ UNCHANGED <<outcome, link>> /\ hd' = [hd EXCEPT ![w] = r]
    BY <1>1, <1>5 DEF HandlerState, VoidPending, razorpay
  <2>2. hd'[w] = r /\ \A v \in Workers \ {w} : hd'[v] = hd[v]
    BY <2>1, MovedAt
  <2>3. HandlerMoney(hd[w])'
    BY <1>1, <2>1, <2>2 DEF HandlerMoney, CancelPcs, Counted
  <2> QED
    BY <2>1, <2>2, <2>3, SameMoney, MoneyFrame
<1>6. CASE CancelLink(w)
  <2> DEFINE j == First(h.live)
  <2>1. j \in h.live /\ j \in Jobs
    BY <1>1, <1>6, FirstIsMember DEF CancelLink, HandlerState
  <2>2. PICK pc \in {"cancelled", "parked"} :
          hd' = [hd EXCEPT ![w] = [@ EXCEPT !.pc = pc, !.job = j, !.live = h.live \ {j}]]
    BY <1>6 DEF CancelLink
  <2> DEFINE r == [h EXCEPT !.pc = pc, !.job = j, !.live = h.live \ {j}]
  <2>3. r.pc \in CancelPcs /\ r.pc \notin {"paid", "recovered", "expired", "polled"} /\ r.live = h.live \ {j}
        /\ UNCHANGED outcome /\ hd'[w] = r /\ \A v \in Workers \ {w} : hd'[v] = hd[v]
    BY <1>1, <1>6, <2>2, MovedAt DEF HandlerState, CancelLink, CancelPcs, db
  <2>4. HandlerMoney(hd[w])'
    BY <1>1, <2>3 DEF HandlerMoney, Counted
  <2>5. CASE UNCHANGED link
    BY <2>3, <2>4, <2>5, SameMoney, MoneyFrame
  <2>6. CASE link' = [link EXCEPT ![j] = "cancelled"] /\ Live(j)
    <3>1. \A k \in Jobs : link'[k] = IF k = j THEN "cancelled" ELSE link[k]
      BY <1>1, <2>6 DEF TypeOK
    <3>2. ~Counted(j)
      <4>1. CASE Serial
        BY <1>1, <2>1, <4>1 DEF HandlerMoney
      <4>2. CASE Offered = {}
        BY <2>1, <2>6, <4>2 DEF MoneyInv, RecoveredIsPaid, Counted, Live
      <4> QED
        BY <4>1, <4>2
    <3>3. RecoveredIsPaid'
      BY <2>3, <3>1, <3>2 DEF MoneyInv, RecoveredIsPaid, Counted
    <3>4. ASSUME NEW v \in Workers \ {w} PROVE HandlerMoney(hd[v])'
      <4>1. hd'[v] = hd[v] /\ HandlerMoney(hd[v])
        BY <1>1, <2>3, <3>4 DEF MoneyInv
      <4>2. CASE Serial
        BY <3>4, <4>2 DEF Serial
      <4>3. CASE Offered = {}
        <5>1. ~Collected(j)
          BY <2>1, <2>6, <4>3 DEF MoneyInv, Live, Collected
        <5>2. \A k \in Jobs : Collected(k) => Collected(k)'
          BY <3>1, <5>1 DEF Collected
        <5>3. hd[v].pc \in JobPcs => hd[v].job \in Jobs
          BY <3>4 DEF STypeInv, HandlerTypeOK
        <5> QED
          BY <2>3, <4>1, <5>2, <5>3 DEF HandlerMoney, JobPcs, Counted, Serial
      <4> QED
        BY <4>2, <4>3
    <3>5. HandlerMoney(hd[w])'
      BY <2>4
    <3>6. (Offered = {} => \A k \in Jobs : link[k] # "partial")'
      BY <3>1 DEF MoneyInv
    <3> QED
      BY <3>3, <3>4, <3>5, <3>6 DEF MoneyInv
  <2> QED
    BY <1>6, <2>5, <2>6 DEF CancelLink
<1>7. CASE CancelSkipped(w)
  <2> DEFINE r == [h EXCEPT !.live = h.live \ {First(h.live)}]
  <2>1. r.pc = "attempt" /\ r.live \subseteq h.live /\ UNCHANGED <<outcome, link>> /\ hd' = [hd EXCEPT ![w] = r]
    BY <1>1, <1>7 DEF HandlerState, CancelSkipped, vars
  <2>2. hd'[w] = r /\ \A v \in Workers \ {w} : hd'[v] = hd[v]
    BY <2>1, MovedAt
  <2>3. HandlerMoney(hd[w])'
    BY <1>1, <2>1, <2>2 DEF HandlerMoney, CancelPcs, Counted
  <2> QED
    BY <2>1, <2>2, <2>3, SameMoney, MoneyFrame
<1>8. CASE RecordCancel(w)
  <2>1. Handle(w, "closed") /\ UNCHANGED <<outcome, link>>
    BY <1>8 DEF RecordCancel, razorpay
  <2>2. HandlerMoney(hd[w])'
    BY <1>1, <2>1, HandleAt DEF HandlerMoney, CancelPcs, Counted
  <2> QED
    BY <2>1, <2>2, HandleAt, SameMoney, MoneyFrame
<1>9. CASE CloseStopped(w)
  <2> DEFINE r == [h EXCEPT !.pc = "attempt", !.job = NoJob]
  <2>1. h.job \in Jobs
    BY <1>9 DEF CloseStopped, STypeInv, HandlerTypeOK, JobPcs
  <2>2. \A k \in Jobs : Counted(k)' => Counted(k)
    BY <1>1, <1>9, <2>1, AppendCounts DEF CloseStopped
  <2>3. r.pc = "attempt" /\ r.live = h.live /\ UNCHANGED link /\ hd' = [hd EXCEPT ![w] = r]
    BY <1>1, <1>9 DEF HandlerState, CloseStopped, razorpay
  <2>4. h.live \subseteq Jobs
    BY <1>1 DEF HandlerState
  <2>5. hd'[w] = r /\ \A v \in Workers \ {w} : hd'[v] = hd[v]
    BY <2>3, MovedAt
  <2>6. HandlerMoney(hd[w])'
    BY <1>1, <2>2, <2>3, <2>4, <2>5 DEF HandlerMoney, CancelPcs
  <2> QED
    BY <2>2, <2>3, <2>5, <2>6, MoneyFrame DEF Collected
<1> QED
  BY <1>2, <1>3, <1>4, <1>5, <1>6, <1>7, <1>8, <1>9

LEMMA PollMoney ==
  ASSUME STypeInv, MoneyInv, NEW w \in Workers,
         ExpiredIgnored(w) \/ ExpiredChecked(w) \/ StillOpen(w) \/ FetchLink(w) \/ RecordSeen(w) \/ ExpiryFollowup(w)
  PROVE  MoneyInv'
<1> DEFINE h == hd[w]
           j == h.job
<1>1. TypeOK /\ j \in Jobs /\ h \in HandlerState /\ HandlerMoney(h) /\ h.live = {}
  BY DEF STypeInv, HandlerTypeOK, JobPcs, ExpiredIgnored, ExpiredChecked, StillOpen, FetchLink, RecordSeen,
         ExpiryFollowup, MoneyInv, HandlerMoney, CancelPcs
<1>2. CASE ExpiredIgnored(w) \/ StillOpen(w) \/ ExpiryFollowup(w)
  BY <1>2, SameMoney, AnsweredMoney, MoneyFrame DEF ExpiredIgnored, StillOpen, ExpiryFollowup, vars, db, razorpay
<1>3. CASE ExpiredChecked(w)
  <2>1. UNCHANGED <<outcome, link>> /\ Handle(w, "polled")
    BY <1>3 DEF ExpiredChecked, vars
  <2>2. HandlerMoney(hd[w])'
    BY <1>1, <1>3, <2>1, HandleAt DEF ExpiredChecked, HandlerMoney, CancelPcs, Recovering
  <2> QED
    BY <2>1, <2>2, HandleAt, SameMoney, MoneyFrame
<1>4. CASE FetchLink(w)
  <2> DEFINE r == [h EXCEPT !.pc = "polled", !.seen = link[j]]
  <2>1. r.pc = "polled" /\ r.job = j /\ r.seen = link[j] /\ r.live = {}
    BY <1>1 DEF HandlerState
  <2>2. UNCHANGED <<outcome, link>> /\ hd'[w] = r /\ \A v \in Workers \ {w} : hd'[v] = hd[v]
    BY <1>4, MovedAt DEF FetchLink, vars
  <2>3. HandlerMoney(hd[w])'
    BY <2>1, <2>2 DEF HandlerMoney, CancelPcs, Recovering, Collected
  <2> QED
    BY <2>2, <2>3, SameMoney, MoneyFrame
<1>5. CASE RecordSeen(w)
  <2> DEFINE result == IF Recovering(h.seen) THEN "recovered" ELSE "lost"
  <2>1. UNCHANGED link /\ RecordOutcome(j, result) /\ (result = "recovered" => Collected(j))
    BY <1>1, <1>5 DEF RecordSeen, razorpay, HandlerMoney
  <2>2. RecoveredIsPaid'
    <3>1. \A k \in Jobs : Counted(k)' => Counted(k) \/ (k = j /\ result = "recovered")
      BY <1>1, <2>1, AppendCounts
    <3> QED
      BY <2>1, <3>1 DEF MoneyInv, RecoveredIsPaid, Counted, Collected
  <2>3. hd'[w].live = {} /\ hd'[w].pc \in {"idle", "lapsed"} /\ \A v \in Workers \ {w} : hd'[v] = hd[v]
    <3>1. CASE Answered(w)
      <4>1. hd'[w] = NoHandler /\ \A v \in Workers \ {w} : hd'[v] = hd[v]
        BY <3>1, MovedAt DEF Answered
      <4> QED
        BY <4>1 DEF NoHandler
    <3>2. CASE Handle(w, "lapsed")
      BY <1>1, <3>2, HandleAt
    <3> QED
      BY <1>5, <3>1, <3>2 DEF RecordSeen
  <2>4. HandlerMoney(hd[w])'
    BY <2>3 DEF HandlerMoney, CancelPcs
  <2>5. ASSUME NEW v \in Workers \ {w} PROVE HandlerMoney(hd[v])'
    BY <2>1, <2>3, <2>5 DEF MoneyInv, HandlerMoney, Collected, Serial
  <2> QED
    BY <2>1, <2>2, <2>4, <2>5 DEF MoneyInv
<1> QED
  BY <1>2, <1>3, <1>4, <1>5

LEMMA ReceiveMoney ==
  ASSUME STypeInv, MoneyInv, NEW w \in Workers, Receive(w)
  PROVE  MoneyInv'
<1>1. UNCHANGED <<outcome, link>> /\ hd[w] = NoHandler
  BY DEF Receive, ReceivePaid, ReceiveExpired, PollLink, ReceiveCaptured, Free, vars
<1>2. ASSUME NEW r, hd' = [hd EXCEPT ![w] = r], HandlerMoney(hd[w])' PROVE MoneyInv'
  BY <1>1, <1>2, MovedAt, SameMoney, MoneyFrame
<1>3. ASSUME NEW j \in Jobs, ReceivePaid(w, j) PROVE MoneyInv'
  <2> DEFINE r == [NoHandler EXCEPT !.pc = "paid", !.job = j, !.seen = link[j]]
  <2>1. r.pc = "paid" /\ r.job = j /\ r.live = {} /\ hd' = [hd EXCEPT ![w] = r] /\ Collected(j)
    BY <1>1, <1>3 DEF ReceivePaid, NoHandler, PaymentLinkPaid, Collected
  <2>2. HandlerMoney(hd[w])'
    BY <1>1, <2>1, MovedAt DEF HandlerMoney, CancelPcs, Collected
  <2> QED
    BY <1>2, <2>1, <2>2
<1>4. ASSUME NEW j \in Jobs, ReceiveExpired(w, j) PROVE MoneyInv'
  <2> DEFINE r == [NoHandler EXCEPT !.pc = "expired", !.job = j, !.seen = "expired"]
  <2>1. r.pc = "expired" /\ r.seen = "expired" /\ r.live = {} /\ hd' = [hd EXCEPT ![w] = r]
    BY <1>1, <1>4 DEF ReceiveExpired, NoHandler
  <2>2. HandlerMoney(hd[w])'
    BY <2>1, MovedAt DEF HandlerMoney, CancelPcs, Recovering
  <2> QED
    BY <1>2, <2>1, <2>2
<1>5. ASSUME NEW j \in Jobs, PollLink(w, j) PROVE MoneyInv'
  <2> DEFINE r == [NoHandler EXCEPT !.pc = "fetch", !.job = j]
  <2>1. r.pc = "fetch" /\ r.live = {} /\ hd' = [hd EXCEPT ![w] = r]
    BY <1>1, <1>5 DEF PollLink, NoHandler
  <2>2. HandlerMoney(hd[w])'
    BY <2>1, MovedAt DEF HandlerMoney, CancelPcs
  <2> QED
    BY <1>2, <2>1, <2>2
<1>6. ASSUME NEW o \in Orders, ReceiveCaptured(w, o) PROVE MoneyInv'
  <2> DEFINE r == [NoHandler EXCEPT !.pc = "mark", !.order = o]
  <2>1. r.pc = "mark" /\ r.live = {} /\ hd' = [hd EXCEPT ![w] = r]
    BY <1>1, <1>6 DEF ReceiveCaptured, NoHandler
  <2>2. HandlerMoney(hd[w])'
    BY <2>1, MovedAt DEF HandlerMoney, CancelPcs
  <2> QED
    BY <1>2, <2>1, <2>2
<1> QED
  BY <1>3, <1>4, <1>5, <1>6 DEF Receive

LEMMA WorldMoney ==
  ASSUME STypeInv, MoneyInv, World
  PROVE  MoneyInv'
<1>0. TypeOK
  BY DEF STypeInv
<1>1. ASSUME NEW j \in Jobs, NEW state, link' = [link EXCEPT ![j] = state], UNCHANGED <<outcome, hd>>,
             Collected(j) => state \in {"paid", "partial"}, Offered = {} => state # "partial"
      PROVE  MoneyInv'
  <2>1. \A k \in Jobs : link'[k] = IF k = j THEN state ELSE link[k]
    BY <1>0, <1>1 DEF TypeOK
  <2>2. \A k \in Jobs : Collected(k) => Collected(k)'
    BY <1>1, <2>1 DEF Collected
  <2> QED
    BY <1>1, <2>1, <2>2, MoneyFrame DEF Counted
<1>2. ASSUME NEW j \in Jobs, PayLink(j) PROVE MoneyInv'
  BY <1>1, <1>2 DEF PayLink, db
<1>3. ASSUME NEW j \in Jobs, PayPart(j) PROVE MoneyInv'
  BY <1>1, <1>3 DEF PayPart, db
<1>4. ASSUME NEW j \in Jobs, EndLink(j) PROVE MoneyInv'
  <2>1. PICK end \in {"expired", "cancelled"} : link' = [link EXCEPT ![j] = end]
    BY <1>4 DEF EndLink
  <2> QED
    BY <1>1, <1>4, <2>1 DEF EndLink, db, Collected
<1>5. ASSUME NEW j \in Jobs, Land(j), UNCHANGED hd PROVE MoneyInv'
  <2>1. link' = [link EXCEPT ![j] = IF link[j] = "none" THEN "created" ELSE link[j]]
    BY <1>5 DEF Land
  <2>2. Offered = {} => link[j] # "partial"
    BY DEF MoneyInv
  <2> QED
    BY <1>1, <1>5, <2>1, <2>2 DEF Land, db, Collected
<1>6. ASSUME NEW o \in Orders, PayElsewhere(o) PROVE MoneyInv'
  BY <1>6, SameMoney, MoneyFrame DEF PayElsewhere, Capture, db
<1>7. ASSUME NEW w \in Workers, SettlementCrash(w) PROVE MoneyInv'
  BY <1>7, SameMoney, AnsweredMoney, MoneyFrame DEF SettlementCrash, db, razorpay
<1> QED
  BY <1>2, <1>3, <1>4, <1>5, <1>6, <1>7 DEF World

LEMMA MoneyCorrect ==
  ASSUME Serial \/ Offered = {}
  PROVE  SSpec => []MoneyInv
<1>1. SInit => MoneyInv
  <2> SUFFICES ASSUME SInit PROVE MoneyInv
    OBVIOUS
  <2>1. RecoveredIsPaid /\ \A j \in Jobs : link[j] = "none"
    BY DEF SInit, Init, RecoveredIsPaid
  <2>2. \A w \in Workers : HandlerMoney(hd[w])
    BY NoHandlerMoney DEF SInit
  <2> QED
    BY <2>1, <2>2 DEF MoneyInv
<1>2. STypeInv /\ MoneyInv /\ [SNext]_svars => MoneyInv'
  <2> SUFFICES ASSUME STypeInv, MoneyInv, [SNext]_svars PROVE MoneyInv'
    OBVIOUS
  <2>1. CASE UNCHANGED svars
    BY <2>1, SameMoney, MoneyFrame DEF svars, vars
  <2>2. ASSUME NEW w \in Workers, Execution(w) \/ SettleStep(w) \/ Receive(w) PROVE MoneyInv'
    BY <2>2, ExecutionMoney, PaidMoney, OrderMoney, PollMoney, ReceiveMoney DEF SettleStep
  <2>3. CASE World
    BY <2>3, WorldMoney
  <2> QED
    BY <2>1, <2>2, <2>3 DEF SNext
<1> QED
  BY <1>1, <1>2, STypeCorrect, PTL DEF SSpec

(* The money of a recovered outcome is on its own link, whatever is          *)
(* delivered again, polled, repaired or cancelled, and also for a request    *)
(* that had failed and landed late.  Under the lock of serve for every link; *)
(* for any number of processes as long as no link takes part payments.       *)
THEOREM MoneyIsReal ==
  ASSUME Serial \/ Offered = {}
  PROVE  SSpec => []RecoveredIsPaid
<1>1. MoneyInv => RecoveredIsPaid
  BY DEF MoneyInv
<1> QED
  BY <1>1, MoneyCorrect, PTL
=============================================================================
