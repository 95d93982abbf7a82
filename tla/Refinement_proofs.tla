-------------------------- MODULE Refinement_proofs --------------------------
(***************************************************************************)
(* Theorems of the executor and the settlement under the lock of serve:     *)
(* one process (Serial), and a Razorpay that does not complete a request    *)
(* after its answer was lost (~LateLanding).  AttemptsInTurn is inductive;  *)
(* from it come the invariants on links and outcomes and the refinement of  *)
(* RecoveryPromise.                                                        *)
(***************************************************************************)
EXTENDS Refinement, Settlement_proofs

-----------------------------------------------------------------------------
(* The rows of a payment. *)

LEMMA LastSeqIsLargest ==
  ASSUME NEW p, SeqsOf(p) # {}
  PROVE  LastSeq(p) \in SeqsOf(p) /\ \A t \in SeqsOf(p) : t <= LastSeq(p)
<1>1. SeqsOf(p) \in SUBSET (1..MaxSeq) /\ MaxSeq \in Nat
  BY ConstantsAssumption DEF SeqsOf
<1>2. \E s \in SeqsOf(p) : \A t \in SeqsOf(p) : t <= s
  BY <1>1, LargestExists
<1> QED
  BY <1>2 DEF LastSeq

LEMMA JobIsPair == ASSUME NEW j \in Jobs PROVE j = <<j[1], j[2]>> /\ j[1] \in Payments /\ j[2] \in 1..MaxSeq
BY DEF Jobs

LEMMA JobOfPayment == ASSUME NEW p \in Payments, NEW s \in 1..MaxSeq PROVE <<p, s>> \in Jobs
BY DEF Jobs

(* The row with the largest sequence is the latest one. *)
LEMMA NewestIsLast ==
  ASSUME NEW j \in Jobs, Exists(j)
  PROVE  /\ SeqsOf(j[1]) # {} /\ LastSeq(j[1]) \in SeqsOf(j[1])
         /\ Newest(j) <=> j[2] = LastSeq(j[1])
         /\ Newest(j) <=> j = Latest(j[1])
<1>1. j[2] \in SeqsOf(j[1]) /\ SeqsOf(j[1]) \subseteq Nat /\ j = <<j[1], j[2]>>
  BY JobIsPair DEF SeqsOf
<1>2. LastSeq(j[1]) \in SeqsOf(j[1]) /\ \A t \in SeqsOf(j[1]) : t <= LastSeq(j[1])
  BY <1>1, LastSeqIsLargest
<1>3. Newest(j) <=> j[2] = LastSeq(j[1])
  BY <1>1, <1>2 DEF Newest
<1> QED
  BY <1>1, <1>2, <1>3 DEF Latest

SameRows == \A k \in Jobs : Exists(k)' <=> Exists(k)

LEMMA SameRowsView ==
  ASSUME SameRows, NEW p \in Payments
  PROVE  SeqsOf(p)' = SeqsOf(p) /\ LastSeq(p)' = LastSeq(p)
<1>1. SeqsOf(p)' = SeqsOf(p)
  BY JobOfPayment DEF SameRows, SeqsOf
<1> QED
  BY <1>1 DEF LastSeq

LEMMA SameRowsNewest ==
  ASSUME SameRows, NEW j \in Jobs
  PROVE  Newest(j)' <=> Newest(j)
BY SameRowsView, JobIsPair DEF Newest

-----------------------------------------------------------------------------
(* What the writes do to the rows.  OneRow: a step that touches one row that *)
(* exists keeps the others in turn.                                         *)

OnlyRow(j) == \A k \in Jobs \ {j} : job'[k] = job[k] /\ link'[k] = link[k] /\ outcome'[k] = outcome[k]

LEMMA OneRow ==
  ASSUME RowsInTurn, NEW j \in Jobs, OnlyRow(j), Exists(j), Exists(j)', RowInTurn(j)'
  PROVE  RowsInTurn' /\ SameRows /\ \A k \in Jobs : Newest(k)' <=> Newest(k)
<1>1. SameRows
  BY DEF SameRows, OnlyRow, Exists
<1>2. \A k \in Jobs : Newest(k)' <=> Newest(k)
  BY <1>1, SameRowsNewest
<1>3. ASSUME NEW k \in Jobs, k # j PROVE RowInTurn(k)'
  <2>1. job'[k] = job[k] /\ link'[k] = link[k] /\ outcome'[k] = outcome[k]
    BY <1>3 DEF OnlyRow
  <2>2. <<k[1], 1>> \in Jobs
    BY JobIsPair, ConstantsAssumption DEF Jobs
  <2>3. Exists(<<k[1], 1>>)' <=> Exists(<<k[1], 1>>)
    BY <1>1, <2>2 DEF SameRows
  <2> QED
    BY <1>2, <2>1, <2>3 DEF RowsInTurn, RowInTurn, Exists, Due, HasOutcome
<1> QED
  BY <1>1, <1>2, <1>3 DEF RowsInTurn

LEMMA NoRowChange ==
  ASSUME RowsInTurn, UNCHANGED <<job, outcome, link>>
  PROVE  RowsInTurn' /\ SameRows /\ \A k \in Jobs : Newest(k)' <=> Newest(k)
<1>1. SameRows
  BY DEF SameRows, Exists
<1>2. \A k \in Jobs : Newest(k)' <=> Newest(k)
  BY <1>1, SameRowsNewest
<1> QED
  BY <1>1, <1>2 DEF RowsInTurn, RowInTurn, Exists, Due, HasOutcome

LEMMA CommitAt ==
  ASSUME TypeOK, NEW j \in Jobs, NEW status, NEW kind, NEW linked \in BOOLEAN, Commit(j, status, kind, linked)
  PROVE  /\ job'[j].status = status
         /\ job'[j].link = (job[j].link \/ linked)
         /\ \A k \in Jobs \ {j} : job'[k] = job[k]
<1> DEFINE r == [job[j] EXCEPT !.status = status, !.kind = kind, !.link = job[j].link \/ linked]
<1>1. job \in [Jobs -> Row] /\ job[j] \in Row
  BY DEF TypeOK
<1>2. job'[j] = r /\ \A k \in Jobs \ {j} : job'[k] = job[k]
  BY <1>1 DEF Commit
<1>3. r.status = status /\ r.link = (job[j].link \/ linked)
  BY <1>1 DEF Row
<1> QED
  BY <1>2, <1>3

(* A commit of one row: it keeps a link it had, and becomes due again only   *)
(* when it was due and has no link.                                         *)
LEMMA CommitInTurn ==
  ASSUME TypeOK, RowsInTurn, NEW j \in Jobs, NEW status, NEW kind, NEW linked \in BOOLEAN,
         Commit(j, status, kind, linked), UNCHANGED <<outcome, link>>,
         Exists(j), status # "absent", linked => link[j] # "none",
         status \in DueStatuses => Due(j) /\ link[j] = "none"
  PROVE  /\ RowsInTurn' /\ SameRows /\ \A k \in Jobs : Newest(k)' <=> Newest(k)
         /\ job'[j].status = status /\ \A k \in Jobs \ {j} : job'[k] = job[k]
         /\ Exists(j)'
<1>1. job'[j].status = status /\ job'[j].link = (job[j].link \/ linked) /\ \A k \in Jobs \ {j} : job'[k] = job[k]
  BY CommitAt
<1>2. OnlyRow(j) /\ Exists(j)'
  BY <1>1 DEF OnlyRow, Exists
<1>3. SameRows
  BY <1>1, <1>2 DEF SameRows, Exists
<1>4. (Newest(j)' <=> Newest(j)) /\ Exists(<<j[1], 1>>)'
  <2>1. <<j[1], 1>> \in Jobs
    BY JobIsPair, ConstantsAssumption DEF Jobs
  <2> QED
    BY <1>3, <2>1, SameRowsNewest DEF SameRows, RowsInTurn, RowInTurn
<1>5. RowInTurn(j)'
  BY <1>1, <1>2, <1>4 DEF RowsInTurn, RowInTurn, Due, DueStatuses, HasOutcome
<1> QED
  BY <1>1, <1>2, <1>5, OneRow

LEMMA OutcomeAt ==
  ASSUME TypeOK, NEW j \in Jobs, NEW result, RecordOutcome(j, result), outcome[j] = <<>>
  PROVE  outcome'[j] = <<result>> /\ \A k \in Jobs \ {j} : outcome'[k] = outcome[k]
<1>1. outcome'[j] = Append(<<>>, result) /\ \A k \in Jobs \ {j} : outcome'[k] = outcome[k]
  BY DEF RecordOutcome, TypeOK
<1> QED
  BY <1>1

(* The outcome of a job that is not waiting for its link. *)
LEMMA OutcomeInTurn ==
  ASSUME TypeOK, RowsInTurn, NEW j \in Jobs, NEW result \in {"recovered", "lost"}, RecordOutcome(j, result),
         UNCHANGED <<job, link>>, Exists(j), outcome[j] = <<>>, ~Due(j),
         result = "recovered" => link[j] \in Collecting
  PROVE  /\ RowsInTurn' /\ SameRows /\ \A k \in Jobs : Newest(k)' <=> Newest(k)
         /\ outcome'[j] = <<result>> /\ \A k \in Jobs \ {j} : outcome'[k] = outcome[k]
<1>1. outcome'[j] = <<result>> /\ \A k \in Jobs \ {j} : outcome'[k] = outcome[k]
  BY OutcomeAt
<1>2. OnlyRow(j) /\ Exists(j)'
  BY <1>1 DEF OnlyRow, Exists
<1>3. SameRows
  BY DEF SameRows, Exists
<1>4. (Newest(j)' <=> Newest(j)) /\ Exists(<<j[1], 1>>)'
  <2>1. <<j[1], 1>> \in Jobs
    BY JobIsPair, ConstantsAssumption DEF Jobs
  <2> QED
    BY <1>3, <2>1, SameRowsNewest DEF SameRows, RowsInTurn, RowInTurn
<1>5. RowInTurn(j)'
  BY <1>1, <1>2, <1>4 DEF RowsInTurn, RowInTurn, Due, HasOutcome, Exists
<1> QED
  BY <1>1, <1>2, <1>5, OneRow

(* The link of the newest row changes, at Razorpay.  *)
LEMMA LinkInTurn ==
  ASSUME TypeOK, RowsInTurn, NEW j \in Jobs, NEW l \in LinkStates \ {"none"}, link' = [link EXCEPT ![j] = l],
         UNCHANGED <<job, outcome>>, Exists(j), Newest(j), j[2] <= MaxAttempts, job[j].status # "pending",
         outcome[j] = <<"recovered">> => l \in Collecting
  PROVE  /\ RowsInTurn' /\ SameRows /\ \A k \in Jobs : Newest(k)' <=> Newest(k)
         /\ link'[j] = l /\ \A k \in Jobs \ {j} : link'[k] = link[k]
<1>1. link'[j] = l /\ \A k \in Jobs \ {j} : link'[k] = link[k]
  BY DEF TypeOK
<1>2. OnlyRow(j) /\ Exists(j)'
  BY <1>1 DEF OnlyRow, Exists
<1>3. SameRows
  BY DEF SameRows, Exists
<1>4. (Newest(j)' <=> Newest(j)) /\ Exists(<<j[1], 1>>)'
  <2>1. <<j[1], 1>> \in Jobs
    BY JobIsPair, ConstantsAssumption DEF Jobs
  <2> QED
    BY <1>3, <2>1, SameRowsNewest DEF SameRows, RowsInTurn, RowInTurn
<1>5. RowInTurn(j)'
  BY <1>1, <1>2, <1>4 DEF RowsInTurn, RowInTurn, Due, HasOutcome, Exists
<1> QED
  BY <1>1, <1>2, <1>5, OneRow

-----------------------------------------------------------------------------
(* The process executes: ingest, the sweep, execute_job, finish_job.        *)

Busy(w, j) == wk[w].pc # "idle" /\ j = wk[w].job

LEMMA BusyJob ==
  ASSUME TypeOK, NEW w \in Workers, NEW j, Busy(w, j)
  PROVE  j \in Jobs /\ wk[w] \in WorkerState /\ wk \in [Workers -> WorkerState]
BY DEF TypeOK, Busy

LEMMA IdleInTurn ==
  ASSUME TypeOK, NEW w \in Workers, Done(w)
  PROVE  WorkerInTurn(wk[w])'
BY DoneAt DEF WorkerInTurn

(* What holds of a row that exists, is due, or has no link. *)
LEMMA DueRow ==
  ASSUME TypeOK, RowsInTurn, NEW j \in Jobs, Due(j)
  PROVE  /\ Exists(j) /\ j[2] <= MaxAttempts
         /\ job[j].status = "pending" => link[j] = "none"
         /\ link[j] = "none" => outcome[j] = <<>> /\ Newest(j)
BY DEF RowsInTurn, RowInTurn, Due, DueStatuses, Exists

LEMMA BeginInTurn ==
  ASSUME TypeOK, AttemptsInTurn, NEW w \in Workers, Begin(w)
  PROVE  RowsInTurn' /\ SameRows /\ WorkerInTurn(wk[w])'
<1>1. RowsInTurn' /\ SameRows /\ UNCHANGED <<job, link, outcome>>
  BY NoRowChange DEF AttemptsInTurn, Begin, ProcessAttempt, Sweep, db, razorpay
<1>2. ASSUME NEW p \in Payments, ProcessAttempt(w, p) PROVE WorkerInTurn(wk[w])'
  <2>1. wk'[w].pc = "insert" /\ wk'[w].job = <<p, 1>>
    BY <1>2 DEF ProcessAttempt, TypeOK, Idle
  <2> QED
    BY <2>1 DEF WorkerInTurn
<1>3. ASSUME NEW j \in Jobs, Sweep(w, j) PROVE WorkerInTurn(wk[w])'
  <2>1. wk'[w].pc = (IF job[j].status = "executing" THEN "recover" ELSE "execute") /\ wk'[w].job = j
    BY <1>3 DEF Sweep, TypeOK, Idle
  <2>2. job'[j].status = job[j].status /\ job[j].status \in DueStatuses
    BY <1>1, <1>3 DEF Sweep
  <2> QED
    BY <2>1, <2>2 DEF WorkerInTurn, DueStatuses
<1> QED
  BY <1>1, <1>2, <1>3 DEF Begin

(* The next row of a payment: the earlier ones are over. *)
LEMMA InsertInTurn ==
  ASSUME TypeOK, AttemptsInTurn, NEW w \in Workers, NEW j, Busy(w, j), Insert(w)
  PROVE  /\ RowsInTurn' /\ WorkerInTurn(wk[w])'
         /\ ~Exists(j) /\ Exists(j)' /\ \A k \in Jobs \ {j} : Exists(k)' <=> Exists(k)
         /\ \A k \in Jobs : Exists(k) /\ k[1] = j[1] => k[2] < j[2]
         /\ j[2] = 1 \/ MayFollow(<<j[1], j[2] - 1>>)
<1> DEFINE i == <<j[1], j[2] - 1>>
<1>1. j \in Jobs /\ wk[w].pc = "insert" /\ WorkerInTurn(wk[w]) /\ RowsInTurn /\ ~Exists(j)
  BY BusyJob DEF Insert, KeyTaken, AttemptsInTurn, Busy
<1>2. j[2] = 1 \/ MayFollow(i)
  BY <1>1 DEF WorkerInTurn, Busy
<1>3. PICK status \in ScheduleStatuses(j, wk[w].answer) :
        /\ job' = [job EXCEPT ![j] = [NoRow EXCEPT !.status = status]]
        /\ \/ status \in Parked /\ GotoWith(w, "park", status, "none")
           \/ status = "pending" /\ j[2] = 1 /\ GotoWith(w, "execute", status, "none")
           \/ status = "pending" /\ Done(w)
  BY DEF Insert, Busy
<1>4. status \in Parked \cup {"pending"} /\ (status = "pending" => j[2] <= MaxAttempts)
  BY <1>3 DEF ScheduleStatuses, Parked, WithinBudget
<1>5. /\ job'[j].status = status /\ job'[j].link = FALSE /\ Exists(j)'
      /\ \A k \in Jobs \ {j} : job'[k] = job[k]
      /\ UNCHANGED <<link, outcome>>
  BY <1>1, <1>3, <1>4 DEF TypeOK, NoRow, Exists, Insert, Parked, razorpay
<1>6. \A k \in Jobs \ {j} : Exists(k)' <=> Exists(k)
  BY <1>5 DEF Exists
<1>7. link[j] = "none" /\ outcome[j] = <<>>
  BY <1>1 DEF RowsInTurn, RowInTurn
<1>8. j = <<j[1], j[2]>> /\ j[1] \in Payments /\ j[2] \in 1..MaxSeq /\ MaxSeq \in Nat /\ MaxAttempts \in Nat
  BY <1>1, JobIsPair, ConstantsAssumption
<1>9. j[2] # 1 => i \in Jobs /\ i[1] = j[1] /\ i[2] = j[2] - 1
  BY <1>8 DEF Jobs
<1>10. \A k \in Jobs : Exists(k) /\ k[1] = j[1] => k[2] < j[2]
  <2> SUFFICES ASSUME NEW k \in Jobs, Exists(k), k[1] = j[1] PROVE k[2] < j[2]
    OBVIOUS
  <2>1. CASE j[2] = 1
    BY <1>1, <1>8, <2>1 DEF RowsInTurn, RowInTurn
  <2>2. CASE MayFollow(i) /\ j[2] # 1
    <3>1. k[2] \in SeqsOf(i[1]) /\ k[2] \in Nat
      BY JobIsPair, <1>8, <1>9, <2>2 DEF SeqsOf
    <3> QED
      BY <1>8, <1>9, <2>2, <3>1 DEF MayFollow, Newest
  <2> QED
    BY <1>2, <2>1, <2>2
<1>11. Newest(j)'
  <2> SUFFICES ASSUME NEW s \in 1..MaxSeq, Exists(<<j[1], s>>)' PROVE s <= j[2]
    BY DEF Newest, SeqsOf
  <2>1. <<j[1], s>> \in Jobs
    BY <1>8, JobOfPayment
  <2>2. CASE s = j[2]
    BY <1>8, <2>2
  <2>3. CASE s # j[2]
    <3>1. Exists(<<j[1], s>>)
      BY <1>6, <1>8, <2>1, <2>3
    <3> QED
      BY <1>8, <1>10, <2>1, <3>1
  <2> QED
    BY <2>2, <2>3
<1>12. \A k \in Jobs : k[1] # j[1] => (Newest(k)' <=> Newest(k))
  <2> SUFFICES ASSUME NEW k \in Jobs, k[1] # j[1] PROVE Newest(k)' <=> Newest(k)
    OBVIOUS
  <2>1. \A s \in 1..MaxSeq : Exists(<<k[1], s>>)' <=> Exists(<<k[1], s>>)
    BY <1>6, JobIsPair, JobOfPayment, <1>8
  <2> QED
    BY <2>1 DEF Newest, SeqsOf
<1>13. \A k \in Jobs : Exists(<<k[1], 1>>) => Exists(<<k[1], 1>>)'
  <2> SUFFICES ASSUME NEW k \in Jobs, Exists(<<k[1], 1>>) PROVE Exists(<<k[1], 1>>)'
    OBVIOUS
  <2>1. <<k[1], 1>> \in Jobs
    BY JobIsPair, ConstantsAssumption DEF Jobs
  <2> QED
    BY <1>5, <1>6, <2>1
<1>14. RowInTurn(j)'
  <2>1. j[2] <= MaxAttempts + 1
    BY <1>2, <1>8, <1>9, ConstantsAssumption DEF MayFollow
  <2>2. Exists(<<j[1], 1>>)'
    <3>1. CASE j[2] = 1
      BY <1>5, <1>8, <3>1
    <3>2. CASE j[2] # 1
      BY <1>1, <1>2, <1>9, <1>13, <3>2 DEF MayFollow, RowsInTurn, RowInTurn
    <3> QED
      BY <3>1, <3>2
  <2> QED
    BY <1>4, <1>5, <1>7, <1>11, <2>1, <2>2 DEF RowInTurn, Due, DueStatuses, Parked, HasOutcome
<1>15. ASSUME NEW k \in Jobs, k # j PROVE RowInTurn(k)'
  <2>1. job'[k] = job[k] /\ link'[k] = link[k] /\ outcome'[k] = outcome[k] /\ (Exists(k)' <=> Exists(k)) /\ RowInTurn(k)
    BY <1>1, <1>5, <1>6, <1>15 DEF RowsInTurn
  <2>2. CASE k[1] # j[1] \/ ~Exists(k)
    <3>1. Exists(k) => (Newest(k)' <=> Newest(k))
      BY <1>12, <2>2
    <3>2. Exists(k) => Exists(<<k[1], 1>>)'
      BY <1>13, <2>1 DEF RowInTurn
    <3> QED
      BY <2>1, <3>1, <3>2 DEF RowInTurn, Due, DueStatuses, HasOutcome, Exists
  <2>3. CASE k[1] = j[1] /\ Exists(k)
    <3>1. j[2] # 1 /\ MayFollow(i) /\ k[2] < j[2] /\ k[2] \in 1..MaxSeq
      BY <1>2, <1>8, <1>10, <2>3, JobIsPair
    <3>2. ~(Due(k) /\ link[k] = "none") /\ link[k] \in Unpaid /\ (link[k] # "none" => HasOutcome(k))
      <4>1. CASE k[2] = i[2]
        <5>1. k = i
          BY <1>9, <2>3, <3>1, <4>1, JobIsPair
        <5> QED
          BY <3>1, <5>1 DEF MayFollow, Unpaid
      <4>2. CASE k[2] # i[2]
        <5>1. ~Newest(k)
          <6>1. i[2] \in SeqsOf(k[1]) /\ i[2] > k[2]
            BY <1>8, <1>9, <2>3, <3>1, <4>2 DEF MayFollow, SeqsOf, Jobs
          <6> QED
            BY <3>1, <6>1, <1>8, <1>9 DEF Newest
        <5> QED
          BY <2>1, <2>3, <5>1 DEF RowInTurn
      <4> QED
        BY <4>1, <4>2
    <3>3. Exists(<<k[1], 1>>)'
      BY <1>13, <2>1, <2>3 DEF RowInTurn
    <3> QED
      BY <2>1, <2>3, <3>2, <3>3 DEF RowInTurn, Due, HasOutcome
  <2> QED
    BY <2>2, <2>3
<1>16. WorkerInTurn(wk[w])'
  <2>1. CASE status \in Parked /\ GotoWith(w, "park", status, "none")
    <3>1. wk'[w].pc = "park" /\ wk'[w].job = j
      BY <2>1, GotoWithAt DEF Busy
    <3> QED
      BY <1>5, <1>7, <2>1, <3>1 DEF WorkerInTurn, Due, DueStatuses, Parked
  <2>2. CASE status = "pending" /\ GotoWith(w, "execute", status, "none")
    <3>1. wk'[w].pc = "execute" /\ wk'[w].job = j
      BY <2>2, GotoWithAt DEF Busy
    <3> QED
      BY <1>5, <2>2, <3>1 DEF WorkerInTurn
  <2> QED
    BY <1>3, <2>1, <2>2, IdleInTurn
<1> QED
  BY <1>1, <1>2, <1>5, <1>6, <1>10, <1>14, <1>15, <1>16 DEF RowsInTurn

LEMMA ScheduleInTurn ==
  ASSUME TypeOK, AttemptsInTurn, NEW w \in Workers, NEW j, Busy(w, j), ScheduleStep(w)
  PROVE  RowsInTurn' /\ (SameRows \/ Insert(w)) /\ WorkerInTurn(wk[w])'
<1>1. j \in Jobs /\ WorkerInTurn(wk[w]) /\ RowsInTurn /\ wk[w].job = j
  BY BusyJob DEF AttemptsInTurn, Busy
<1>2. CASE Followup(w)
  <2>1. RowsInTurn' /\ SameRows /\ (\A k \in Jobs : Newest(k)' <=> Newest(k)) /\ UNCHANGED <<job, link, outcome>>
    BY <1>1, <1>2, NoRowChange DEF Followup, db, razorpay
  <2>2. MayFollow(j)
    BY <1>1, <1>2 DEF Followup, WorkerInTurn
  <2>3. wk'[w].pc = "insert" /\ wk'[w].job = <<j[1], NextRetrySeq(j[1])>>
    BY <1>1, <1>2 DEF Followup, TypeOK, Idle
  <2>4. LastSeq(j[1]) = j[2] /\ NextRetrySeq(j[1]) = j[2] + 1 /\ j[2] \in Nat /\ j = <<j[1], j[2]>>
    BY <1>1, <2>2, NewestIsLast, JobIsPair DEF MayFollow, NextRetrySeq
  <2>5. MayFollow(j)'
    BY <1>1, <2>1, <2>2 DEF MayFollow, Exists, Due, HasOutcome
  <2>6. wk'[w].job = <<j[1], j[2] + 1>>
    BY <2>3, <2>4
  <2>7. <<wk'[w].job[1], wk'[w].job[2] - 1>> = j
    BY <2>4, <2>6
  <2> QED
    BY <2>1, <2>3, <2>5, <2>7 DEF WorkerInTurn
<1>3. CASE InsertDuplicate(w)
  BY <1>1, <1>3, NoRowChange, IdleInTurn DEF InsertDuplicate, db, razorpay
<1>4. CASE Insert(w)
  BY <1>4, InsertInTurn
<1>5. CASE Park(w)
  <2>1. Exists(j) /\ ~Due(j) /\ outcome[j] = <<>>
    BY <1>1, <1>5 DEF Park, WorkerInTurn
  <2> QED
    BY <1>1, <1>5, <2>1, OutcomeInTurn, IdleInTurn DEF Park, razorpay
<1> QED
  BY <1>2, <1>3, <1>4, <1>5 DEF ScheduleStep

LEMMA RecoverInTurn ==
  ASSUME TypeOK, AttemptsInTurn, NEW w \in Workers, NEW j, Busy(w, j), RecoverStep(w)
  PROVE  RowsInTurn' /\ SameRows /\ WorkerInTurn(wk[w])'
<1>1. j \in Jobs /\ WorkerInTurn(wk[w]) /\ RowsInTurn /\ wk[w].job = j
  BY BusyJob DEF AttemptsInTurn, Busy
<1>2. CASE RecoverLookup(w)
  <2>1. RowsInTurn' /\ SameRows /\ UNCHANGED <<job, link, outcome>>
    BY <1>1, <1>2, NoRowChange DEF RecoverLookup, db, razorpay
  <2>2. PICK answer \in LookupByReference(j) :
          wk' = [wk EXCEPT ![w] = [@ EXCEPT !.pc = "recovered", !.status = job[j].status, !.answer = answer]]
    BY <1>1, <1>2 DEF RecoverLookup
  <2>3. wk'[w].pc = "recovered" /\ wk'[w].job = j /\ wk'[w].status = job[j].status /\ wk'[w].answer = answer
    BY <1>1, <2>2 DEF TypeOK, WorkerState
  <2>4. (answer = "found" => link[j] # "none") /\ (answer = "absent" => link[j] = "none")
    BY <2>2 DEF LookupByReference
  <2>5. job[j].status = "executing"
    BY <1>1, <1>2 DEF RecoverLookup, WorkerInTurn
  <2> QED
    BY <2>1, <2>3, <2>4, <2>5 DEF WorkerInTurn
<1>3. CASE RecoverStaleExecution(w)
  <2> DEFINE status == RecoveredStatus(wk[w].answer)
  <2>1. /\ job[j].status = "executing" /\ wk[w].status = "executing"
        /\ wk[w].answer = "found" => link[j] # "none"
        /\ wk[w].answer = "absent" => link[j] = "none"
    BY <1>1, <1>3 DEF RecoverStaleExecution, WorkerInTurn
  <2>2. /\ status \in {"sent", "pending", "human_queue"}
        /\ status = "sent" => link[j] # "none"
        /\ status = "pending" => link[j] = "none"
    BY <2>1 DEF RecoveredStatus
  <2>3. Commit(j, status, "none", status = "sent") /\ UNCHANGED <<link, outcome>>
    BY <1>1, <1>3, <2>1, <2>2 DEF RecoverStaleExecution, razorpay
  <2>4. Due(j) /\ Exists(j)
    BY <2>1 DEF Due, DueStatuses, Exists
  <2>5. RowsInTurn' /\ SameRows /\ job'[j].status = status /\ Exists(j)'
    BY <1>1, <2>2, <2>3, <2>4, CommitInTurn DEF DueStatuses
  <2>6. ASSUME NEW pc, GotoWith(w, pc, status, "none") PROVE wk'[w].pc = pc /\ wk'[w].job = j /\ wk'[w].status = status
    BY <1>1, <2>6, GotoWithAt
  <2>7. wk'[w].pc = (IF status = "pending" THEN "execute" ELSE "finish") /\ wk'[w].job = j /\ wk'[w].status = status
    BY <1>3, <2>6 DEF RecoverStaleExecution
  <2> QED
    BY <2>2, <2>5, <2>7 DEF WorkerInTurn, Due, DueStatuses
<1> QED
  BY <1>2, <1>3 DEF RecoverStep

(* The row is finished with a status that is not due, nor a failure. *)
LEMMA FinishedInTurn ==
  ASSUME TypeOK, AttemptsInTurn, NEW w \in Workers, NEW j, Busy(w, j), Exists(j),
         NEW status, status \notin DueStatuses \cup {"absent", "failed"}, NEW linked \in BOOLEAN, linked => link[j] # "none",
         Commit(j, status, "none", linked), UNCHANGED <<link, outcome>>, GotoWith(w, "finish", status, "none")
  PROVE  RowsInTurn' /\ SameRows /\ WorkerInTurn(wk[w])'
<1>1. j \in Jobs /\ RowsInTurn /\ wk[w].job = j
  BY BusyJob DEF AttemptsInTurn, Busy
<1>2. RowsInTurn' /\ SameRows /\ job'[j].status = status /\ Exists(j)'
  BY <1>1, CommitInTurn
<1>3. wk'[w].pc = "finish" /\ wk'[w].job = j /\ wk'[w].status = status
  BY <1>1, GotoWithAt
<1> QED
  BY <1>2, <1>3 DEF WorkerInTurn, Due

LEMMA GuardInTurn ==
  ASSUME TypeOK, AttemptsInTurn, NEW w \in Workers, NEW j, Busy(w, j), GuardStep(w)
  PROVE  RowsInTurn' /\ SameRows /\ WorkerInTurn(wk[w])'
<1>1. j \in Jobs /\ WorkerInTurn(wk[w]) /\ RowsInTurn /\ wk[w].job = j
  BY BusyJob DEF AttemptsInTurn, Busy
<1>2. ASSUME job[j].status = "pending"
      PROVE  Due(j) /\ Exists(j) /\ link[j] = "none" /\ outcome[j] = <<>> /\ Newest(j) /\ j[2] <= MaxAttempts
  BY <1>1, <1>2, DueRow DEF Due, DueStatuses
<1>3. CASE Execute(w)
  <2>1. RowsInTurn' /\ SameRows /\ UNCHANGED <<job, link, outcome>>
    BY <1>1, <1>3, NoRowChange DEF Execute, db, razorpay
  <2>2. job[j].status = "pending"
    BY <1>1, <1>3 DEF Execute, WorkerInTurn
  <2>3. wk'[w].job = j /\ wk'[w].pc \in {"void", "stub", "refuse", "claim"}
    BY <1>1, <1>3, <2>2, GotoWithAt DEF Execute, Terminal
  <2> QED
    BY <1>2, <2>1, <2>2, <2>3 DEF WorkerInTurn, Due
<1>4. CASE VoidOrderPaid(w)
  <2>1. Due(j) /\ link[j] = "none"
    BY <1>1, <1>4 DEF VoidOrderPaid, WorkerInTurn
  <2>2. Exists(j) /\ outcome[j] = <<>>
    BY <1>1, <2>1, DueRow
  <2>3. RowsInTurn' /\ SameRows /\ job'[j].status = "no_action" /\ Exists(j)' /\ UNCHANGED outcome
    BY <1>1, <1>4, <2>2, CommitInTurn DEF VoidOrderPaid, DueStatuses, razorpay
  <2>4. wk'[w].pc = "voided" /\ wk'[w].job = j
    BY <1>1, <1>4, GotoAt DEF VoidOrderPaid
  <2> QED
    BY <2>2, <2>3, <2>4 DEF WorkerInTurn, Due, DueStatuses
<1>5. CASE VoidOutcome(w)
  <2>1. Exists(j) /\ ~Due(j) /\ outcome[j] = <<>>
    BY <1>1, <1>5 DEF VoidOutcome, WorkerInTurn
  <2> QED
    BY <1>1, <1>5, <2>1, OutcomeInTurn, IdleInTurn DEF VoidOutcome, razorpay
<1>6. CASE StubTokenRetry(w)
  <2>1. Exists(j)
    BY <1>1, <1>2, <1>6 DEF StubTokenRetry, WorkerInTurn
  <2> QED
    BY <1>1, <1>6, <2>1, FinishedInTurn DEF StubTokenRetry, DueStatuses, razorpay
<1>7. CASE RefuseLocally(w)
  <2>1. job[j].status = "pending"
    BY <1>1, <1>7 DEF RefuseLocally, WorkerInTurn
  <2>2. /\ RowsInTurn' /\ SameRows /\ job'[j].status = "failed" /\ Exists(j)' /\ UNCHANGED link
        /\ \A k \in Jobs : Newest(k)' <=> Newest(k)
    BY <1>1, <1>2, <1>7, <2>1, CommitInTurn DEF RefuseLocally, DueStatuses, razorpay
  <2>3. wk'[w].pc = "finish" /\ wk'[w].job = j /\ wk'[w].status = "failed"
    BY <1>1, <1>7, GotoWithAt DEF RefuseLocally
  <2> QED
    BY <1>1, <1>2, <2>1, <2>2, <2>3 DEF WorkerInTurn, Due, DueStatuses
<1>8. CASE ClaimForExecution(w)
  <2>1. job[j].status = "pending" /\ job' = [job EXCEPT ![j].status = "executing"] /\ UNCHANGED <<link, outcome>>
    BY <1>1, <1>8 DEF ClaimForExecution, razorpay
  <2>2. job'[j].status = "executing" /\ job'[j].link = job[j].link /\ \A k \in Jobs \ {j} : job'[k] = job[k]
    BY <1>1, <2>1 DEF TypeOK, Row
  <2>3. OnlyRow(j) /\ Exists(j) /\ Exists(j)'
    BY <2>1, <2>2 DEF OnlyRow, Exists
  <2>4. SameRows
    BY <2>2, <2>3 DEF SameRows, Exists
  <2>5. (Newest(j)' <=> Newest(j)) /\ Exists(<<j[1], 1>>)'
    <3>1. <<j[1], 1>> \in Jobs
      BY <1>1, JobIsPair, ConstantsAssumption DEF Jobs
    <3> QED
      BY <1>1, <2>3, <2>4, <3>1, SameRowsNewest DEF SameRows, RowsInTurn, RowInTurn
  <2>6. RowInTurn(j)'
    BY <1>1, <1>2, <2>1, <2>2, <2>3, <2>5 DEF RowsInTurn, RowInTurn, Due, DueStatuses, HasOutcome
  <2>7. RowsInTurn'
    BY <1>1, <2>3, <2>6, OneRow
  <2>8. wk'[w].pc \in {"shadow", "direct", "check"} /\ wk'[w].job = j
    BY <1>1, <1>8, GotoWithAt DEF ClaimForExecution
  <2> QED
    BY <1>2, <2>1, <2>2, <2>4, <2>7, <2>8 DEF WorkerInTurn
<1>9. CASE ClaimRefused(w)
  BY <1>1, <1>9 DEF ClaimRefused, WorkerInTurn
<1> QED
  BY <1>3, <1>4, <1>5, <1>6, <1>7, <1>8, <1>9 DEF GuardStep

(* After the claim and before the create calls. *)
LEMMA ChecksInTurn ==
  ASSUME TypeOK, AttemptsInTurn, NEW w \in Workers, NEW j, Busy(w, j),
         \/ FinishShadow(w) \/ SendSubscriptionPage(w) \/ OrderCheckPaid(w) \/ OrderCheckPasses(w)
         \/ EarlierLanded(w) \/ EarlierNone(w) \/ Superseded(w)
  PROVE  RowsInTurn' /\ SameRows /\ WorkerInTurn(wk[w])'
<1>1. j \in Jobs /\ WorkerInTurn(wk[w]) /\ RowsInTurn /\ wk[w].job = j
  BY BusyJob DEF AttemptsInTurn, Busy
<1>2. job[j].status = "executing" /\ link[j] = "none"
  BY <1>1 DEF WorkerInTurn, FinishShadow, SendSubscriptionPage, OrderCheckPaid, OrderCheckPasses,
         EarlierLanded, EarlierNone, Superseded
<1>3. Due(j) /\ Exists(j) /\ outcome[j] = <<>> /\ Newest(j)
  BY <1>1, <1>2, DueRow DEF Due, DueStatuses
<1>4. CASE FinishShadow(w) \/ SendSubscriptionPage(w)
  BY <1>1, <1>3, <1>4, FinishedInTurn DEF FinishShadow, SendSubscriptionPage, DueStatuses, razorpay
<1>5. CASE OrderCheckPaid(w) \/ OrderCheckPasses(w)
  <2>1. RowsInTurn' /\ SameRows /\ UNCHANGED <<job, link>>
    BY <1>1, <1>5, NoRowChange DEF OrderCheckPaid, OrderCheckPasses, db, razorpay
  <2>2. wk'[w].pc \in {"void", "earlier"} /\ wk'[w].job = j
    BY <1>1, <1>5, GotoAt DEF OrderCheckPaid, OrderCheckPasses
  <2> QED
    BY <1>2, <1>3, <2>1, <2>2 DEF WorkerInTurn, Due
<1>6. CASE EarlierLanded(w)
  <2>1. PICK k \in LandedSuspects(j) : Commit(k, "sent", "none", TRUE)
    BY <1>1, <1>6 DEF EarlierLanded
  <2>2. k \in Jobs /\ link[k] # "none" /\ job[k].status = "failed"
    BY <1>1, <2>1, SuspectsAreJobs DEF LandedSuspects, Suspects, AmbiguousFailures
  <2>3. RowsInTurn' /\ SameRows /\ (\A i \in Jobs \ {k} : job'[i] = job[i]) /\ UNCHANGED link
    BY <1>1, <1>6, <2>1, <2>2, CommitInTurn DEF EarlierLanded, Exists, DueStatuses, razorpay
  <2>4. wk'[w].pc = "superseded" /\ wk'[w].job = j
    BY <1>1, <1>6, GotoAt DEF EarlierLanded
  <2>5. job'[j] = job[j]
    BY <1>1, <1>2, <2>2, <2>3
  <2> QED
    BY <1>2, <2>3, <2>4, <2>5 DEF WorkerInTurn
<1>7. CASE EarlierNone(w)
  <2>1. /\ RowsInTurn' /\ SameRows /\ UNCHANGED <<job, link, outcome>>
        /\ \A k \in Jobs : Newest(k)' <=> Newest(k)
    BY <1>1, <1>7, NoRowChange DEF EarlierNone, db, razorpay
  <2>2. wk'[w].pc = "create" /\ wk'[w].job = j /\ wk'[w].kind = "none"
    BY <1>1, <1>7 DEF EarlierNone, TypeOK, WorkerState
  <2> QED
    BY <1>1, <1>2, <1>3, <2>1, <2>2 DEF WorkerInTurn
<1>8. CASE Superseded(w)
  BY <1>1, <1>3, <1>8, CommitInTurn, IdleInTurn DEF Superseded, DueStatuses, razorpay
<1> QED
  BY <1>4, <1>5, <1>6, <1>7, <1>8

(* The create call did its work: the link of the newest row. *)
LEMMA CreatedInTurn ==
  ASSUME TypeOK, AttemptsInTurn, NEW j \in Jobs, job[j].status = "executing", Newest(j), outcome[j] = <<>>,
         link' = [link EXCEPT ![j] = "created"], UNCHANGED <<job, outcome>>
  PROVE  RowsInTurn' /\ SameRows /\ link'[j] = "created" /\ Newest(j)'
<1>1. Due(j) /\ RowsInTurn
  BY DEF Due, DueStatuses, AttemptsInTurn
<1>2. Exists(j) /\ j[2] <= MaxAttempts
  BY <1>1, DueRow
<1>3. outcome[j] # <<"recovered">>
  OBVIOUS
<1> QED
  BY <1>1, <1>2, <1>3, LinkInTurn DEF LinkStates

LEMMA CreateInTurn ==
  ASSUME TypeOK, AttemptsInTurn, NEW w \in Workers, NEW j, Busy(w, j), ~LateLanding,
         CreateLink(w) \/ CreateDuplicate(w) \/ CreateRefused(w) \/ OfferRejected(w) \/ CreateUnanswered(w)
  PROVE  RowsInTurn' /\ SameRows /\ WorkerInTurn(wk[w])'
<1>1. j \in Jobs /\ WorkerInTurn(wk[w]) /\ RowsInTurn /\ wk[w].job = j /\ wk[w] \in WorkerState /\ wk[w].pc = "create"
  BY BusyJob DEF AttemptsInTurn, Busy, CreateLink, CreateDuplicate, CreateRefused, OfferRejected, CreateUnanswered
<1>2. /\ job[j].status = "executing" /\ Newest(j) /\ outcome[j] = <<>>
      /\ wk[w].kind \in AmbiguousKinds \/ (wk[w].kind = "none" /\ link[j] = "none")
  BY <1>1 DEF WorkerInTurn
<1>3. UNCHANGED <<job, outcome>>
  BY DEF CreateLink, CreateDuplicate, CreateRefused, OfferRejected, CreateUnanswered, db
<1>4. ASSUME UNCHANGED link PROVE RowsInTurn' /\ SameRows /\ Newest(j)'
  BY <1>1, <1>2, <1>3, <1>4, NoRowChange
<1>5. CASE CreateLink(w)
  <2>1. wk'[w].pc = "record" /\ wk'[w].job = j /\ wk'[w].status = "sent"
    BY <1>1, <1>5, GotoWithAt DEF CreateLink
  <2>2. RowsInTurn' /\ SameRows /\ link'[j] = "created" /\ Newest(j)'
    BY <1>1, <1>2, <1>3, <1>5, CreatedInTurn DEF CreateLink
  <2> QED
    BY <1>2, <1>3, <2>1, <2>2 DEF WorkerInTurn
<1>6. CASE CreateDuplicate(w)
  <2>1. UNCHANGED link /\ link[j] # "none" /\ wk'[w].pc = "duplicate" /\ wk'[w].job = j
    BY <1>1, <1>6, GotoAt DEF CreateDuplicate, razorpay
  <2> QED
    BY <1>2, <1>3, <1>4, <2>1 DEF WorkerInTurn
<1>7. CASE CreateRefused(w)
  <2>1. PICK kind \in {"rate_limited", "final_4xx"} : AfterFailure(w, kind) /\ UNCHANGED link
    BY <1>7 DEF CreateRefused, razorpay
  <2>2. FailureOf(w, kind) \in AmbiguousKinds \/ link[j] = "none"
    BY <1>2, <2>1 DEF FailureOf, AmbiguousKinds
  <2>3. wk'[w].job = j
    BY <1>1, <2>1, AfterFailureAt
  <2>4. CASE wk'[w].pc = "record" /\ wk'[w].status = "failed" /\ wk'[w].kind = FailureOf(w, kind)
    BY <1>2, <1>3, <1>4, <2>1, <2>2, <2>3, <2>4 DEF WorkerInTurn
  <2>5. CASE wk'[w].pc = "create" /\ wk'[w].kind = IF kind \in AmbiguousKinds THEN kind ELSE wk[w].kind
    <3>1. wk'[w].kind = wk[w].kind
      BY <2>1, <2>5 DEF AmbiguousKinds
    <3> QED
      BY <1>2, <1>3, <1>4, <2>1, <2>3, <2>5, <3>1 DEF WorkerInTurn
  <2> QED
    BY <1>1, <2>1, <2>4, <2>5, AfterFailureAt
<1>8. CASE OfferRejected(w)
  <2>1. wk[w].kind = "none" /\ link[j] = "none" /\ UNCHANGED link
    BY <1>2, <1>8 DEF OfferRejected, FailureOf, AmbiguousKinds, razorpay
  <2>2. wk'[w].pc = "create" /\ wk'[w].job = j /\ wk'[w].kind = "none"
    BY <1>1, <1>8 DEF OfferRejected, TypeOK, WorkerState
  <2> QED
    BY <1>2, <1>3, <1>4, <2>1, <2>2 DEF WorkerInTurn
<1>9. CASE CreateUnanswered(w)
  <2>1. PICK kind \in AmbiguousKinds : AfterFailure(w, kind)
    BY <1>9 DEF CreateUnanswered
  <2>2. RowsInTurn' /\ SameRows /\ Newest(j)'
    <3>1. UNCHANGED link \/ link' = [link EXCEPT ![j] = "created"]
      BY <1>1, <1>9 DEF CreateUnanswered
    <3> QED
      BY <1>1, <1>2, <1>3, <1>4, <3>1, CreatedInTurn
  <2>3. wk'[w].job = j /\ FailureOf(w, kind) = kind
    BY <1>1, <2>1, AfterFailureAt DEF FailureOf
  <2>4. \/ wk'[w].pc = "record" /\ wk'[w].status = "failed" /\ wk'[w].kind = kind
        \/ wk'[w].pc = "create" /\ wk'[w].kind = kind
    BY <1>1, <2>1, <2>3, AfterFailureAt
  <2> QED
    BY <1>2, <1>3, <2>1, <2>2, <2>3, <2>4 DEF WorkerInTurn
<1> QED
  BY <1>5, <1>6, <1>7, <1>8, <1>9

LEMMA ResultInTurn ==
  ASSUME TypeOK, AttemptsInTurn, NEW w \in Workers, NEW j, Busy(w, j), FinishDuplicate(w) \/ RecordResult(w)
  PROVE  RowsInTurn' /\ SameRows /\ WorkerInTurn(wk[w])'
<1>1. j \in Jobs /\ WorkerInTurn(wk[w]) /\ RowsInTurn /\ wk[w].job = j
  BY BusyJob DEF AttemptsInTurn, Busy
<1>2. job[j].status = "executing" /\ Newest(j)
  BY <1>1 DEF WorkerInTurn, FinishDuplicate, RecordResult
<1>3. Due(j) /\ Exists(j) /\ j[2] <= MaxAttempts
  BY <1>1, <1>2, DueRow DEF Due, DueStatuses
<1>4. CASE FinishDuplicate(w)
  <2>1. PICK answer \in LookupByReference(j), status \in {"sent", "human_queue"} :
          Commit(j, status, "none", answer = "found") /\ GotoWith(w, "finish", status, "none")
    BY <1>1, <1>4 DEF FinishDuplicate
  <2>2. answer = "found" => link[j] # "none"
    BY <2>1 DEF LookupByReference
  <2> QED
    BY <1>3, <1>4, <2>1, <2>2, FinishedInTurn DEF FinishDuplicate, DueStatuses, razorpay
<1>5. CASE RecordResult(w)
  <2> DEFINE status == wk[w].status
  <2>1. /\ (status = "sent" /\ link[j] # "none") \/ status = "failed"
        /\ status = "failed" /\ wk[w].kind \notin AmbiguousKinds => link[j] = "none"
    BY <1>1, <1>5 DEF RecordResult, WorkerInTurn
  <2>2. Commit(j, status, wk[w].kind, status = "sent") /\ UNCHANGED <<link, outcome>>
    BY <1>1, <1>5 DEF RecordResult, razorpay
  <2>3. /\ RowsInTurn' /\ SameRows /\ job'[j].status = status /\ Exists(j)'
        /\ \A k \in Jobs : Newest(k)' <=> Newest(k)
    BY <1>1, <1>3, <2>1, <2>2, CommitInTurn DEF DueStatuses
  <2>4. wk'[w].pc = "finish" /\ wk'[w].job = j /\ wk'[w].status = status /\ wk'[w].kind = wk[w].kind
    BY <1>1, <1>5, GotoAt DEF RecordResult
  <2> QED
    BY <1>1, <1>2, <1>3, <2>1, <2>2, <2>3, <2>4 DEF WorkerInTurn, Due, DueStatuses
<1> QED
  BY <1>4, <1>5

LEMMA SendInTurn ==
  ASSUME TypeOK, AttemptsInTurn, NEW w \in Workers, NEW j, Busy(w, j), ~LateLanding, SendStep(w)
  PROVE  RowsInTurn' /\ SameRows /\ WorkerInTurn(wk[w])'
BY ChecksInTurn, CreateInTurn, ResultInTurn DEF SendStep

LEMMA FinishInTurn ==
  ASSUME TypeOK, AttemptsInTurn, NEW w \in Workers, NEW j, Busy(w, j), FinishStep(w)
  PROVE  RowsInTurn' /\ SameRows /\ WorkerInTurn(wk[w])'
<1>1. j \in Jobs /\ WorkerInTurn(wk[w]) /\ RowsInTurn /\ wk[w].job = j
  BY BusyJob DEF AttemptsInTurn, Busy
<1>2. wk[w].pc # "close" => Exists(j) /\ ~Due(j)
  BY <1>1 DEF WorkerInTurn, FinishStep, FinishSent, FinishClosed, FinishThrottled, Reconcile, FinishOther, Close
<1>3. ASSUME UNCHANGED <<job, link, outcome>>
      PROVE  RowsInTurn' /\ SameRows /\ \A k \in Jobs : Newest(k)' <=> Newest(k)
  BY <1>1, <1>3, NoRowChange
<1>4. ASSUME ToClose(w), UNCHANGED <<job, link, outcome>>, wk[w].pc = "finish" PROVE WorkerInTurn(wk[w])'
  <2>1. CASE Goto(w, "close") /\ outcome[j] = <<>>
    <3>1. wk'[w].pc = "close" /\ wk'[w].job = j
      BY <1>1, <2>1, GotoAt
    <3> QED
      BY <1>2, <1>4, <2>1, <3>1 DEF WorkerInTurn, Exists, Due
  <2> QED
    BY <1>1, <1>4, <2>1, IdleInTurn DEF ToClose
<1>5. ASSUME wk[w].pc = "finish", wk[w].status = "failed", link[j] = "none", Goto(w, "followup"),
             UNCHANGED <<job, link, outcome>>
      PROVE  WorkerInTurn(wk[w])'
  <2>1. wk'[w].pc = "followup" /\ wk'[w].job = j
    BY <1>1, <1>5, GotoAt
  <2>2. Newest(j) /\ j[2] <= MaxAttempts
    BY <1>1, <1>5 DEF WorkerInTurn
  <2>3. MayFollow(j)'
    BY <1>1, <1>2, <1>3, <1>5, <2>2 DEF MayFollow, Exists, Due
  <2> QED
    BY <2>1, <2>3 DEF WorkerInTurn
<1>6. CASE FinishSent(w)
  <2>1. job' = [job EXCEPT ![j].nudged = TRUE] /\ UNCHANGED <<link, outcome>>
    BY <1>1, <1>6 DEF FinishSent, razorpay
  <2>2. job'[j].status = job[j].status /\ job'[j].link = job[j].link /\ \A k \in Jobs \ {j} : job'[k] = job[k]
    BY <1>1, <2>1 DEF TypeOK, Row
  <2>3. Exists(j) /\ Exists(j)' /\ OnlyRow(j) /\ SameRows
    BY <1>2, <1>6, <2>1, <2>2 DEF FinishSent, Exists, OnlyRow, SameRows
  <2>4. (Newest(j)' <=> Newest(j)) /\ Exists(<<j[1], 1>>)'
    <3>1. <<j[1], 1>> \in Jobs
      BY <1>1, JobIsPair, ConstantsAssumption DEF Jobs
    <3> QED
      BY <1>1, <2>3, <3>1, SameRowsNewest DEF SameRows, RowsInTurn, RowInTurn
  <2>5. RowInTurn(j)'
    BY <1>1, <2>1, <2>2, <2>3, <2>4 DEF RowsInTurn, RowInTurn, Due, HasOutcome
  <2> QED
    BY <1>1, <1>6, <2>3, <2>5, OneRow, IdleInTurn DEF FinishSent
<1>7. CASE FinishClosed(w)
  BY <1>3, <1>4, <1>7 DEF FinishClosed, db, razorpay
<1>8. CASE FinishThrottled(w)
  <2>1. link[j] = "none"
    BY <1>1, <1>8 DEF FinishThrottled, WorkerInTurn, RetryableKinds, AmbiguousKinds
  <2> QED
    BY <1>3, <1>5, <1>8, <2>1 DEF FinishThrottled, db, razorpay
<1>9. CASE Reconcile(w)
  <2>1. PICK answer \in LookupByReference(j) :
          \/ /\ answer = "found"
             /\ Commit(j, "sent", "none", TRUE)
             /\ GotoWith(w, "finish", "sent", "none")
          \/ answer = "absent" /\ Goto(w, "followup") /\ UNCHANGED job
          \/ answer = "error" /\ ToClose(w) /\ UNCHANGED job
    BY <1>1, <1>9 DEF Reconcile
  <2>2. (answer = "found" => link[j] # "none") /\ (answer = "absent" => link[j] = "none")
    BY <2>1 DEF LookupByReference
  <2>3. CASE answer = "found"
    BY <1>2, <1>9, <2>1, <2>2, <2>3, FinishedInTurn DEF Reconcile, DueStatuses, razorpay
  <2>4. CASE answer = "absent"
    BY <1>3, <1>5, <1>9, <2>1, <2>2, <2>4 DEF Reconcile, razorpay
  <2>5. CASE answer = "error"
    BY <1>3, <1>4, <1>9, <2>1, <2>5 DEF Reconcile, razorpay
  <2> QED
    BY <2>1, <2>3, <2>4, <2>5
<1>10. CASE FinishOther(w)
  BY <1>3, <1>10, IdleInTurn DEF FinishOther, db, razorpay
<1>11. CASE Close(w)
  <2>1. Exists(j) /\ ~Due(j) /\ outcome[j] = <<>>
    BY <1>1, <1>11 DEF Close, WorkerInTurn
  <2> QED
    BY <1>1, <1>11, <2>1, OutcomeInTurn, IdleInTurn DEF Close, razorpay
<1> QED
  BY <1>6, <1>7, <1>8, <1>9, <1>10, <1>11 DEF FinishStep

-----------------------------------------------------------------------------
(* The process settles: the webhooks and the poll.                          *)

Handling(w, h, j) == h = hd[w] /\ j = hd[w].job /\ h.pc # "idle"

LEMMA HandlingFacts ==
  ASSUME STypeInv, AttemptsInTurn, NEW w \in Workers, NEW h, NEW j, Handling(w, h, j)
  PROVE  /\ TypeOK /\ RowsInTurn /\ h \in HandlerState /\ hd[w] = h /\ h.job = j /\ wk[w] = Idle
         /\ h.pc \in JobPcs => j \in Jobs
         /\ HandlerInTurn(h)
BY DEF STypeInv, HandlerTypeOK, OneSide, AttemptsInTurn, Handling

LEMMA RestInTurn ==
  ASSUME NEW w \in Workers, wk[w] = Idle, UNCHANGED wk
  PROVE  WorkerInTurn(wk[w])'
BY DEF Idle, WorkerInTurn

LEMMA AnsweredInTurn ==
  ASSUME STypeInv, NEW w \in Workers, Answered(w)
  PROVE  HandlerInTurn(hd[w])'
<1>1. hd'[w] = NoHandler
  BY MovedAt DEF Answered
<1> QED
  BY <1>1 DEF NoHandler, HandlerInTurn, OrderHandling

(* What a link that exists says of its row. *)
LEMMA LinkedRow ==
  ASSUME RowsInTurn, NEW j \in Jobs, link[j] # "none"
  PROVE  /\ Exists(j) /\ j[2] <= MaxAttempts /\ job[j].status # "pending"
         /\ link[j] \notin Unpaid \/ outcome[j] = <<>> => Newest(j)
BY DEF RowsInTurn, RowInTurn, HasOutcome

(* An outcome and a repair of the row, in one commit. *)
LEMMA RepairInTurn ==
  ASSUME TypeOK, RowsInTurn, NEW j \in Jobs, NEW result \in {"recovered", "lost"}, RecordOutcome(j, result),
         UNCHANGED link, link[j] # "none", outcome[j] = <<>>, result = "recovered" => link[j] \in Collecting,
         \A k \in Jobs \ {j} : job'[k] = job[k], job'[j].status \in {job[j].status, "sent"}
  PROVE  /\ RowsInTurn' /\ SameRows /\ \A k \in Jobs : Newest(k)' <=> Newest(k)
         /\ outcome'[j] = <<result>> /\ \A k \in Jobs \ {j} : outcome'[k] = outcome[k]
<1>1. outcome'[j] = <<result>> /\ \A k \in Jobs \ {j} : outcome'[k] = outcome[k]
  BY OutcomeAt
<1>2. Exists(j) /\ job[j].status # "pending" /\ Newest(j)
  BY LinkedRow
<1>3. OnlyRow(j) /\ Exists(j)' /\ SameRows
  BY <1>1, <1>2 DEF OnlyRow, Exists, SameRows
<1>4. (Newest(j)' <=> Newest(j)) /\ Exists(<<j[1], 1>>)'
  <2>1. <<j[1], 1>> \in Jobs
    BY JobIsPair, ConstantsAssumption DEF Jobs
  <2> QED
    BY <1>2, <1>3, <2>1, SameRowsNewest DEF SameRows, RowsInTurn, RowInTurn
<1>5. RowInTurn(j)'
  BY <1>1, <1>2, <1>3, <1>4 DEF RowsInTurn, RowInTurn, Due, HasOutcome
<1> QED
  BY <1>1, <1>2, <1>3, <1>5, OneRow

LEMMA PaidInTurn ==
  ASSUME STypeInv, AttemptsInTurn, NEW w \in Workers, NEW h, NEW j, Handling(w, h, j),
         PaidIgnored(w) \/ PaidChecked(w) \/ ClosePaidLink(w)
  PROVE  RowsInTurn' /\ SameRows /\ WorkerInTurn(wk[w])' /\ HandlerInTurn(hd[w])'
<1>1. /\ TypeOK /\ RowsInTurn /\ hd[w] = h /\ h.job = j /\ wk[w] = Idle /\ j \in Jobs /\ HandlerInTurn(h)
      /\ h.pc \in {"paid", "recovered"}
  BY HandlingFacts DEF PaidIgnored, PaidChecked, ClosePaidLink, JobPcs
<1>2. link[j] \in Collecting /\ link[j] # "none" /\ Exists(j)
  BY <1>1, LinkedRow DEF HandlerInTurn, Collecting
<1>3. WorkerInTurn(wk[w])'
  BY <1>1, RestInTurn DEF PaidIgnored, PaidChecked, ClosePaidLink, vars
<1>4. CASE PaidIgnored(w)
  BY <1>1, <1>3, <1>4, NoRowChange, AnsweredInTurn DEF PaidIgnored, vars
<1>5. CASE PaidChecked(w)
  <2>1. RowsInTurn' /\ SameRows /\ UNCHANGED <<job, link, outcome>> /\ outcome[j] = <<>>
    BY <1>1, <1>5, NoRowChange DEF PaidChecked, HasOutcome, vars
  <2>2. hd'[w].pc = "recovered" /\ hd'[w].job = j /\ hd'[w].pending = {} /\ hd'[w].live = {}
    BY <1>1, <1>5, HandleAt DEF PaidChecked, HandlerInTurn, OrderHandling
  <2>3. HandlerInTurn(hd[w])'
    BY <1>2, <2>1, <2>2 DEF HandlerInTurn, Exists
  <2> QED
    BY <1>3, <2>1, <2>3
<1>6. CASE ClosePaidLink(w)
  <2>1. outcome[j] = <<>> /\ RecordOutcome(j, "recovered") /\ UNCHANGED link
    BY <1>1, <1>6 DEF ClosePaidLink, HandlerInTurn, razorpay
  <2>2. (\A k \in Jobs \ {j} : job'[k] = job[k]) /\ job'[j].status \in {job[j].status, "sent"}
    <3>1. CASE Commit(j, "sent", job[j].kind, TRUE)
      BY <1>1, <3>1, CommitAt
    <3>2. CASE UNCHANGED job
      BY <3>2
    <3> QED
      BY <1>1, <1>6, <3>1, <3>2 DEF ClosePaidLink
  <2>3. RowsInTurn' /\ SameRows
    BY <1>1, <1>2, <2>1, <2>2, RepairInTurn
  <2>4. hd'[w].pc \in {"idle", "mark"} /\ hd'[w].pending = {} /\ hd'[w].live = {}
    BY <1>6, ClosePaidAt
  <2>5. HandlerInTurn(hd[w])'
    BY <2>4 DEF HandlerInTurn
  <2> QED
    BY <1>3, <2>3, <2>5
<1> QED
  BY <1>4, <1>5, <1>6

(* What is still to void or to cancel, while other rows are written. *)
LEMMA TodoKept ==
  ASSUME NEW T, NEW j, \A k \in Jobs \ {j} : job'[k] = job[k] /\ link'[k] = link[k] /\ outcome'[k] = outcome[k],
         T \subseteq Jobs, j \notin T
  PROVE  /\ (\A i \in T : job[i].status = "pending") => \A i \in T : job'[i].status = "pending"
         /\ (\A i \in T : Exists(i) /\ outcome[i] = <<>> /\ link[i] # "none")
              => \A i \in T : Exists(i)' /\ outcome'[i] = <<>> /\ link'[i] # "none"
BY DEF Exists

LEMMA TakeInTurn ==
  ASSUME STypeInv, AttemptsInTurn, NEW w \in Workers, NEW h, NEW j, Handling(w, h, j),
         MarkOrderPaid(w) \/ TakeAttempt(w) \/ AttemptsDone(w) \/ CancelSkipped(w)
  PROVE  RowsInTurn' /\ SameRows /\ WorkerInTurn(wk[w])' /\ HandlerInTurn(hd[w])'
<1>1. TypeOK /\ RowsInTurn /\ h \in HandlerState /\ hd[w] = h /\ wk[w] = Idle /\ HandlerInTurn(h)
  BY HandlingFacts
<1>2. WorkerInTurn(wk[w])'
  BY <1>1, RestInTurn DEF MarkOrderPaid, TakeAttempt, AttemptsDone, CancelSkipped, vars
<1>3. UNCHANGED <<job, link, outcome>> /\ RowsInTurn' /\ SameRows
  BY <1>1, NoRowChange DEF MarkOrderPaid, TakeAttempt, AttemptsDone, CancelSkipped, vars, razorpay
<1>4. ASSUME Answered(w) PROVE HandlerInTurn(hd[w])'
  BY <1>4, AnsweredInTurn
<1>5. CASE MarkOrderPaid(w)
  <2>1. CASE hd' = [hd EXCEPT ![w] = [@ EXCEPT !.pc = "attempt", !.todo = AttemptsOf(h.order)]]
    <3> DEFINE r == [h EXCEPT !.pc = "attempt", !.todo = AttemptsOf(h.order)]
    <3>1. r.pc = "attempt" /\ r.pending = {} /\ r.live = {}
      BY <1>1, <1>5 DEF HandlerState, HandlerInTurn, OrderHandling, MarkOrderPaid
    <3>2. hd'[w] = r
      BY <1>1, <2>1, MovedAt
    <3> QED
      BY <1>2, <1>3, <3>1, <3>2 DEF HandlerInTurn
  <2> QED
    BY <1>1, <1>2, <1>3, <1>4, <1>5, <2>1 DEF MarkOrderPaid
<1>6. CASE TakeAttempt(w)
  <2>1. PICK p \in h.todo :
          hd' = [hd EXCEPT ![w] = [@ EXCEPT !.todo = h.todo \ {p}, !.pending = PendingOf(p), !.live = LiveOf(p)]]
    BY <1>1, <1>6 DEF TakeAttempt
  <2> DEFINE r == [h EXCEPT !.todo = h.todo \ {p}, !.pending = PendingOf(p), !.live = LiveOf(p)]
  <2>2. r.pc = "attempt" /\ r.pending = PendingOf(p) /\ r.live = LiveOf(p)
    BY <1>1, <1>6 DEF HandlerState, TakeAttempt
  <2>3. hd'[w] = r
    BY <1>1, <2>1, MovedAt
  <2>4. \A i \in PendingOf(p) : job'[i].status = "pending"
    BY <1>3 DEF PendingOf
  <2>5. \A i \in LiveOf(p) : Exists(i)' /\ outcome'[i] = <<>> /\ link'[i] # "none"
    BY <1>1, <1>3 DEF LiveOf, Exists, HasOutcome, RowsInTurn, RowInTurn
  <2>6. hd'[w].pc = "attempt" /\ hd'[w].pending = PendingOf(p) /\ hd'[w].live = LiveOf(p)
    BY <2>2, <2>3
  <2>7. HandlerInTurn(hd[w])'
    BY <2>4, <2>5, <2>6 DEF HandlerInTurn, OrderHandling
  <2> QED
    BY <1>2, <1>3, <2>7
<1>7. CASE AttemptsDone(w)
  BY <1>2, <1>3, <1>4, <1>7 DEF AttemptsDone
<1>8. CASE CancelSkipped(w)
  <2> DEFINE r == [h EXCEPT !.live = h.live \ {First(h.live)}]
  <2>1. r.pc = "attempt" /\ r.pending = h.pending /\ r.live \subseteq h.live
    BY <1>1, <1>8 DEF HandlerState, CancelSkipped
  <2>2. hd'[w] = r
    BY <1>1, <1>8, MovedAt DEF CancelSkipped
  <2>3. HandlerInTurn(hd[w])'
    BY <1>1, <1>3, <2>1, <2>2 DEF HandlerInTurn, OrderHandling, Exists
  <2> QED
    BY <1>2, <1>3, <2>3
<1> QED
  BY <1>5, <1>6, <1>7, <1>8

LEMMA StopInTurn ==
  ASSUME STypeInv, AttemptsInTurn, NEW w \in Workers, NEW h, NEW j, Handling(w, h, j),
         VoidPending(w) \/ CancelLink(w) \/ RecordCancel(w) \/ CloseStopped(w)
  PROVE  RowsInTurn' /\ SameRows /\ WorkerInTurn(wk[w])' /\ HandlerInTurn(hd[w])'
<1>1. /\ TypeOK /\ RowsInTurn /\ h \in HandlerState /\ hd[w] = h /\ h.job = j /\ wk[w] = Idle /\ HandlerInTurn(h)
      /\ h.pc \in JobPcs => j \in Jobs
  BY HandlingFacts
<1>2. WorkerInTurn(wk[w])'
  BY <1>1, RestInTurn DEF VoidPending, CancelLink, RecordCancel, CloseStopped
<1>3. h.pending \subseteq Jobs /\ h.live \subseteq Jobs
  BY <1>1 DEF HandlerState
<1>4. /\ \A i \in h.pending : job[i].status = "pending"
      /\ \A i \in h.live : Exists(i) /\ outcome[i] = <<>> /\ link[i] # "none"
  BY <1>1 DEF HandlerInTurn
<1>5. CASE VoidPending(w)
  <2>1. PICK i \in h.pending : i = First(h.pending)
    BY <1>1, <1>3, <1>5, FirstIsMember DEF VoidPending
  <2> DEFINE r == [h EXCEPT !.pc = "closed", !.job = i, !.pending = h.pending \ {i}]
  <2>2. i \in Jobs /\ job[i].status = "pending"
    BY <1>3, <1>4, <2>1
  <2>3. Due(i) /\ Exists(i) /\ link[i] = "none" /\ outcome[i] = <<>>
    BY <1>1, <2>2, DueRow DEF Due, DueStatuses
  <2>4. i \notin h.live
    BY <1>4, <2>3
  <2>5. Commit(i, "no_action", "none", FALSE) /\ UNCHANGED <<link, outcome>> /\ hd' = [hd EXCEPT ![w] = r]
    BY <1>1, <1>5, <2>1 DEF VoidPending, razorpay
  <2>6. /\ RowsInTurn' /\ SameRows /\ job'[i].status = "no_action" /\ Exists(i)'
        /\ \A k \in Jobs \ {i} : job'[k] = job[k]
    BY <1>1, <2>2, <2>3, <2>5, CommitInTurn DEF DueStatuses
  <2>7. r.pc = "closed" /\ r.job = i /\ r.pending = h.pending \ {i} /\ r.live = h.live
    BY <1>1 DEF HandlerState
  <2>8. hd'[w] = r
    BY <2>5, MovedAt
  <2>9. /\ \A k \in h.pending \ {i} : job'[k].status = "pending"
        /\ \A k \in h.live : Exists(k)' /\ outcome'[k] = <<>> /\ link'[k] # "none"
    BY <1>3, <1>4, <2>4, <2>5, <2>6 DEF Exists
  <2>10. hd'[w].pc = "closed" /\ hd'[w].job = i /\ hd'[w].pending = h.pending \ {i} /\ hd'[w].live = h.live
    BY <2>7, <2>8
  <2>11. HandlerInTurn(hd[w])'
    BY <2>3, <2>4, <2>5, <2>6, <2>9, <2>10 DEF HandlerInTurn, OrderHandling, Due, DueStatuses
  <2> QED
    BY <1>2, <2>6, <2>11
<1>6. CASE CancelLink(w)
  <2>1. PICK i \in h.live : i = First(h.live)
    BY <1>1, <1>3, <1>6, FirstIsMember DEF CancelLink
  <2>2. i \in Jobs /\ Exists(i) /\ outcome[i] = <<>> /\ link[i] # "none" /\ h.pending = {}
    BY <1>1, <1>3, <1>4, <1>6, <2>1 DEF CancelLink
  <2>3. Newest(i) /\ i[2] <= MaxAttempts /\ job[i].status # "pending" /\ outcome[i] # <<"recovered">>
    BY <1>1, <2>2, LinkedRow
  <2>4. PICK pc \in {"cancelled", "parked"} :
          hd' = [hd EXCEPT ![w] = [@ EXCEPT !.pc = pc, !.job = i, !.live = h.live \ {i}]]
    BY <1>1, <1>6, <2>1 DEF CancelLink
  <2> DEFINE r == [h EXCEPT !.pc = pc, !.job = i, !.live = h.live \ {i}]
  <2>5. r.pc = pc /\ r.job = i /\ r.pending = {} /\ r.live = h.live \ {i}
    BY <1>1, <2>2 DEF HandlerState
  <2>6. hd'[w] = r
    BY <1>1, <2>4, MovedAt
  <2>7. hd'[w].pc = pc /\ hd'[w].job = i /\ hd'[w].pending = {} /\ hd'[w].live = h.live \ {i}
    BY <2>5, <2>6
  <2>8. UNCHANGED <<job, outcome>> /\ (UNCHANGED link \/ link' = [link EXCEPT ![i] = "cancelled"])
    BY <1>1, <1>6, <2>1 DEF CancelLink, db
  <2>9. RowsInTurn' /\ SameRows /\ \A k \in Jobs \ {i} : link'[k] = link[k]
    <3>1. CASE UNCHANGED link
      BY <1>1, <2>8, <3>1, NoRowChange
    <3>2. CASE link' = [link EXCEPT ![i] = "cancelled"]
      BY <1>1, <2>2, <2>3, <2>8, <3>2, LinkInTurn DEF LinkStates
    <3> QED
      BY <2>8, <3>1, <3>2
  <2>10. Exists(i)' /\ outcome'[i] = <<>> /\ \A k \in h.live \ {i} : Exists(k)' /\ outcome'[k] = <<>> /\ link'[k] # "none"
    BY <1>3, <1>4, <2>2, <2>8, <2>9 DEF Exists
  <2>11. HandlerInTurn(hd[w])'
    BY <2>4, <2>7, <2>10 DEF HandlerInTurn, OrderHandling
  <2> QED
    BY <1>2, <2>9, <2>11
<1>7. CASE RecordCancel(w)
  <2> DEFINE status == IF h.pc = "cancelled" THEN "cancelled" ELSE "human_queue"
  <2>1. /\ h.pc \in {"cancelled", "parked"} /\ j \in Jobs /\ Exists(j) /\ outcome[j] = <<>>
        /\ j \notin h.pending /\ j \notin h.live
    BY <1>1, <1>7 DEF RecordCancel, JobPcs, HandlerInTurn
  <2>2. Commit(j, status, "none", FALSE) /\ UNCHANGED <<link, outcome>>
    BY <1>1, <1>7 DEF RecordCancel, razorpay
  <2>3. /\ RowsInTurn' /\ SameRows /\ job'[j].status = status /\ Exists(j)'
        /\ \A k \in Jobs \ {j} : job'[k] = job[k]
    BY <1>1, <2>1, <2>2, CommitInTurn DEF DueStatuses
  <2>4. hd'[w].pc = "closed" /\ hd'[w].job = j /\ hd'[w].pending = h.pending /\ hd'[w].live = h.live
    BY <1>1, <1>7, HandleAt DEF RecordCancel
  <2>5. /\ \A k \in h.pending : job'[k].status = "pending"
        /\ \A k \in h.live : Exists(k)' /\ outcome'[k] = <<>> /\ link'[k] # "none"
    BY <1>3, <1>4, <2>1, <2>2, <2>3 DEF Exists
  <2>6. HandlerInTurn(hd[w])'
    BY <2>1, <2>2, <2>3, <2>4, <2>5 DEF HandlerInTurn, OrderHandling, Due, DueStatuses
  <2> QED
    BY <1>2, <2>3, <2>6
<1>8. CASE CloseStopped(w)
  <2> DEFINE r == [h EXCEPT !.pc = "attempt", !.job = NoJob]
  <2>1. /\ j \in Jobs /\ Exists(j) /\ outcome[j] = <<>> /\ ~Due(j) /\ j \notin h.pending /\ j \notin h.live
    BY <1>1, <1>8 DEF CloseStopped, JobPcs, HandlerInTurn
  <2>2. RecordOutcome(j, "lost") /\ UNCHANGED <<job, link>> /\ hd' = [hd EXCEPT ![w] = r]
    BY <1>1, <1>8 DEF CloseStopped, razorpay
  <2>3. RowsInTurn' /\ SameRows /\ \A k \in Jobs \ {j} : outcome'[k] = outcome[k]
    BY <1>1, <2>1, <2>2, OutcomeInTurn
  <2>4. r.pc = "attempt" /\ r.pending = h.pending /\ r.live = h.live
    BY <1>1 DEF HandlerState
  <2>5. hd'[w] = r
    BY <2>2, MovedAt
  <2>6. /\ \A k \in h.pending : job'[k].status = "pending"
        /\ \A k \in h.live : Exists(k)' /\ outcome'[k] = <<>> /\ link'[k] # "none"
    BY <1>3, <1>4, <2>1, <2>2, <2>3 DEF Exists
  <2>7. hd'[w].pc = "attempt" /\ hd'[w].pending = h.pending /\ hd'[w].live = h.live
    BY <2>4, <2>5
  <2>8. HandlerInTurn(hd[w])'
    BY <2>6, <2>7 DEF HandlerInTurn, OrderHandling
  <2> QED
    BY <1>2, <2>3, <2>8
<1> QED
  BY <1>5, <1>6, <1>7, <1>8

LEMMA PollInTurn ==
  ASSUME STypeInv, AttemptsInTurn, NEW w \in Workers, NEW h, NEW j, Handling(w, h, j),
         ExpiredIgnored(w) \/ ExpiredChecked(w) \/ StillOpen(w) \/ FetchLink(w) \/ RecordSeen(w) \/ ExpiryFollowup(w)
  PROVE  RowsInTurn' /\ SameRows /\ WorkerInTurn(wk[w])' /\ HandlerInTurn(hd[w])'
<1>1. /\ TypeOK /\ RowsInTurn /\ h \in HandlerState /\ hd[w] = h /\ h.job = j /\ wk[w] = Idle /\ HandlerInTurn(h)
      /\ j \in Jobs /\ h.pc \in {"expired", "fetch", "polled", "lapsed"}
  BY HandlingFacts DEF ExpiredIgnored, ExpiredChecked, StillOpen, FetchLink, RecordSeen, ExpiryFollowup, JobPcs
<1>2. link[j] # "none" /\ h.pending = {} /\ h.live = {}
  BY <1>1 DEF HandlerInTurn, OrderHandling
<1>3. Exists(j) /\ j[2] <= MaxAttempts /\ job[j].status # "pending" /\ (outcome[j] = <<>> => Newest(j))
  BY <1>1, <1>2, LinkedRow
<1>4. ASSUME UNCHANGED wk PROVE WorkerInTurn(wk[w])'
  BY <1>1, <1>4, RestInTurn
<1>5. ASSUME UNCHANGED vars PROVE RowsInTurn' /\ SameRows /\ UNCHANGED <<job, link, outcome>> /\ WorkerInTurn(wk[w])'
  BY <1>1, <1>4, <1>5, NoRowChange DEF vars
<1>6. CASE ExpiredIgnored(w) \/ StillOpen(w)
  BY <1>5, <1>6, AnsweredInTurn DEF ExpiredIgnored, StillOpen
<1>7. CASE ExpiredChecked(w)
  <2>1. outcome[j] = <<>> /\ link[j] = "expired" /\ h.seen = "expired"
    BY <1>1, <1>7 DEF ExpiredChecked, HasOutcome, HandlerInTurn
  <2>2. hd'[w].pc = "polled" /\ hd'[w].job = j /\ hd'[w].seen = "expired" /\ hd'[w].pending = {} /\ hd'[w].live = {}
    BY <1>1, <1>2, <1>7, <2>1, HandleAt DEF ExpiredChecked
  <2>3. UNCHANGED <<job, link, outcome>>
    BY <1>5, <1>7 DEF ExpiredChecked
  <2>4. HandlerInTurn(hd[w])'
    BY <1>3, <2>1, <2>2, <2>3 DEF HandlerInTurn, OrderHandling, Exists, Recovering
  <2> QED
    BY <1>5, <1>7, <2>4 DEF ExpiredChecked
<1>8. CASE FetchLink(w)
  <2> DEFINE r == [h EXCEPT !.pc = "polled", !.seen = link[j]]
  <2>1. r.pc = "polled" /\ r.job = j /\ r.seen = link[j] /\ r.pending = {} /\ r.live = {}
    BY <1>1, <1>2 DEF HandlerState
  <2>2. hd'[w] = r
    BY <1>1, <1>8, MovedAt DEF FetchLink
  <2>3. UNCHANGED <<job, link, outcome>> /\ outcome[j] = <<>>
    BY <1>1, <1>5, <1>8 DEF FetchLink, HandlerInTurn
  <2>4. /\ hd'[w].pc = "polled" /\ hd'[w].job = j /\ hd'[w].seen = link[j]
        /\ hd'[w].pending = {} /\ hd'[w].live = {}
    BY <2>1, <2>2
  <2>5. HandlerInTurn(hd[w])'
    BY <1>2, <1>3, <2>3, <2>4 DEF HandlerInTurn, OrderHandling, Exists, Recovering, Collecting
  <2> QED
    BY <1>5, <1>8, <2>5 DEF FetchLink
<1>9. CASE RecordSeen(w)
  <2> DEFINE result == IF Recovering(h.seen) THEN "recovered" ELSE "lost"
  <2>1. /\ outcome[j] = <<>> /\ (result = "recovered" => link[j] \in Collecting)
        /\ h.seen = "expired" => link[j] = "expired"
    BY <1>1, <1>9 DEF RecordSeen, HandlerInTurn
  <2>2. RecordOutcome(j, result) /\ UNCHANGED <<link, wk>> /\ job' = [job EXCEPT ![j].link = TRUE]
    BY <1>1, <1>9 DEF RecordSeen, razorpay
  <2>3. (\A k \in Jobs \ {j} : job'[k] = job[k]) /\ job'[j].status = job[j].status
    BY <1>1, <2>2 DEF TypeOK, Row
  <2>4. RowsInTurn' /\ SameRows /\ outcome'[j] = <<result>> /\ (Newest(j)' <=> Newest(j))
    BY <1>1, <1>2, <2>1, <2>2, <2>3, RepairInTurn
  <2>5. CASE Handle(w, "lapsed") /\ h.seen = "expired"
    <3>1. hd'[w].pc = "lapsed" /\ hd'[w].job = j /\ hd'[w].pending = {} /\ hd'[w].live = {}
      BY <1>1, <1>2, <2>5, HandleAt
    <3>2. outcome'[j] # <<>>
      BY <2>4
    <3>3. HandlerInTurn(hd[w])'
      BY <1>3, <2>1, <2>2, <2>4, <2>5, <3>1, <3>2 DEF HandlerInTurn, OrderHandling, HasOutcome
    <3> QED
      BY <1>4, <2>2, <2>4, <3>3
  <2>6. CASE Answered(w)
    BY <1>4, <2>2, <2>4, <2>6, AnsweredInTurn
  <2> QED
    BY <1>1, <1>9, <2>5, <2>6 DEF RecordSeen
<1>10. CASE ExpiryFollowup(w)
  <2>1. UNCHANGED <<job, link, outcome>> /\ RowsInTurn' /\ SameRows /\ \A k \in Jobs : Newest(k)' <=> Newest(k)
    BY <1>1, <1>10, NoRowChange DEF ExpiryFollowup, db, razorpay
  <2>2. link[j] = "expired" /\ HasOutcome(j) /\ Newest(j)
    BY <1>1, <1>10 DEF ExpiryFollowup, HandlerInTurn
  <2>3. MayFollow(j)'
    BY <1>1, <1>3, <2>1, <2>2 DEF MayFollow, Exists, HasOutcome
  <2>4. HandlerInTurn(hd[w])'
    BY <1>10, AnsweredInTurn DEF ExpiryFollowup
  <2>5. CASE wk' = [wk EXCEPT ![w] = Idle]
    <3>1. wk'[w] = Idle
      BY <1>1, <2>5 DEF TypeOK
    <3>2. WorkerInTurn(wk[w])'
      BY <3>1 DEF WorkerInTurn, Idle
    <3> QED
      BY <2>1, <2>4, <3>2
  <2>6. CASE wk' = [wk EXCEPT ![w] = [Idle EXCEPT !.pc = "followup", !.job = j]]
    <3>1. wk'[w].pc = "followup" /\ wk'[w].job = j
      BY <1>1, <2>6 DEF TypeOK, Idle
    <3>2. WorkerInTurn(wk[w])'
      BY <2>3, <3>1 DEF WorkerInTurn
    <3> QED
      BY <2>1, <2>4, <3>2
  <2> QED
    BY <1>1, <1>10, <2>5, <2>6 DEF ExpiryFollowup
<1> QED
  BY <1>6, <1>7, <1>8, <1>9, <1>10

LEMMA ReceiveInTurn ==
  ASSUME STypeInv, AttemptsInTurn, NEW w \in Workers, Receive(w)
  PROVE  RowsInTurn' /\ SameRows /\ WorkerInTurn(wk[w])' /\ HandlerInTurn(hd[w])'
<1>1. UNCHANGED vars /\ wk[w] = Idle /\ hd[w] = NoHandler /\ TypeOK /\ RowsInTurn
  BY DEF Receive, ReceivePaid, ReceiveExpired, PollLink, ReceiveCaptured, Free, STypeInv, AttemptsInTurn
<1>2. UNCHANGED <<job, link, outcome>> /\ RowsInTurn' /\ SameRows /\ WorkerInTurn(wk[w])'
  BY <1>1, NoRowChange, RestInTurn DEF vars
<1>3. ASSUME NEW j \in Jobs, ReceivePaid(w, j) PROVE HandlerInTurn(hd[w])'
  <2> DEFINE r == [NoHandler EXCEPT !.pc = "paid", !.job = j, !.seen = link[j]]
  <2>1. r.pc = "paid" /\ r.job = j /\ r.pending = {} /\ r.live = {}
    BY DEF NoHandler
  <2>2. hd'[w] = r /\ link[j] \in Collecting
    BY <1>1, <1>3, MovedAt DEF ReceivePaid, PaymentLinkPaid, Collecting
  <2>3. hd'[w].pc = "paid" /\ hd'[w].job = j /\ hd'[w].pending = {} /\ hd'[w].live = {} /\ link'[j] \in Collecting
    BY <1>2, <2>1, <2>2
  <2> QED
    BY <2>3 DEF HandlerInTurn
<1>4. ASSUME NEW j \in Jobs, ReceiveExpired(w, j) PROVE HandlerInTurn(hd[w])'
  <2> DEFINE r == [NoHandler EXCEPT !.pc = "expired", !.job = j, !.seen = "expired"]
  <2>1. r.pc = "expired" /\ r.job = j /\ r.seen = "expired" /\ r.pending = {} /\ r.live = {}
    BY DEF NoHandler
  <2>2. hd'[w] = r /\ link'[j] = "expired"
    BY <1>1, <1>2, <1>4, MovedAt DEF ReceiveExpired, PaymentLinkExpired
  <2>3. /\ hd'[w].pc = "expired" /\ hd'[w].job = j /\ hd'[w].seen = "expired"
        /\ hd'[w].pending = {} /\ hd'[w].live = {}
    BY <2>1, <2>2
  <2> QED
    BY <2>2, <2>3 DEF HandlerInTurn
<1>5. ASSUME NEW j \in Jobs, PollLink(w, j) PROVE HandlerInTurn(hd[w])'
  <2> DEFINE r == [NoHandler EXCEPT !.pc = "fetch", !.job = j]
  <2>1. r.pc = "fetch" /\ r.job = j /\ r.pending = {} /\ r.live = {}
    BY DEF NoHandler
  <2>2. hd'[w] = r
    BY <1>1, <1>5, MovedAt DEF PollLink
  <2>3. hd'[w].pc = "fetch" /\ hd'[w].job = j /\ hd'[w].pending = {} /\ hd'[w].live = {}
    BY <2>1, <2>2
  <2>4. Exists(j) /\ outcome[j] = <<>> /\ link[j] # "none"
    BY <1>1, <1>5 DEF PollLink, OpenLinks, HasOutcome, Exists, RowsInTurn, RowInTurn
  <2> QED
    BY <1>2, <2>3, <2>4 DEF HandlerInTurn, Exists
<1>6. ASSUME NEW o \in Orders, ReceiveCaptured(w, o) PROVE HandlerInTurn(hd[w])'
  <2> DEFINE r == [NoHandler EXCEPT !.pc = "mark", !.order = o]
  <2>1. r.pc = "mark" /\ r.pending = {} /\ r.live = {}
    BY DEF NoHandler
  <2>2. hd'[w] = r
    BY <1>1, <1>6, MovedAt DEF ReceiveCaptured
  <2>3. hd'[w].pc = "mark" /\ hd'[w].pending = {} /\ hd'[w].live = {}
    BY <2>1, <2>2
  <2> QED
    BY <2>3 DEF HandlerInTurn
<1> QED
  BY <1>2, <1>3, <1>4, <1>5, <1>6 DEF Receive

-----------------------------------------------------------------------------
(* The customer, and time: a link that can be paid changes under the feet of *)
(* the process, and what the process relies on still holds.                 *)

LEMMA LinkMoves ==
  ASSUME STypeInv, AttemptsInTurn, NEW j \in Jobs, Live(j), NEW l \in {"paid", "partial", "expired", "cancelled"},
         link[j] = "partial" => l = "paid", link' = [link EXCEPT ![j] = l], UNCHANGED <<db, inflight, wk, hd>>
  PROVE  AttemptsInTurn' /\ SameRows
<1>1. TypeOK /\ RowsInTurn /\ UNCHANGED <<job, outcome>>
  BY DEF STypeInv, AttemptsInTurn, db
<1>2. link[j] \in {"created", "partial"}
  BY DEF Live
<1>3. Exists(j) /\ j[2] <= MaxAttempts /\ job[j].status # "pending" /\ Newest(j)
  BY <1>1, <1>2, LinkedRow DEF Unpaid
<1>4. outcome[j] = <<"recovered">> => l \in Collecting
  BY <1>1, <1>2 DEF RowsInTurn, RowInTurn, Collecting
<1>5. /\ RowsInTurn' /\ SameRows /\ (\A k \in Jobs : Newest(k)' <=> Newest(k))
      /\ link'[j] = l /\ \A k \in Jobs \ {j} : link'[k] = link[k]
  BY <1>1, <1>3, <1>4, LinkInTurn DEF LinkStates
<1>6. \A k \in Jobs : /\ link'[k] = "none" <=> link[k] = "none"
                      /\ link[k] = "expired" => link'[k] = "expired"
                      /\ link[k] \in Collecting => link'[k] \in Collecting
  BY <1>2, <1>5 DEF Collecting
<1>7. ASSUME NEW k \in Jobs, MayFollow(k) PROVE MayFollow(k)'
  BY <1>1, <1>5, <1>6, <1>7 DEF MayFollow, Exists, Due, HasOutcome
<1>8. ASSUME NEW w \in Workers PROVE WorkerInTurn(wk[w])'
  <2> DEFINE r == wk[w]
  <2>1. WorkerInTurn(r) /\ wk'[w] = wk[w] /\ (r.pc # "idle" => r.job \in Jobs)
    BY <1>1 DEF AttemptsInTurn, TypeOK
  <2>2. CASE r.pc = "insert"
    <3>1. r.job[2] # 1 => <<r.job[1], r.job[2] - 1>> \in Jobs
      BY <2>1, <2>2, JobIsPair, ConstantsAssumption DEF Jobs
    <3>2. r.job[2] = 1 \/ MayFollow(<<r.job[1], r.job[2] - 1>>)
      BY <2>1, <2>2 DEF WorkerInTurn
    <3>3. r.job[2] = 1 \/ MayFollow(<<r.job[1], r.job[2] - 1>>)'
      <4>1. ASSUME NEW i \in Jobs, i = <<r.job[1], r.job[2] - 1>>, MayFollow(i), r.job[2] # 1
            PROVE  MayFollow(<<r.job[1], r.job[2] - 1>>)'
        <5>1. MayFollow(i)' /\ i = <<wk'[w].job[1], wk'[w].job[2] - 1>>
          BY <1>7, <2>1, <4>1
        <5> QED
          BY <5>1
      <4> QED
        BY <3>1, <3>2, <4>1
    <3> QED
      BY <2>1, <2>2, <3>3 DEF WorkerInTurn
  <2>3. CASE r.pc = "followup"
    <3>1. MayFollow(r.job) /\ r.job \in Jobs
      BY <2>1, <2>3 DEF WorkerInTurn
    <3>2. ASSUME NEW i \in Jobs, i = r.job, MayFollow(i) PROVE WorkerInTurn(wk[w])'
      <4>1. MayFollow(i)' /\ i = wk'[w].job /\ wk'[w].pc = "followup"
        BY <1>7, <2>1, <2>3, <3>2
      <4> QED
        BY <4>1 DEF WorkerInTurn
    <3> QED
      BY <3>1, <3>2
  <2>4. CASE r.pc \notin {"insert", "followup", "idle"}
    <3>1. ASSUME NEW i \in Jobs, i = r.job PROVE WorkerInTurn(wk[w])'
      <4>1. /\ i = wk'[w].job /\ job'[i] = job[i] /\ outcome'[i] = outcome[i] /\ (Newest(i)' <=> Newest(i))
            /\ link'[i] = "none" <=> link[i] = "none"
        BY <1>1, <1>5, <1>6, <2>1, <3>1
      <4> QED
        BY <2>1, <2>4, <3>1, <4>1 DEF WorkerInTurn, Exists, Due
    <3> QED
      BY <2>1, <2>4, <3>1
  <2>5. CASE r.pc = "idle"
    BY <2>1, <2>5 DEF WorkerInTurn
  <2> QED
    BY <2>2, <2>3, <2>4, <2>5
<1>9. ASSUME NEW w \in Workers PROVE HandlerInTurn(hd[w])'
  <2> DEFINE h == hd[w]
  <2>1. /\ HandlerInTurn(h) /\ hd'[w] = hd[w] /\ (h.pc \in JobPcs => h.job \in Jobs)
        /\ h.pending \subseteq Jobs /\ h.live \subseteq Jobs
    BY DEF AttemptsInTurn, STypeInv, HandlerTypeOK, HandlerState
  <2>2. /\ \A i \in h.pending : job'[i].status = "pending"
        /\ \A i \in h.live : Exists(i)' /\ outcome'[i] = <<>> /\ link'[i] # "none"
    BY <1>1, <1>6, <2>1 DEF HandlerInTurn, Exists
  <2>3. CASE h.pc \notin JobPcs
    BY <2>1, <2>2, <2>3 DEF HandlerInTurn, JobPcs
  <2>4. CASE h.pc \in JobPcs
    <3>1. ASSUME NEW i \in Jobs, i = h.job PROVE HandlerInTurn(hd[w])'
      <4>1. /\ i = hd'[w].job /\ job'[i] = job[i] /\ outcome'[i] = outcome[i] /\ (Newest(i)' <=> Newest(i))
            /\ link'[i] = "none" <=> link[i] = "none"
            /\ link[i] = "expired" => link'[i] = "expired"
            /\ link[i] \in Collecting => link'[i] \in Collecting
        BY <1>1, <1>5, <1>6, <2>1, <3>1
      <4> QED
        BY <2>1, <2>2, <3>1, <4>1 DEF HandlerInTurn, Exists, Due, HasOutcome
    <3> QED
      BY <2>1, <2>4, <3>1
  <2> QED
    BY <2>3, <2>4
<1> QED
  BY <1>5, <1>8, <1>9 DEF AttemptsInTurn

-----------------------------------------------------------------------------
(* AttemptsInTurn is inductive.                                             *)

LEMMA StepIsBusy ==
  ASSUME TypeOK, NEW w \in Workers, Step(w)
  PROVE  Busy(w, wk[w].job)
BY DEF Busy, Step, ScheduleStep, Followup, InsertDuplicate, Insert, Park,
       RecoverStep, RecoverLookup, RecoverStaleExecution, GuardStep, Execute, VoidOrderPaid, VoidOutcome,
       StubTokenRetry, RefuseLocally, ClaimForExecution, ClaimRefused, FinishStep, FinishSent, FinishClosed,
       FinishThrottled, Reconcile, FinishOther, Close, SendStep, FinishShadow, SendSubscriptionPage, OrderCheckPaid,
       OrderCheckPasses, EarlierLanded, EarlierNone, Superseded, CreateLink, CreateDuplicate, CreateRefused,
       OfferRejected, CreateUnanswered, FinishDuplicate, RecordResult

LEMMA SettleIsHandling ==
  ASSUME NEW w \in Workers, SettleStep(w)
  PROVE  Handling(w, hd[w], hd[w].job)
BY DEF Handling, SettleStep, PaidIgnored, PaidChecked, ClosePaidLink, MarkOrderPaid, TakeAttempt, AttemptsDone,
       VoidPending, CancelLink, CancelSkipped, RecordCancel, CloseStopped, ExpiredIgnored, ExpiredChecked,
       StillOpen, FetchLink, RecordSeen, ExpiryFollowup

LEMMA NothingInflight ==
  ASSUME ~LateLanding, inflight = {}, [SNext]_svars
  PROVE  inflight' = {}
<1>1. ASSUME NEW w \in Workers, Execution(w) PROVE inflight' = {}
  <2>1. CASE CreateUnanswered(w)
    BY <2>1 DEF CreateUnanswered
  <2>2. CASE CreateLink(w)
    BY <2>2 DEF CreateLink
  <2>3. CASE Begin(w) \/ ScheduleStep(w) \/ RecoverStep(w) \/ GuardStep(w) \/ FinishStep(w)
    BY <2>3 DEF Begin, ProcessAttempt, Sweep, ScheduleStep, Followup, InsertDuplicate, Insert, Park,
       RecoverStep, RecoverLookup, RecoverStaleExecution, GuardStep, Execute, VoidOrderPaid, VoidOutcome,
       StubTokenRetry, RefuseLocally, ClaimForExecution, ClaimRefused, FinishStep, FinishSent, FinishClosed,
       FinishThrottled, Reconcile, FinishOther, Close, razorpay
  <2> QED
    BY <1>1, <2>1, <2>2, <2>3 DEF Execution, Step, SendStep, FinishShadow, SendSubscriptionPage, OrderCheckPaid,
       OrderCheckPasses, EarlierLanded, EarlierNone, Superseded, CreateDuplicate, CreateRefused,
       OfferRejected, FinishDuplicate, RecordResult, razorpay
<1>2. ASSUME NEW w \in Workers, SettleStep(w) \/ Receive(w) PROVE inflight' = {}
  BY <1>2 DEF SettleStep, PaidIgnored, PaidChecked, ClosePaidLink, MarkOrderPaid, TakeAttempt, AttemptsDone,
       VoidPending, CancelLink, CancelSkipped, RecordCancel, CloseStopped, ExpiredIgnored, ExpiredChecked,
       StillOpen, FetchLink, RecordSeen, ExpiryFollowup, Receive, ReceivePaid, ReceiveExpired, PollLink,
       ReceiveCaptured, vars, razorpay
<1>3. CASE World
  BY <1>3 DEF World, PayLink, PayPart, EndLink, Land, PayElsewhere, Capture, SettlementCrash, razorpay
<1>4. CASE UNCHANGED svars
  BY <1>4 DEF svars, vars
<1> QED
  BY <1>1, <1>2, <1>3, <1>4 DEF SNext

(* The row of the next attempt is the only one that comes into being. *)
RowsKept == SameRows \/ \E w \in Workers : Insert(w) /\ wk[w].pc = "insert"

LEMMA SettleInTurn ==
  ASSUME STypeInv, AttemptsInTurn, NEW w \in Workers, SettleStep(w)
  PROVE  RowsInTurn' /\ SameRows /\ WorkerInTurn(wk[w])' /\ HandlerInTurn(hd[w])'
<1>1. Handling(w, hd[w], hd[w].job)
  BY SettleIsHandling
<1>2. PICK h, j : Handling(w, h, j)
  BY <1>1
<1>3. CASE PaidIgnored(w) \/ PaidChecked(w) \/ ClosePaidLink(w)
  BY <1>2, <1>3, PaidInTurn
<1>4. CASE MarkOrderPaid(w) \/ TakeAttempt(w) \/ AttemptsDone(w) \/ CancelSkipped(w)
  BY <1>2, <1>4, TakeInTurn
<1>5. CASE VoidPending(w) \/ CancelLink(w) \/ RecordCancel(w) \/ CloseStopped(w)
  BY <1>2, <1>5, StopInTurn
<1>6. CASE ExpiredIgnored(w) \/ ExpiredChecked(w) \/ StillOpen(w) \/ FetchLink(w) \/ RecordSeen(w) \/ ExpiryFollowup(w)
  BY <1>2, <1>6, PollInTurn
<1> QED
  BY <1>3, <1>4, <1>5, <1>6 DEF SettleStep

LEMMA ExecutionInTurn ==
  ASSUME STypeInv, AttemptsInTurn, ~LateLanding, NEW w \in Workers, Execution(w)
  PROVE  RowsInTurn' /\ RowsKept /\ WorkerInTurn(wk[w])' /\ HandlerInTurn(hd[w])'
<1>1. TypeOK /\ hd'[w] = NoHandler
  BY DEF STypeInv, Execution
<1>2. HandlerInTurn(hd[w])'
  BY <1>1 DEF NoHandler, HandlerInTurn, OrderHandling
<1>3. CASE Begin(w)
  BY <1>1, <1>2, <1>3, BeginInTurn DEF RowsKept
<1>4. CASE Step(w)
  <2>1. Busy(w, wk[w].job)
    BY <1>1, <1>4, StepIsBusy
  <2>2. PICK j : Busy(w, j)
    BY <2>1
  <2>3. CASE ScheduleStep(w)
    BY <1>1, <1>2, <2>2, <2>3, ScheduleInTurn DEF RowsKept, Insert
  <2> QED
    BY <1>1, <1>2, <1>4, <2>2, <2>3, RecoverInTurn, GuardInTurn, SendInTurn, FinishInTurn DEF Step, RowsKept
<1> QED
  BY <1>3, <1>4 DEF Execution

LEMMA InTurnStep ==
  ASSUME Serial, ~LateLanding, STypeInv, AttemptsInTurn, [SNext]_svars
  PROVE  AttemptsInTurn' /\ RowsKept
<1>1. inflight' = {}
  BY NothingInflight DEF AttemptsInTurn
<1>2. ASSUME NEW w \in Workers, RowsInTurn', WorkerInTurn(wk[w])', HandlerInTurn(hd[w])' PROVE AttemptsInTurn'
  BY <1>1, <1>2 DEF Serial, AttemptsInTurn
<1>3. ASSUME UNCHANGED <<job, outcome, link, wk, hd>> PROVE AttemptsInTurn' /\ RowsKept
  <2>1. RowsInTurn' /\ SameRows /\ (\A k \in Jobs : Newest(k)' <=> Newest(k))
    BY <1>3, NoRowChange DEF AttemptsInTurn
  <2>2. \A p : SeqsOf(p)' = SeqsOf(p)
    BY <1>3 DEF SeqsOf, Exists
  <2>3. ASSUME NEW w \in Workers PROVE WorkerInTurn(wk[w])' /\ HandlerInTurn(hd[w])'
    <3>1. WorkerInTurn(wk[w])'
      BY <1>3, <2>2 DEF AttemptsInTurn, WorkerInTurn, MayFollow, Newest, Exists, Due, HasOutcome
    <3>2. HandlerInTurn(hd[w])'
      BY <1>3, <2>2 DEF AttemptsInTurn, HandlerInTurn, MayFollow, Newest, Exists, Due, HasOutcome
    <3> QED
      BY <3>1, <3>2
  <2> QED
    BY <1>1, <2>1, <2>3 DEF AttemptsInTurn, RowsKept
<1>4. CASE UNCHANGED svars
  BY <1>3, <1>4 DEF svars, vars
<1>5. ASSUME NEW w \in Workers, Execution(w) PROVE AttemptsInTurn' /\ RowsKept
  BY <1>2, <1>5, ExecutionInTurn
<1>6. ASSUME NEW w \in Workers, SettleStep(w) \/ Receive(w) PROVE AttemptsInTurn' /\ RowsKept
  BY <1>2, <1>6, SettleInTurn, ReceiveInTurn DEF RowsKept
<1>7. ASSUME NEW j \in Jobs, PayLink(j) \/ PayPart(j) \/ EndLink(j) PROVE AttemptsInTurn' /\ RowsKept
  <2>1. Live(j) /\ UNCHANGED <<db, inflight, wk, hd>>
    BY <1>7 DEF PayLink, PayPart, EndLink, Live
  <2>2. PICK l \in {"paid", "partial", "expired", "cancelled"} :
          link' = [link EXCEPT ![j] = l] /\ (link[j] = "partial" => l = "paid")
    BY <1>7 DEF PayLink, PayPart, EndLink
  <2> QED
    BY <2>1, <2>2, LinkMoves DEF RowsKept
<1>8. ASSUME NEW o \in Orders, PayElsewhere(o) PROVE AttemptsInTurn' /\ RowsKept
  BY <1>3, <1>8 DEF PayElsewhere, Capture, db
<1>9. ASSUME NEW w \in Workers, SettlementCrash(w) PROVE AttemptsInTurn' /\ RowsKept
  <2>1. RowsInTurn' /\ SameRows
    BY <1>9, NoRowChange DEF AttemptsInTurn, SettlementCrash, db, razorpay
  <2>2. WorkerInTurn(wk[w])' /\ HandlerInTurn(hd[w])'
    BY <1>9, IdleInTurn, AnsweredInTurn DEF SettlementCrash, STypeInv
  <2> QED
    BY <1>2, <2>1, <2>2 DEF RowsKept
<1>10. CASE World
  BY <1>7, <1>8, <1>9, <1>10 DEF World, Land, AttemptsInTurn
<1> QED
  BY <1>4, <1>5, <1>6, <1>10 DEF SNext

LEMMA InTurnInit == SInit => AttemptsInTurn
<1> SUFFICES ASSUME SInit PROVE AttemptsInTurn
  OBVIOUS
<1>1. /\ inflight = {} /\ \A j \in Jobs : job[j] = NoRow /\ outcome[j] = <<>> /\ link[j] = "none"
      /\ \A w \in Workers : wk[w] = Idle /\ hd[w] = NoHandler
  BY DEF SInit, Init
<1>2. RowsInTurn
  BY <1>1 DEF RowsInTurn, RowInTurn, NoRow, Exists, Due, DueStatuses
<1>3. \A w \in Workers : WorkerInTurn(wk[w]) /\ HandlerInTurn(hd[w])
  BY <1>1 DEF WorkerInTurn, HandlerInTurn, Idle, NoHandler, OrderHandling
<1> QED
  BY <1>1, <1>2, <1>3 DEF AttemptsInTurn

(* Under the lock of serve the attempts of a payment follow each other, and  *)
(* what a handler or execute_job read before one of its calls is still so    *)
(* when it writes, after any crash, redelivery, lost answer or expiry.      *)
THEOREM AttemptsFollow ==
  ASSUME Serial, ~LateLanding
  PROVE  SSpec => []AttemptsInTurn
<1>1. STypeInv /\ AttemptsInTurn /\ [SNext]_svars => AttemptsInTurn'
  BY InTurnStep
<1> QED
  BY <1>1, InTurnInit, STypeCorrect, PTL DEF SSpec

(* At most one link of a payment can be paid at a time (ARCHITECTURE.md,     *)
(* Failure recovery), for any number of attempts, faults and crashes, when   *)
(* no request completes after its answer was lost.                          *)
THEOREM OneLinkAtATime ==
  ASSUME Serial, ~LateLanding
  PROVE  SSpec => []OneLiveLink
<1>1. AttemptsInTurn => OneLiveLink
  <2> SUFFICES ASSUME AttemptsInTurn, NEW p \in Payments, NEW s \in 1..MaxSeq, NEW t \in 1..MaxSeq,
                      Live(<<p, s>>), Live(<<p, t>>)
               PROVE  s = t
    BY DEF OneLiveLink
  <2>1. <<p, s>> \in Jobs /\ <<p, t>> \in Jobs
    BY JobOfPayment
  <2>2. ASSUME NEW r \in 1..MaxSeq, Live(<<p, r>>) PROVE Exists(<<p, r>>) /\ Newest(<<p, r>>)
    <3>1. <<p, r>> \in Jobs /\ RowsInTurn /\ link[<<p, r>>] # "none" /\ link[<<p, r>>] \notin Unpaid
      BY <2>2, JobOfPayment DEF Live, AttemptsInTurn, Unpaid
    <3> QED
      BY <3>1, LinkedRow
  <2>3. s \in SeqsOf(p) /\ t \in SeqsOf(p) /\ s <= t /\ t <= s
    BY <2>2 DEF SeqsOf, Newest
  <2> QED
    BY <2>3
<1> QED
  BY <1>1, AttemptsFollow, PTL

(* Nothing is created for a job an outcome has closed: no sweep, recovery,   *)
(* retry or follow-up comes back to it.                                      *)
THEOREM ClosedIsFinal ==
  ASSUME Serial, ~LateLanding
  PROVE  SSpec => ClosedStaysClosed
<1>1. STypeInv /\ AttemptsInTurn /\ [SNext]_svars
        => [\A j \in Jobs : NewLink(j) /\ j \notin inflight => outcome[j] = <<>>]_vars
  <2> SUFFICES ASSUME STypeInv, AttemptsInTurn, [SNext]_svars, NEW j \in Jobs, NewLink(j), j \notin inflight
               PROVE  outcome[j] = <<>>
    OBVIOUS
  <2>1. PICK w \in Workers : wk[w].pc = "create" /\ j = wk[w].job
    BY NewLinkIsCreated DEF CreateLink, CreateUnanswered
  <2> QED
    BY <2>1 DEF AttemptsInTurn, WorkerInTurn
<1> QED
  BY <1>1, STypeCorrect, AttemptsFollow, PTL DEF SSpec, ClosedStaysClosed

-----------------------------------------------------------------------------
(* The refinement.  What the promise sees of a payment is its latest row.   *)

SameView(p) == LastSeq(p)' = LastSeq(p) /\ OfferOf(p)' = OfferOf(p) /\ ResultOf(p)' = ResultOf(p)

LEMMA LatestIsJob ==
  ASSUME NEW p \in Payments, LastSeq(p) # 0
  PROVE  Latest(p) \in Jobs /\ Exists(Latest(p)) /\ Newest(Latest(p)) /\ Latest(p)[1] = p
<1>1. SeqsOf(p) # {}
  BY DEF LastSeq
<1>2. LastSeq(p) \in SeqsOf(p) /\ \A t \in SeqsOf(p) : t <= LastSeq(p)
  BY <1>1, LastSeqIsLargest
<1> QED
  BY <1>2, JobOfPayment DEF SeqsOf, Latest, Newest

(* The view of a payment through its newest row. *)
LEMMA ViewOfNewest ==
  ASSUME NEW j \in Jobs, Exists(j), Newest(j)
  PROVE  /\ LastSeq(j[1]) = j[2] /\ LastSeq(j[1]) # 0
         /\ OfferOf(j[1]) = OfferState[link[j]]
         /\ ResultOf(j[1]) = IF outcome[j] = <<>> THEN "unknown" ELSE Head(outcome[j])
<1>1. j = Latest(j[1]) /\ LastSeq(j[1]) = j[2] /\ j[2] \in 1..MaxSeq
  BY NewestIsLast, JobIsPair
<1>2. LastSeq(j[1]) # 0
  BY <1>1, ConstantsAssumption
<1> QED
  BY <1>1, <1>2 DEF OfferOf, ResultOf

LEMMA ViewKept ==
  ASSUME NEW p \in Payments, SeqsOf(p)' = SeqsOf(p),
         LastSeq(p) # 0 => link'[Latest(p)] = link[Latest(p)] /\ outcome'[Latest(p)] = outcome[Latest(p)]
  PROVE  SameView(p)
<1>1. LastSeq(p)' = LastSeq(p)
  BY DEF LastSeq
<1>2. Latest(p)' = Latest(p)
  BY <1>1 DEF Latest
<1> QED
  BY <1>1, <1>2 DEF SameView, OfferOf, ResultOf

(* A step that changes one row is seen only by the payment of that row, and  *)
(* only when the row is its newest.                                         *)
LEMMA OtherViews ==
  ASSUME SameRows, NEW j \in Jobs, \A k \in Jobs \ {j} : link'[k] = link[k] /\ outcome'[k] = outcome[k],
         NEW p \in Payments, p # j[1] \/ ~Newest(j)
  PROVE  SameView(p)
<1>1. SeqsOf(p)' = SeqsOf(p)
  BY SameRowsView
<1>2. ASSUME LastSeq(p) # 0
      PROVE  link'[Latest(p)] = link[Latest(p)] /\ outcome'[Latest(p)] = outcome[Latest(p)]
  BY <1>2, LatestIsJob
<1> QED
  BY <1>1, <1>2, ViewKept

LEMMA NewestView ==
  ASSUME SameRows, NEW j \in Jobs, Exists(j), Newest(j)
  PROVE  /\ LastSeq(j[1])' = LastSeq(j[1])
         /\ OfferOf(j[1])' = OfferState[link'[j]]
         /\ ResultOf(j[1])' = IF outcome'[j] = <<>> THEN "unknown" ELSE Head(outcome'[j])
<1>1. LastSeq(j[1])' = LastSeq(j[1])
  BY SameRowsView, JobIsPair
<1>2. j = Latest(j[1]) /\ LastSeq(j[1]) # 0
  BY NewestIsLast, ViewOfNewest
<1>3. Latest(j[1])' = j
  BY <1>1, <1>2 DEF Latest
<1> QED
  BY <1>1, <1>2, <1>3 DEF OfferOf, ResultOf

LEMMA Stutter ==
  ASSUME \A p \in Payments : SameView(p)
  PROVE  UNCHANGED Promise!pvars
BY DEF SameView, Promise!pvars

(* A link of the newest row moves: what the promise calls it. *)
LEMMA OfferStep ==
  ASSUME TypeOK, RowsInTurn, SameRows, NEW j \in Jobs, Exists(j), Newest(j), NEW l \in LinkStates,
         link' = [link EXCEPT ![j] = l], UNCHANGED outcome,
         \/ link[j] = "none" /\ l = "created" /\ outcome[j] = <<>> /\ j[2] <= MaxAttempts
         \/ Live(j) /\ l = "paid"
         \/ link[j] = "created" /\ l = "partial"
         \/ Live(j) /\ l \in {"expired", "cancelled"} /\ (outcome[j] = <<"recovered">> => link[j] # "partial")
  PROVE  Promise!PNext
<1> DEFINE p == j[1]
<1>1. link'[j] = l /\ \A k \in Jobs \ {j} : link'[k] = link[k] /\ outcome'[k] = outcome[k]
  BY DEF TypeOK
<1>2. p \in Payments /\ j[2] \in 1..MaxSeq
  BY JobIsPair
<1>3. \A q \in Payments \ {p} : SameView(q)
  BY <1>1, OtherViews
<1>4. /\ LastSeq(p) = j[2] /\ OfferOf(p) = OfferState[link[j]]
      /\ ResultOf(p) = IF outcome[j] = <<>> THEN "unknown" ELSE Head(outcome[j])
  BY ViewOfNewest
<1>5. /\ LastSeq(p)' = LastSeq(p) /\ OfferOf(p)' = OfferState[l]
      /\ ResultOf(p)' = ResultOf(p)
  BY <1>1, <1>4, NewestView
<1>6. /\ OfferState["none"] = "none" /\ OfferState["created"] = "open" /\ OfferState["partial"] = "part"
      /\ OfferState["paid"] = "paid" /\ OfferState["expired"] = "ended" /\ OfferState["cancelled"] = "ended"
  BY DEF OfferState, LinkStates
<1>7. outcome[j] \in {<<>>, <<"lost">>, <<"recovered">>}
  BY DEF RowsInTurn, RowInTurn
<1>8. ResultOf(p) = "recovered" => outcome[j] = <<"recovered">>
  BY <1>4, <1>7
<1>9. /\ [q \in Payments |-> LastSeq(q)]' = [q \in Payments |-> LastSeq(q)]
      /\ [q \in Payments |-> ResultOf(q)]' = [q \in Payments |-> ResultOf(q)]
      /\ [q \in Payments |-> OfferOf(q)]' = [[q \in Payments |-> OfferOf(q)] EXCEPT ![p] = OfferState[l]]
  BY <1>2, <1>3, <1>5 DEF SameView
<1>10. CASE link[j] = "none" /\ l = "created" /\ outcome[j] = <<>> /\ j[2] <= MaxAttempts
  <2>1. OfferOf(p) = "none" /\ ResultOf(p) = "unknown"
    BY <1>4, <1>6, <1>10
  <2>2. LastSeq(p) \in 1..MaxAttempts
    BY <1>2, <1>4, <1>10, ConstantsAssumption
  <2>3. [q \in Payments |-> OfferOf(q)]' = [[q \in Payments |-> OfferOf(q)] EXCEPT ![p] = "open"]
    BY <1>6, <1>9, <1>10
  <2>4. Promise!Offer(p)
    BY <1>2, <1>9, <2>1, <2>2, <2>3 DEF Promise!Offer
  <2> QED
    BY <1>2, <2>4 DEF Promise!PNext
<1>11. CASE Live(j) /\ l = "paid"
  <2>1. Promise!Pay(p)
    BY <1>2, <1>4, <1>6, <1>9, <1>11 DEF Promise!Pay, Promise!Payable, Live
  <2> QED
    BY <1>2, <2>1 DEF Promise!PNext
<1>12. CASE link[j] = "created" /\ l = "partial"
  <2>1. OfferOf(p) = "open" /\ OfferState[l] = "part"
    BY <1>4, <1>6, <1>12
  <2>2. [q \in Payments |-> OfferOf(q)]' = [[q \in Payments |-> OfferOf(q)] EXCEPT ![p] = "part"]
    BY <1>9, <2>1
  <2>3. Promise!PayPart(p)
    BY <1>2, <1>9, <2>1, <2>2 DEF Promise!PayPart
  <2> QED
    BY <1>2, <2>3 DEF Promise!PNext
<1>13. CASE Live(j) /\ l \in {"expired", "cancelled"} /\ (outcome[j] = <<"recovered">> => link[j] # "partial")
  <2>1. OfferOf(p) \in {"open", "part"} /\ OfferState[l] = "ended"
    BY <1>4, <1>6, <1>13 DEF Live
  <2>2. OfferOf(p) = "part" => link[j] = "partial"
    BY <1>4, <1>6, <1>13 DEF Live
  <2>3. ResultOf(p) = "recovered" => OfferOf(p) # "part"
    BY <1>8, <1>13, <2>2
  <2>4. [q \in Payments |-> OfferOf(q)]' = [[q \in Payments |-> OfferOf(q)] EXCEPT ![p] = "ended"]
    BY <1>9, <2>1
  <2>5. Promise!Withdraw(p)
    BY <1>2, <1>9, <2>1, <2>3, <2>4 DEF Promise!Withdraw, Promise!Payable
  <2> QED
    BY <1>2, <2>5 DEF Promise!PNext
<1> QED
  BY <1>10, <1>11, <1>12, <1>13

(* The first outcome of a row: the result of the attempt, if it is the newest. *)
LEMMA SettleStepView ==
  ASSUME TypeOK, SameRows, NEW j \in Jobs, Exists(j), outcome[j] = <<>>, NEW result \in {"recovered", "lost"},
         RecordOutcome(j, result), UNCHANGED link, result = "recovered" => link[j] \in Collecting
  PROVE  Promise!PNext \/ UNCHANGED Promise!pvars
<1> DEFINE p == j[1]
<1>1. outcome'[j] = <<result>> /\ \A k \in Jobs \ {j} : link'[k] = link[k] /\ outcome'[k] = outcome[k]
  BY OutcomeAt
<1>2. p \in Payments /\ j[2] \in 1..MaxSeq
  BY JobIsPair
<1>3. CASE ~Newest(j)
  <2>1. \A q \in Payments : SameView(q)
    BY <1>1, <1>3, OtherViews
  <2> QED
    BY <2>1, Stutter
<1>4. CASE Newest(j)
  <2>1. \A q \in Payments \ {p} : SameView(q)
    BY <1>1, OtherViews
  <2>2. LastSeq(p) = j[2] /\ OfferOf(p) = OfferState[link[j]] /\ ResultOf(p) = "unknown"
    BY <1>4, ViewOfNewest
  <2>3. outcome'[j] # <<>> /\ Head(outcome'[j]) = result
    BY <1>1
  <2>4. LastSeq(p)' = LastSeq(p) /\ OfferOf(p)' = OfferOf(p) /\ ResultOf(p)' = result
    BY <1>4, <2>2, <2>3, NewestView
  <2>5. /\ [q \in Payments |-> LastSeq(q)]' = [q \in Payments |-> LastSeq(q)]
        /\ [q \in Payments |-> OfferOf(q)]' = [q \in Payments |-> OfferOf(q)]
        /\ [q \in Payments |-> ResultOf(q)]' = [[q \in Payments |-> ResultOf(q)] EXCEPT ![p] = result]
    BY <1>2, <2>1, <2>4 DEF SameView
  <2>6. result = "recovered" => OfferState[link[j]] \in {"part", "paid"}
    BY DEF OfferState, LinkStates, Collecting
  <2>7. LastSeq(p) > 0
    BY <1>2, <2>2, ConstantsAssumption
  <2>8. \/ /\ OfferOf(p) \in {"part", "paid"}
           /\ [q \in Payments |-> ResultOf(q)]' = [[q \in Payments |-> ResultOf(q)] EXCEPT ![p] = "recovered"]
        \/ [q \in Payments |-> ResultOf(q)]' = [[q \in Payments |-> ResultOf(q)] EXCEPT ![p] = "lost"]
    BY <2>2, <2>5, <2>6
  <2>9. Promise!Settle(p)
    BY <1>2, <2>2, <2>5, <2>7, <2>8 DEF Promise!Settle
  <2> QED
    BY <1>2, <2>9 DEF Promise!PNext
<1> QED
  BY <1>3, <1>4

(* A new row begins the next attempt. *)
LEMMA BeginView ==
  ASSUME TypeOK, AttemptsInTurn, NEW w \in Workers, NEW j, Busy(w, j), Insert(w)
  PROVE  Promise!PNext
<1> DEFINE p == j[1]
           i == <<j[1], j[2] - 1>>
<1>1. /\ ~Exists(j) /\ Exists(j)' /\ \A k \in Jobs \ {j} : Exists(k)' <=> Exists(k)
      /\ \A k \in Jobs : Exists(k) /\ k[1] = j[1] => k[2] < j[2]
      /\ j[2] = 1 \/ MayFollow(i)
  BY InsertInTurn
<1>2. j \in Jobs /\ RowsInTurn /\ UNCHANGED <<link, outcome>>
  BY BusyJob DEF AttemptsInTurn, Insert, razorpay
<1>3. j = <<j[1], j[2]>> /\ p \in Payments /\ j[2] \in 1..MaxSeq /\ MaxSeq \in Nat /\ MaxAttempts \in Nat \ {0}
  BY <1>2, JobIsPair, ConstantsAssumption
<1>4. link[j] = "none" /\ outcome[j] = <<>>
  BY <1>1, <1>2 DEF RowsInTurn, RowInTurn
<1>5. OfferState["none"] = "none" /\ OfferState["expired"] = "ended"
  BY DEF OfferState, LinkStates
<1>6. ASSUME NEW q \in Payments, q # p PROVE SameView(q)
  <2>1. \A s \in 1..MaxSeq : <<q, s>> \in Jobs /\ <<q, s>> # j
    BY <1>3, <1>6, JobOfPayment
  <2>2. SeqsOf(q)' = SeqsOf(q)
    BY <1>1, <2>1 DEF SeqsOf
  <2> QED
    BY <1>2, <2>2, ViewKept
<1>7. LastSeq(p) = j[2] - 1 /\ OfferOf(p) \in {"none", "ended"} /\ ResultOf(p) # "recovered" /\ j[2] - 1 <= MaxAttempts
  <2>1. CASE j[2] = 1
    <3>1. \A s \in 1..MaxSeq : <<p, s>> \in Jobs /\ <<p, s>>[1] = p /\ <<p, s>>[2] = s
      BY <1>3, JobOfPayment
    <3>2. SeqsOf(p) = {}
      BY <1>1, <1>3, <2>1, <3>1 DEF SeqsOf
    <3>3. LastSeq(p) = 0
      BY <3>2 DEF LastSeq
    <3> QED
      BY <1>3, <2>1, <3>3 DEF OfferOf, ResultOf
  <2>2. CASE j[2] # 1
    <3>1. i \in Jobs /\ i[1] = p /\ i[2] = j[2] - 1
      BY <1>3, <2>2 DEF Jobs
    <3>2. MayFollow(i) /\ Exists(i) /\ Newest(i) /\ i[2] <= MaxAttempts /\ link[i] \in {"none", "expired"}
      BY <1>1, <2>2 DEF MayFollow
    <3>3. outcome[i] \in {<<>>, <<"lost">>}
      BY <1>2, <3>1, <3>2 DEF RowsInTurn, RowInTurn, Collecting
    <3>4. /\ LastSeq(p) = i[2] /\ OfferOf(p) = OfferState[link[i]]
          /\ ResultOf(p) = IF outcome[i] = <<>> THEN "unknown" ELSE Head(outcome[i])
      BY <3>1, <3>2, ViewOfNewest
    <3>5. ResultOf(p) # "recovered"
      BY <3>3, <3>4
    <3> QED
      BY <1>5, <3>1, <3>2, <3>4, <3>5
  <2> QED
    BY <2>1, <2>2
<1>8. LastSeq(p)' = j[2]
  <2>1. j[2] \in SeqsOf(p)'
    BY <1>1, <1>3 DEF SeqsOf
  <2>2. \A t \in SeqsOf(p)' : t <= j[2]
    <3> SUFFICES ASSUME NEW t \in 1..MaxSeq, Exists(<<p, t>>)' PROVE t <= j[2]
      BY DEF SeqsOf
    <3>1. CASE t = j[2]
      BY <1>3, <3>1
    <3>2. CASE t # j[2]
      <4>1. <<p, t>> \in Jobs /\ <<p, t>> # j
        BY <1>3, <3>2, JobOfPayment
      <4>2. Exists(<<p, t>>)
        BY <1>1, <4>1
      <4> QED
        BY <1>1, <1>3, <4>1, <4>2
    <3> QED
      BY <3>1, <3>2
  <2>3. SeqsOf(p)' \subseteq Nat
    BY <1>3 DEF SeqsOf
  <2> QED
    BY <2>1, <2>2, <2>3, <1>3 DEF LastSeq
<1>9. OfferOf(p)' = "none" /\ ResultOf(p)' = "unknown"
  <2>1. Latest(p)' = j /\ LastSeq(p)' # 0
    BY <1>3, <1>8 DEF Latest
  <2> QED
    BY <1>2, <1>4, <1>5, <2>1 DEF OfferOf, ResultOf
<1>10. /\ [q \in Payments |-> LastSeq(q)]' = [[q \in Payments |-> LastSeq(q)] EXCEPT ![p] = @ + 1]
       /\ [q \in Payments |-> OfferOf(q)]' = [[q \in Payments |-> OfferOf(q)] EXCEPT ![p] = "none"]
       /\ [q \in Payments |-> ResultOf(q)]' = [[q \in Payments |-> ResultOf(q)] EXCEPT ![p] = "unknown"]
  <2>1. LastSeq(p)' = LastSeq(p) + 1
    BY <1>3, <1>7, <1>8
  <2>2. [q \in Payments |-> LastSeq(q)]' = [[q \in Payments |-> LastSeq(q)] EXCEPT ![p] = LastSeq(p) + 1]
    BY <1>3, <1>6, <2>1 DEF SameView
  <2>3. [q \in Payments |-> OfferOf(q)]' = [[q \in Payments |-> OfferOf(q)] EXCEPT ![p] = "none"]
    BY <1>3, <1>6, <1>9 DEF SameView
  <2>4. [q \in Payments |-> ResultOf(q)]' = [[q \in Payments |-> ResultOf(q)] EXCEPT ![p] = "unknown"]
    BY <1>3, <1>6, <1>9 DEF SameView
  <2>5. [[q \in Payments |-> LastSeq(q)] EXCEPT ![p] = @ + 1] = [[q \in Payments |-> LastSeq(q)] EXCEPT ![p] = LastSeq(p) + 1]
    BY <1>3
  <2> QED
    BY <2>2, <2>3, <2>4, <2>5
<1>11. Promise!Begin(p)
  BY <1>3, <1>7, <1>10 DEF Promise!Begin
<1> QED
  BY <1>3, <1>11 DEF Promise!PNext

PromiseStep == Promise!PNext \/ UNCHANGED Promise!pvars

LEMMA NothingSeen ==
  ASSUME SameRows, UNCHANGED <<link, outcome>>
  PROVE  UNCHANGED Promise!pvars
<1>1. ASSUME NEW p \in Payments PROVE SameView(p)
  BY SameRowsView, ViewKept
<1> QED
  BY <1>1, Stutter

(* Ingest, the sweep, execute_job and finish_job: a new row, a created link, *)
(* or the outcome of a row that is over.                                     *)
LEMMA ExecutionView ==
  ASSUME STypeInv, AttemptsInTurn, ~LateLanding, NEW w \in Workers, Execution(w)
  PROVE  PromiseStep
<1>1. TypeOK /\ RowsInTurn /\ WorkerInTurn(wk[w]) /\ RowsKept
  BY ExecutionInTurn DEF STypeInv, AttemptsInTurn
<1>2. ASSUME NEW v \in Workers, Insert(v), wk[v].pc = "insert" PROVE PromiseStep
  <2>1. Busy(v, wk[v].job)
    BY <1>2 DEF Busy
  <2>2. PICK j : Busy(v, j)
    BY <2>1
  <2> QED
    BY <1>1, <1>2, <2>2, BeginView DEF PromiseStep
<1>3. CASE SameRows
  <2>1. CASE UNCHANGED <<link, outcome>>
    BY <1>3, <2>1, NothingSeen DEF PromiseStep
  <2>2. CASE UNCHANGED outcome /\ ~UNCHANGED link
    <3>1. /\ wk[w].pc = "create" /\ wk[w].job \in Jobs
          /\ link[wk[w].job] = "none" /\ link' = [link EXCEPT ![wk[w].job] = "created"]
      BY <2>2, ExecutionLinks DEF Execution
    <3>2. PICK j \in Jobs : /\ j = wk[w].job /\ link[j] = "none" /\ link' = [link EXCEPT ![j] = "created"]
                            /\ job[j].status = "executing" /\ Newest(j) /\ outcome[j] = <<>>
      BY <1>1, <3>1 DEF WorkerInTurn
    <3>3. Exists(j) /\ j[2] <= MaxAttempts
      BY <1>1, <3>2, DueRow DEF Due, DueStatuses
    <3> QED
      BY <1>1, <1>3, <2>2, <3>2, <3>3, OfferStep DEF LinkStates, PromiseStep
  <2>3. CASE ~UNCHANGED outcome
    <3>1. wk[w].pc \in {"park", "voided", "close"} /\ wk[w].job \in Jobs /\ RecordOutcome(wk[w].job, "lost")
      BY <2>3, ExecutionOutcomes DEF Execution
    <3>2. PICK j \in Jobs : RecordOutcome(j, "lost") /\ Exists(j) /\ outcome[j] = <<>>
      BY <1>1, <3>1 DEF WorkerInTurn
    <3>3. UNCHANGED link
      BY <3>1, ExecutionLinks DEF Execution
    <3> QED
      BY <1>1, <1>3, <3>2, <3>3, SettleStepView DEF PromiseStep
  <2> QED
    BY <2>1, <2>2, <2>3
<1> QED
  BY <1>1, <1>2, <1>3 DEF RowsKept

(* The webhooks and the poll: the outcome of a row, or the cancel of a link. *)
LEMMA SettleView ==
  ASSUME STypeInv, AttemptsInTurn, NEW w \in Workers, SettleStep(w)
  PROVE  PromiseStep
<1>1. Handling(w, hd[w], hd[w].job) /\ SameRows
  BY SettleIsHandling, SettleInTurn
<1>2. PICK h, j : Handling(w, h, j)
  BY <1>1
<1>3. /\ TypeOK /\ RowsInTurn /\ h \in HandlerState /\ hd[w] = h /\ h.job = j /\ HandlerInTurn(h)
      /\ h.pc \in JobPcs => j \in Jobs
  BY <1>2, HandlingFacts
<1>4. ASSUME UNCHANGED <<link, outcome>> PROVE PromiseStep
  BY <1>1, <1>4, NothingSeen DEF PromiseStep
<1>5. CASE ClosePaidLink(w)
  <2>1. j \in Jobs /\ Exists(j) /\ outcome[j] = <<>> /\ link[j] \in Collecting
    BY <1>3, <1>5 DEF ClosePaidLink, HandlerInTurn, JobPcs
  <2>2. RecordOutcome(j, "recovered") /\ UNCHANGED link
    BY <1>3, <1>5 DEF ClosePaidLink, razorpay
  <2> QED
    BY <1>1, <1>3, <2>1, <2>2, SettleStepView DEF PromiseStep
<1>6. CASE CloseStopped(w)
  <2>1. j \in Jobs /\ Exists(j) /\ outcome[j] = <<>>
    BY <1>3, <1>6 DEF CloseStopped, HandlerInTurn, JobPcs
  <2>2. RecordOutcome(j, "lost") /\ UNCHANGED link
    BY <1>3, <1>6 DEF CloseStopped, razorpay
  <2> QED
    BY <1>1, <1>3, <2>1, <2>2, SettleStepView DEF PromiseStep
<1>7. CASE RecordSeen(w)
  <2>1. j \in Jobs /\ Exists(j) /\ outcome[j] = <<>> /\ (Recovering(h.seen) => link[j] \in Collecting)
    BY <1>3, <1>7 DEF RecordSeen, HandlerInTurn, JobPcs
  <2>2. PICK result \in {"recovered", "lost"} :
          RecordOutcome(j, result) /\ (result = "recovered" => Recovering(h.seen))
    BY <1>3, <1>7 DEF RecordSeen
  <2>3. UNCHANGED link
    BY <1>7 DEF RecordSeen, razorpay
  <2> QED
    BY <1>1, <1>3, <2>1, <2>2, <2>3, SettleStepView DEF PromiseStep
<1>8. CASE CancelLink(w)
  <2>1. h.live \subseteq Jobs /\ UNCHANGED outcome
    BY <1>3, <1>8 DEF HandlerState, CancelLink, db
  <2>2. PICK i \in h.live : i = First(h.live)
    BY <1>3, <1>8, <2>1, FirstIsMember DEF CancelLink
  <2>3. i \in Jobs /\ Exists(i) /\ outcome[i] = <<>> /\ link[i] # "none"
    BY <1>3, <2>1, <2>2 DEF HandlerInTurn
  <2>4. Newest(i)
    BY <1>3, <2>3, LinkedRow
  <2>5. UNCHANGED link \/ (Live(i) /\ link' = [link EXCEPT ![i] = "cancelled"])
    BY <1>3, <1>8, <2>2 DEF CancelLink
  <2>6. CASE Live(i) /\ link' = [link EXCEPT ![i] = "cancelled"]
    <3>1. "cancelled" \in LinkStates /\ outcome[i] # <<"recovered">>
      BY <2>3 DEF LinkStates
    <3> QED
      BY <1>1, <1>3, <2>1, <2>3, <2>4, <2>6, <3>1, OfferStep DEF PromiseStep
  <2> QED
    BY <1>4, <2>1, <2>5, <2>6
<1>9. CASE PaidIgnored(w) \/ PaidChecked(w) \/ MarkOrderPaid(w) \/ TakeAttempt(w) \/ AttemptsDone(w)
           \/ VoidPending(w) \/ CancelSkipped(w) \/ RecordCancel(w) \/ ExpiredIgnored(w) \/ ExpiredChecked(w)
           \/ StillOpen(w) \/ FetchLink(w) \/ ExpiryFollowup(w)
  BY <1>4, <1>9 DEF PaidIgnored, PaidChecked, MarkOrderPaid, TakeAttempt, AttemptsDone, VoidPending, CancelSkipped,
     RecordCancel, ExpiredIgnored, ExpiredChecked, StillOpen, FetchLink, ExpiryFollowup, vars, razorpay, db
<1> QED
  BY <1>5, <1>6, <1>7, <1>8, <1>9 DEF SettleStep

(* The customer, time, and a crash. *)
LEMMA WorldView ==
  ASSUME STypeInv, AttemptsInTurn, World
  PROVE  PromiseStep
<1>1. TypeOK /\ RowsInTurn
  BY DEF STypeInv, AttemptsInTurn
<1>2. ASSUME UNCHANGED <<job, link, outcome>> PROVE PromiseStep
  BY <1>1, <1>2, NoRowChange, NothingSeen DEF PromiseStep
<1>3. ASSUME NEW j \in Jobs, PayLink(j) \/ PayPart(j) \/ EndLink(j) PROVE PromiseStep
  <2>1. /\ Live(j) /\ UNCHANGED <<job, outcome>>
        /\ \E l \in {"paid", "partial", "expired", "cancelled"} :
             link' = [link EXCEPT ![j] = l] /\ (l # "paid" => link[j] = "created")
    BY <1>3 DEF PayLink, PayPart, EndLink, Live, db
  <2>2. PICK l \in {"paid", "partial", "expired", "cancelled"} :
          link' = [link EXCEPT ![j] = l] /\ (l # "paid" => link[j] = "created")
    BY <2>1
  <2>3. link[j] # "none" /\ link[j] \notin Unpaid
    BY <2>1 DEF Live, Unpaid
  <2>4. Exists(j) /\ Newest(j) /\ SameRows
    BY <1>1, <2>1, <2>3, LinkedRow DEF SameRows, Exists
  <2>5. l \in LinkStates
    BY DEF LinkStates
  <2> QED
    BY <1>1, <2>1, <2>2, <2>4, <2>5, OfferStep DEF PromiseStep
<1>4. ASSUME NEW j \in Jobs, Land(j) PROVE FALSE
  BY <1>4 DEF Land, AttemptsInTurn
<1>5. ASSUME NEW o \in Orders, PayElsewhere(o) PROVE PromiseStep
  BY <1>2, <1>5 DEF PayElsewhere, Capture, db
<1>6. ASSUME NEW w \in Workers, SettlementCrash(w) PROVE PromiseStep
  BY <1>2, <1>6 DEF SettlementCrash, db, razorpay
<1> QED
  BY <1>3, <1>4, <1>5, <1>6 DEF World

LEMMA PromiseInit == SInit => Promise!PInit
<1> SUFFICES ASSUME SInit PROVE Promise!PInit
  OBVIOUS
<1>1. ASSUME NEW p \in Payments PROVE LastSeq(p) = 0
  <2>1. SeqsOf(p) = {}
    BY JobOfPayment DEF SInit, Init, SeqsOf, Exists, NoRow
  <2> QED
    BY <2>1 DEF LastSeq
<1>2. \A p \in Payments : OfferOf(p) = "none" /\ ResultOf(p) = "unknown"
  BY <1>1 DEF OfferOf, ResultOf
<1> QED
  BY <1>1, <1>2 DEF Promise!PInit

LEMMA PromiseStepHolds ==
  ASSUME Serial, ~LateLanding, STypeInv, AttemptsInTurn, [SNext]_svars
  PROVE  [Promise!PNext]_(Promise!pvars)
<1>1. CASE UNCHANGED svars
  <2>1. UNCHANGED <<job, link, outcome>> /\ SameRows
    BY <1>1 DEF svars, vars, SameRows, Exists
  <2> QED
    BY <2>1, NothingSeen
<1>2. ASSUME NEW w \in Workers, Receive(w) PROVE PromiseStep
  <2>1. UNCHANGED <<link, outcome>> /\ SameRows
    BY <1>2, ReceiveInTurn DEF Receive, ReceivePaid, ReceiveExpired, PollLink, ReceiveCaptured, vars
  <2> QED
    BY <2>1, NothingSeen DEF PromiseStep
<1> QED
  BY <1>1, <1>2, ExecutionView, SettleView, WorldView DEF SNext, PromiseStep

(* The executor, the webhooks, the poll and the crashes between any two of   *)
(* their commits keep the promise: one attempt after another, one offer at a *)
(* time, no more than max_attempts, and money counted only where it was paid *)
(* (README.md, "A sent link is never re-issued while it is open").           *)
THEOREM PromiseIsImplemented ==
  ASSUME Serial, ~LateLanding
  PROVE  SSpec => ImplementsPromise
<1>1. STypeInv /\ AttemptsInTurn /\ [SNext]_svars => [Promise!PNext]_(Promise!pvars)
  BY PromiseStepHolds
<1> QED
  BY <1>1, PromiseInit, STypeCorrect, AttemptsFollow, PTL DEF SSpec, ImplementsPromise, Promise!PSpec
=============================================================================
