----------------------------- MODULE Refinement -----------------------------
(***************************************************************************)
(* The Executor and the Settlement implement RecoveryPromise: the latest   *)
(* row of a payment is its attempt, the link Razorpay holds under that     *)
(* row's key its offer, the row's outcome its result.                      *)
(***************************************************************************)
EXTENDS Settlement

Latest(p) == <<p, LastSeq(p)>>

OfferState ==
  [state \in LinkStates |->
     CASE state = "none" -> "none"
       [] state = "created" -> "open"
       [] state = "partial" -> "part"
       [] state = "paid" -> "paid"
       [] state \in {"expired", "cancelled"} -> "ended"]

OfferOf(p) == IF LastSeq(p) = 0 THEN "none" ELSE OfferState[link[Latest(p)]]
ResultOf(p) ==
  IF LastSeq(p) = 0 \/ outcome[Latest(p)] = <<>> THEN "unknown" ELSE Head(outcome[Latest(p)])

Promise == INSTANCE RecoveryPromise WITH
  tries <- [p \in Payments |-> LastSeq(p)],
  offer <- [p \in Payments |-> OfferOf(p)],
  result <- [p \in Payments |-> ResultOf(p)]

\* README.md, "A sent link is never re-issued while it is open" and the stop
\* rule: with requests that complete before their answer is lost, every step of
\* the handlers, the sweep, the poll and a crash is a step of the promise.
ImplementsPromise == Promise!PSpec

-----------------------------------------------------------------------------
(* Why it does: the inductive invariant of the refinement and of the        *)
(* invariants on links and outcomes, under the lock of serve (one process)  *)
(* and with requests that do not complete late.  Each attempt of a payment  *)
(* is over before the next row is inserted, and a position of a process     *)
(* still has true what it read on the way there.                            *)

Due(j) == job[j].status \in DueStatuses
Newest(j) == \A s \in SeqsOf(j[1]) : s <= j[2]
Unpaid == {"none", "expired", "cancelled"}
Collecting == {"paid", "partial"}

(* A row and what Razorpay and the outcomes say of it.                      *)
RowInTurn(j) ==
  /\ Exists(j) \/ (link[j] = "none" /\ outcome[j] = <<>>)
  /\ Exists(j) => j[2] <= MaxAttempts + 1 /\ Exists(<<j[1], 1>>)
  /\ job[j].link => link[j] # "none"
  /\ Due(j) \/ link[j] # "none" => j[2] <= MaxAttempts
  /\ job[j].status = "pending" => link[j] = "none"
  /\ Due(j) /\ link[j] = "none" => outcome[j] = <<>> /\ Newest(j)
  /\ Exists(j) /\ ~Newest(j) => link[j] \in Unpaid /\ (link[j] # "none" => HasOutcome(j))
  /\ outcome[j] \in {<<>>, <<"lost">>, <<"recovered">>}
  /\ outcome[j] = <<"recovered">> => link[j] \in Collecting

RowsInTurn == \A j \in Jobs : RowInTurn(j)

(* The next attempt may follow: the newest one has no link and never will,  *)
(* or its link expired and is closed.                                       *)
MayFollow(j) ==
  /\ Exists(j) /\ Newest(j) /\ j[2] <= MaxAttempts
  /\ \/ link[j] = "none" /\ ~Due(j)
     \/ link[j] = "expired" /\ HasOutcome(j)

(* A process in execute_job, finish_job or schedule_followup. *)
WorkerInTurn(r) ==
  LET j == r.job IN
  /\ r.pc = "insert" => j[2] = 1 \/ MayFollow(<<j[1], j[2] - 1>>)
  /\ r.pc = "followup" => MayFollow(j)
  /\ r.pc \in {"park", "voided", "close"} => Exists(j) /\ ~Due(j) /\ outcome[j] = <<>>
  /\ r.pc \in {"recover", "recovered"} => job[j].status = "executing"
  /\ r.pc = "recovered" => /\ r.status = "executing"
                           /\ r.answer = "found" => link[j] # "none"
                           /\ r.answer = "absent" => link[j] = "none"
  /\ r.pc \in {"execute", "stub", "refuse", "claim"} => job[j].status = "pending"
  /\ r.pc = "void" => Due(j) /\ link[j] = "none"
  /\ r.pc \in {"shadow", "direct", "check", "earlier", "superseded"} => job[j].status = "executing" /\ link[j] = "none"
  /\ r.pc \in {"create", "duplicate", "record"} => job[j].status = "executing" /\ Newest(j) /\ outcome[j] = <<>>
  /\ r.pc = "create" => r.kind \in AmbiguousKinds \/ (r.kind = "none" /\ link[j] = "none")
  /\ r.pc = "duplicate" => link[j] # "none"
  /\ r.pc = "record" => (r.status = "sent" /\ link[j] # "none") \/ r.status = "failed"
  /\ r.pc = "finish" => Exists(j) /\ ~Due(j)
  /\ r.pc = "finish" /\ r.status = "failed" => Newest(j) /\ j[2] <= MaxAttempts
  /\ r.pc \in {"record", "finish"} /\ r.status = "failed" /\ r.kind \notin AmbiguousKinds => link[j] = "none"

(* A handler between what it read and what it writes. *)
OrderHandling == {"attempt", "cancelled", "parked", "closed"}
HandlerInTurn(h) ==
  LET j == h.job IN
  /\ h.pc \in {"paid", "recovered"} => link[j] \in Collecting
  /\ h.pc = "expired" => link[j] = "expired" /\ h.seen = "expired"
  /\ h.pc \in {"recovered", "fetch", "polled", "cancelled", "parked", "closed"} => Exists(j) /\ outcome[j] = <<>>
  /\ h.pc \in {"fetch", "polled"} => link[j] # "none"
  /\ h.pc = "polled" /\ h.seen = "expired" => link[j] = "expired"
  /\ h.pc = "polled" /\ Recovering(h.seen) => link[j] \in Collecting
  /\ h.pc = "lapsed" => link[j] = "expired" /\ HasOutcome(j) /\ Newest(j)
  /\ h.pc = "closed" => ~Due(j)
  /\ h.pc \in {"cancelled", "parked", "closed"} => j \notin h.pending \cup h.live
  /\ h.pc \notin OrderHandling => h.pending = {} /\ h.live = {}
  /\ \A i \in h.pending : job[i].status = "pending"
  /\ \A i \in h.live : Exists(i) /\ outcome[i] = <<>> /\ link[i] # "none"

\* What one process under the lock relies on between two commits: no attempt
\* is begun, created for, closed or counted while an earlier one of the same
\* payment can still be paid, and nothing read is stale when it is used.
AttemptsInTurn ==
  /\ inflight = {}
  /\ RowsInTurn
  /\ \A w \in Workers : WorkerInTurn(wk[w]) /\ HandlerInTurn(hd[w])
=============================================================================
