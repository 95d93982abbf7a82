------------------------------- MODULE Reports -------------------------------
(***************************************************************************)
(* What the reports read in the tables: the report of app/insights.py, the  *)
(* person's queue of app/priority.py and the digest of app/ops.py, as       *)
(* operators on the state of Settlement.  They change nothing; a report is  *)
(* one read of the database, which no commit interrupts.                    *)
(*                                                                         *)
(* The delay a link was sent with is named by its retry_seq.  A digest      *)
(* looks back over everything; the window it is given is left out.          *)
(***************************************************************************)
EXTENDS Settlement

-----------------------------------------------------------------------------
(* insights.compute: each payment by its latest job. *)

LatestJob(p) == <<p, LastSeq(p)>>
LatestIs(p, status) == LastSeq(p) > 0 /\ job[LatestJob(p)].status = status

WithStatus(status) == {p \in attempts : LatestIs(p, status)}

RecoveredOf(j) == {i \in DOMAIN outcome[j] : outcome[j][i] = "recovered"}

\* A payment is recovered by the first such outcome of any of its jobs.
Recovered == {p \in attempts : \E s \in SeqsOf(p) : RecoveredOf(<<p, s>>) # {}}

\* The rate of a delay: of the payments whose latest link was sent with it,
\* those that recovered, which is what a change of delay is proposed from.
RateN(seq) == {p \in WithStatus("sent") : LastSeq(p) = seq}
RateK(seq) == RateN(seq) \cap Recovered

-----------------------------------------------------------------------------
(* priority.human_queue and ops.compute_digest. *)

\* Whatever the payment's outcomes say.
HumanQueue == WithStatus("human_queue")

\* The digest counts outcomes where the insights count payments.
DigestRecovered == Cardinality(UNION {{<<j, i>> : i \in RecoveredOf(j)} : j \in Jobs})

-----------------------------------------------------------------------------
(* Properties. *)

(* What `insights` and `digest` say of the same money is the same and true:  *)
(* the recovered outcomes are as many as the recovered payments, so none is   *)
(* recovered twice, by one link or by two; and a recovery is evidence for the *)
(* delay of the link that collected it, never of a follow-up sent since.      *)
ReportsAgree ==
  /\ DigestRecovered = Cardinality(Recovered)
  /\ \A s \in 1..MaxSeq : \A p \in RateK(s) : link[<<p, s>>] \in {"paid", "partial"}

(* A payment the agent knows of is never where nobody looks: once the worker *)
(* is done its latest job is still to be swept, or a sent link the poll asks  *)
(* about, or in the person's queue, or closed by an outcome.                  *)
NothingIsForgotten ==
  (AllFree /\ "shadow" \notin Modes) => \A p \in attempts :
    \/ p \in WithStatus("pending") \cup HumanQueue
    \/ LastSeq(p) > 0 /\ (LatestJob(p) \in OpenLinks \/ HasOutcome(LatestJob(p)))
=============================================================================
