--------------------------- MODULE Operator_proofs ---------------------------
(***************************************************************************)
(* Theorems of Operator: what a person's actions, split at their commits    *)
(* and run beside serve without its lock, leave true of a link.            *)
(***************************************************************************)
EXTENDS Operator, Cadence_proofs

-----------------------------------------------------------------------------
(* Type correctness. *)

AllPositions == Positions \cup OperatorPositions
AllKinds == OutcomeKinds \cup {"forced"}
OperatorPcs == {"resolve", "cancel", "cancelled", "closing", "resend"}

ServePcs == LinkPcs \cup {"void"}

OTyped ==
  /\ Typed(AllPositions, AllKinds)
  /\ resent \in [Payments -> 0..MaxResends]
  /\ orphaned \subseteq Payments
  /\ \A w \in Workers : wk[w].pc \in OperatorPcs => w \in Operators
  /\ \A w \in Workers : wk[w].pc \in ServePcs => w \notin Operators
  /\ \A w \in Workers : wk[w].pc = "resend" => resent[wk[w].link] < MaxResends

(* The web view's thread, or one command at a time: one person. *)
OnePerson == \A v, w \in Operators : v = w

(* serve's receiver and sweep share a lock: one of them at a time. *)
OneServe == \A v, w \in Workers \ Operators : v = w

LEMMA AllPositionsWide == Wide(AllPositions)
<1>1. \A x \in OperatorPositions : x.pc \notin CadencePcs
  BY DEF OperatorPositions, CadencePcs, LinkPcs, StopPcs
<1> QED
  BY <1>1 DEF Wide, AllPositions

LEMMA OperatorAt ==
  ASSUME NEW x \in AllPositions
  PROVE  /\ x.pc \in CadencePcs \/ x.pc \in OperatorPcs
         /\ x.pc \in OperatorPcs => x.link \in Payments /\ x \in OperatorPositions
         /\ x.pc = "resolve" => x.kind \in {"recovered", "resolved"}
<1>1. CASE x \in OperatorPositions
  BY <1>1 DEF OperatorPositions, OperatorPcs
<1>2. CASE x \in Positions
  <2>1. x.pc \in CadencePcs
    BY <1>2 DEF Positions, CadencePcs, LinkPcs, StopPcs, Idle
  <2> QED
    BY <2>1 DEF CadencePcs, LinkPcs, StopPcs, OperatorPcs
<1> QED
  BY <1>1, <1>2 DEF AllPositions

LEMMA LinkInHand ==
  ASSUME OTyped, NEW w \in Workers, wk[w].pc \in OperatorPcs
  PROVE  /\ wk[w].link \in Payments
         /\ w \in Operators
         /\ wk[w].pc = "resolve" => wk[w].kind \in {"recovered", "resolved"}
BY OperatorAt DEF OTyped, Typed

(* The steps of serve leave the person's position alone, and take none; a    *)
(* person takes none of those that only serve has.                          *)
ServeMoves(w) ==
  \A v \in Workers :
    wk'[v] = wk[v] \/ (v = w /\ wk'[v].pc \in CadencePcs /\ (wk'[v].pc \in ServePcs => w \notin Operators))

LEMMA GotoServes ==
  ASSUME NEW P, NEW K, Typed(P, K), NEW w \in Workers, NEW x, Goto(w, x), x.pc \in CadencePcs,
         x.pc \in ServePcs => w \notin Operators
  PROVE  ServeMoves(w)
BY DEF Goto, ServeMoves, Typed

LEMMA DoneServes ==
  ASSUME NEW P, NEW K, Typed(P, K), NEW w \in Workers, Done(w)
  PROVE  ServeMoves(w)
BY GotoServes DEF Done, Idle, CadencePcs, ServePcs, LinkPcs, StopPcs

LEMMA SameServes == ASSUME NEW w, UNCHANGED wk PROVE ServeMoves(w)
BY DEF ServeMoves

AsidePcs == {"idle", "remind", "judged", "fetch", "notify"}

AsideMoves(w) == \A v \in Workers : wk'[v] = wk[v] \/ (v = w /\ wk'[v].pc \in AsidePcs)

LEMMA ReminderAside ==
  ASSUME OTyped, NEW w \in Workers, ReminderStep(w), ~VoidReminders(w)
  PROVE  AsideMoves(w)
<1> DEFINE P == AllPositions
           K == AllKinds
<1>0. Typed(P, K) /\ Wide(P)
  BY AllPositionsWide DEF OTyped
<1> HIDE DEF P, K
<1>1. ASSUME NEW x, Goto(w, x), x.pc \in AsidePcs PROVE AsideMoves(w)
  BY <1>0, <1>1 DEF Goto, AsideMoves, Typed
<1>2. CASE Done(w)
  BY <1>1, <1>2 DEF Done, Idle, AsidePcs
<1>3. CASE ScheduleReminder(w)
  <2>1. [wk[w] EXCEPT !.n = wk[w].n + 1].pc = "remind"
    BY <1>0, <1>3, PositionAt DEF ScheduleReminder, At, Typed, RemindPos
  <2> QED
    BY <1>1, <1>2, <1>3, <2>1 DEF ScheduleReminder, AsidePcs
<1>4. CASE ClaimReminder(w)
  BY <1>1, <1>2, <1>4 DEF ClaimReminder, AsidePcs
<1>5. CASE FetchLink(w)
  <2>1. wk[w] \in CallPos
    BY <1>0, <1>5, PositionAt DEF FetchLink, At, Typed
  <2>2. [wk[w] EXCEPT !.pc = "notify"].pc = "notify" /\ [wk[w] EXCEPT !.pc = "notify", !.blind = TRUE].pc = "notify"
    BY <2>1 DEF CallPos
  <2> QED
    BY <1>1, <1>2, <1>5, <2>2 DEF FetchLink, AsidePcs
<1>6. CASE NotifyLink(w)
  <2> DEFINE k == NextMedium(w)
             y == wk[w]
             asked == [y EXCEPT !.left = y.left \ {k}]
  <2>1. y \in CallPos
    BY <1>0, <1>6, PositionAt DEF NotifyLink, At, Typed
  <2>2. asked \in CallPos /\ asked.pc = "notify"
    BY <1>6, <2>1 DEF CallPos, NotifyLink, At
  <2>3. Goto(w, asked) \/ Goto(w, [asked EXCEPT !.got = TRUE])
    BY <1>6 DEF NotifyLink, NextMedium
  <2>4. LET x == [asked EXCEPT !.got = TRUE] IN x.pc = "notify"
    BY <2>2 DEF CallPos
  <2> HIDE DEF asked
  <2> QED
    BY <1>1, <2>2, <2>3, <2>4 DEF AsidePcs
<1>8. ASSUME NEW r \in Reminders, BeginReminder(w, r) PROVE AsideMoves(w)
  BY <1>1, <1>8 DEF BeginReminder, AsidePcs
<1>9. ASSUME NEW r \in Reminders, RecoverReminder(w, r) PROVE AsideMoves(w)
  BY <1>9 DEF RecoverReminder, AsideMoves
<1> QED
  BY <1>2, <1>3, <1>4, <1>5, <1>6, <1>8, <1>9 DEF ReminderStep, SettleReminder, FinishReminder

LEMMA ReminderServes ==
  ASSUME OTyped, NEW w \in Workers, ReminderStep(w)
  PROVE  ServeMoves(w)
<1>0. Typed(AllPositions, AllKinds)
  BY DEF OTyped
<1>1. CASE VoidReminders(w)
  <2>1. w \notin Operators
    BY <1>1 DEF VoidReminders, At, OTyped, ServePcs
  <2>2. PICK pc \in {"withdraw", "stop", "none"} : pc = NextStop(wk[w].link)
    BY DEF NextStop
  <2>3. Done(w) \/ (pc # "none" /\ Goto(w, [pc |-> pc, link |-> wk[w].link]))
    BY <1>1, <2>2 DEF VoidReminders
  <2>4. ASSUME NEW x, Goto(w, x), x.pc \in {"withdraw", "stop"} PROVE ServeMoves(w)
    BY <1>0, <2>1, <2>4, GotoServes DEF CadencePcs, LinkPcs, StopPcs
  <2> QED
    BY <1>0, <2>3, <2>4, DoneServes
<1>2. CASE ~VoidReminders(w)
  BY <1>2, ReminderAside DEF AsideMoves, AsidePcs, ServeMoves, CadencePcs, ServePcs, LinkPcs, StopPcs
<1> QED
  BY <1>1, <1>2

(* The steps of serve on a link. *)
ServeStep(w) ==
  LinkWork(w) \/ \E p \in Payments : SweepLink(w, p) \/ ScheduleLink(w, p)

LEMMA ServeStepServes ==
  ASSUME OTyped, NEW w \in Workers \ Operators, ServeStep(w)
  PROVE  ServeMoves(w)
<1> DEFINE P == AllPositions
           K == AllKinds
<1>0. Typed(P, K) /\ Wide(P)
  BY AllPositionsWide DEF OTyped
<1> HIDE DEF P, K
<1>1. ASSUME NEW x, Goto(w, x), x.pc \in CadencePcs PROVE ServeMoves(w)
  BY <1>0, <1>1, GotoServes
<1>2. CASE LinkWork(w)
  <2>1. PICK p \in Payments : LinkWorkOf(w, p)
    BY <1>0, <1>2, LinkWorkIs
  <2>2. PICK x \in Positions : Goto(w, x) /\ x.pc \in LinkPcs \cup {"void", "idle"}
    BY <2>1 DEF LinkWorkOf
  <2> QED
    BY <1>1, <2>2 DEF CadencePcs
<1>3. ASSUME NEW p \in Payments, SweepLink(w, p) PROVE ServeMoves(w)
  BY <1>1, <1>3, SameServes DEF SweepLink, ExecuteLink, CadencePcs
<1>4. ASSUME NEW p \in Payments, ScheduleLink(w, p) PROVE ServeMoves(w)
  BY <1>4, SameServes DEF ScheduleLink
<1> QED
  BY <1>2, <1>3, <1>4 DEF ServeStep

LEMMA MovesTyped ==
  ASSUME OTyped, Typed(AllPositions, AllKinds)', NEW w, ServeMoves(w), UNCHANGED observed
  PROVE  OTyped'
<1>1. \A v \in Workers : wk'[v].pc \in OperatorPcs => wk'[v] = wk[v]
  BY DEF ServeMoves, OperatorPcs, CadencePcs, LinkPcs, StopPcs
<1>2. \A v \in Workers : wk'[v].pc \in ServePcs => wk'[v] = wk[v] \/ (v = w /\ w \notin Operators)
  BY DEF ServeMoves
<1> QED
  BY <1>1, <1>2 DEF OTyped, OperatorPcs, observed

LEMMA ReminderTyped ==
  ASSUME OTyped, NEW w \in Workers, ReminderStep(w), UNCHANGED observed
  PROVE  OTyped'
<1>1. Typed(AllPositions, AllKinds) /\ Wide(AllPositions)
  BY AllPositionsWide DEF OTyped
<1>2. Typed(AllPositions, AllKinds)'
  BY <1>1, ScheduleReminderType, SettleReminderType, ClaimReminderType, FetchLinkType, NotifyLinkType,
     FinishReminderType, VoidRemindersType, BeginReminderType, RecoverReminderType DEF ReminderStep
<1> QED
  BY <1>2, ReminderServes, MovesTyped

LEMMA ServeTyped ==
  ASSUME OTyped, MonthsGoOn, NEW w \in Workers \ Operators, ServeStep(w), UNCHANGED observed
  PROVE  OTyped'
<1>1. Typed(AllPositions, AllKinds) /\ Wide(AllPositions) /\ OutcomeKinds \subseteq AllKinds
  BY AllPositionsWide DEF OTyped, AllKinds
<1>2. Typed(AllPositions, AllKinds)'
  BY <1>1, LinkWorkType, SweepLinkType, ScheduleLinkType DEF ServeStep
<1> QED
  BY <1>2, ServeStepServes, MovesTyped

(* A person moves to a position of a person, or is done. *)
LEMMA PersonMoves ==
  ASSUME OTyped, OnePerson, NEW w \in Operators, NEW x \in AllPositions, Goto(w, x),
         Typed(AllPositions, AllKinds)', resent' \in [Payments -> 0..MaxResends], UNCHANGED orphaned,
         x.pc \in OperatorPcs \cup {"idle", "judged"}, x.pc = "resend" => resent'[x.link] < MaxResends
  PROVE  OTyped'
<1>1. w \in Workers
  BY OperatorAssumption
<1>2. wk'[w] = x /\ \A v \in Workers \ {w} : wk'[v] = wk[v]
  BY <1>1 DEF Goto, OTyped, Typed
<1>3. \A v \in Workers : wk'[v].pc \in OperatorPcs => v \in Operators
  BY <1>2 DEF OTyped
<1>4. \A v \in Workers : wk'[v].pc = "resend" => v = w
  BY <1>3 DEF OnePerson, OperatorPcs
<1>5. \A v \in Workers : wk'[v].pc = "resend" => resent'[wk'[v].link] < MaxResends
  BY <1>2, <1>4
<1>6. x.pc \notin ServePcs
  BY DEF OperatorPcs, ServePcs, LinkPcs, StopPcs
<1>7. \A v \in Workers : wk'[v].pc \in ServePcs => v \notin Operators
  BY <1>2, <1>6 DEF OTyped
<1> QED
  BY <1>3, <1>5, <1>7 DEF OTyped

LEMMA PersonTyped ==
  ASSUME OTyped, OnePerson, NEW w \in Operators, Operate(w)
  PROVE  OTyped'
<1> DEFINE K == AllKinds
<1>1. Typed(AllPositions, K) /\ Wide(AllPositions) /\ OutcomeKinds \subseteq K /\ w \in Workers
  BY AllPositionsWide, OperatorAssumption DEF OTyped, AllKinds
<1>2. OperatorPositions \subseteq AllPositions /\ Idle \in AllPositions /\ Idle.pc = "idle"
  BY PositionsAre DEF AllPositions, Idle
<1>3. ASSUME NEW x \in AllPositions, Goto(w, x), UNCHANGED <<clock, setting, rows, told, recovered, crashes>>,
             rz' \in [Payments -> {"none", "open", "paid", "cancelled"}]
      PROVE  Typed(AllPositions, K)'
  BY <1>1, <1>3, MoveTyped DEF rows, Typed
<1>4. ASSUME NEW x \in AllPositions, Goto(w, x), UNCHANGED <<resent, orphaned>>, Typed(AllPositions, K)',
             x.pc \in {"idle", "judged", "resolve", "cancel", "cancelled", "closing"}
      PROVE  OTyped'
  BY <1>4, PersonMoves DEF OTyped, OperatorPcs
<1>5. ASSUME Done(w), UNCHANGED <<resent, orphaned>>, Typed(AllPositions, K)' PROVE OTyped'
  BY <1>2, <1>4, <1>5 DEF Done
<1>6. ASSUME UNCHANGED <<wk, resent, orphaned>>, Typed(AllPositions, K)' PROVE OTyped'
  BY <1>6 DEF OTyped
<1>7. ASSUME NEW p \in Payments, NEW force \in Forced, CommandResolve(w, p, force) PROVE OTyped'
  <2>1. PICK kind \in K : RecordOutcome(p, kind)
    BY <1>7 DEF CommandResolve, AllKinds, OutcomeKinds
  <2>2. Typed(AllPositions, K)'
    BY <1>1, <1>7, <2>1, OutcomeTyped DEF CommandResolve, Typed
  <2> QED
    BY <1>6, <1>7, <2>2 DEF CommandResolve
<1>8. ASSUME NEW p \in Payments, Resolve(w, p) PROVE OTyped'
  <2>1. PICK kind \in {"recovered", "resolved"} : Goto(w, [pc |-> "resolve", link |-> p, kind |-> kind])
    BY <1>8 DEF Resolve
  <2>2. [pc |-> "resolve", link |-> p, kind |-> kind] \in AllPositions
    BY <1>2 DEF OperatorPositions
  <2>3. rz' \in [Payments -> {"none", "open", "paid", "cancelled"}]
    BY <1>1, <1>8 DEF Resolve, Typed
  <2> QED
    BY <1>3, <1>4, <1>8, <2>1, <2>2, <2>3 DEF Resolve
<1>9. ASSUME NEW p \in Payments, BeginCancel(w, p) PROVE OTyped'
  <2>1. [pc |-> "cancel", link |-> p] \in AllPositions
    BY <1>2 DEF OperatorPositions
  <2>2. rz' \in [Payments -> {"none", "open", "paid", "cancelled"}]
    BY <1>1, <1>9 DEF BeginCancel, Typed
  <2> QED
    BY <1>3, <1>4, <1>9, <2>1, <2>2 DEF BeginCancel
<1>10. ASSUME NEW p \in Payments, BeginResend(w, p) PROVE OTyped'
  <2> DEFINE x == [pc |-> "resend", link |-> p]
  <2>1. x \in AllPositions
    BY <1>2 DEF OperatorPositions
  <2>2. rz' \in [Payments -> {"none", "open", "paid", "cancelled"}]
    BY <1>1, <1>10 DEF BeginResend, Typed
  <2>3. Goto(w, x) /\ UNCHANGED <<resent, orphaned>> /\ resent[p] < MaxResends
    BY <1>10 DEF BeginResend
  <2>4. Typed(AllPositions, K)'
    BY <1>3, <1>10, <2>1, <2>2 DEF BeginResend
  <2>5. resent' \in [Payments -> 0..MaxResends] /\ (x.pc = "resend" => resent'[x.link] < MaxResends)
        /\ x.pc \in OperatorPcs
    BY <2>3 DEF OTyped, OperatorPcs
  <2> QED
    BY <2>1, <2>3, <2>4, <2>5, PersonMoves
<1>11. CASE RecordResolve(w)
  <2>1. wk[w].link \in Payments /\ wk[w].kind \in K
    BY <1>1, <1>11, LinkInHand DEF RecordResolve, At, OperatorPcs, AllKinds, OutcomeKinds
  <2>2. Typed(AllPositions, K)'
    BY <1>1, <1>11, <2>1, OutcomeTyped, DoneTyped DEF RecordResolve, Typed
  <2> QED
    BY <1>5, <1>11, <2>2 DEF RecordResolve
<1>12. CASE CallCancel(w)
  <2>1. wk[w] \in OperatorPositions /\ wk[w].pc = "cancel"
    BY <1>1, <1>12, OperatorAt DEF CallCancel, At, OperatorPcs, Typed
  <2>2. rz' \in [Payments -> {"none", "open", "paid", "cancelled"}]
    <3>1. CASE UNCHANGED rz
      BY <1>1, <3>1 DEF Typed
    <3>2. CASE rz' = [rz EXCEPT ![wk[w].link] = IF @ = "open" THEN "cancelled" ELSE @]
      BY <1>1, <3>2 DEF Typed
    <3> QED
      BY <1>12, <3>1, <3>2 DEF CallCancel
  <2>3. CASE Done(w)
    BY <1>2, <1>3, <1>5, <1>12, <2>2, <2>3 DEF CallCancel, Done
  <2>4. CASE Goto(w, [wk[w] EXCEPT !.pc = "cancelled"])
    <3>1. [wk[w] EXCEPT !.pc = "cancelled"] \in OperatorPositions /\ [wk[w] EXCEPT !.pc = "cancelled"].pc = "cancelled"
      BY <2>1 DEF OperatorPositions
    <3> QED
      BY <1>2, <1>3, <1>4, <1>12, <2>2, <2>4, <3>1 DEF CallCancel
  <2> QED
    BY <1>12, <2>3, <2>4 DEF CallCancel
<1>13. CASE RecordCancelled(w)
  <2>1. wk[w] \in OperatorPositions /\ wk[w].pc = "cancelled" /\ wk[w].link \in Payments
    BY <1>1, <1>13, OperatorAt DEF RecordCancelled, At, OperatorPcs, Typed
  <2>2. [wk[w] EXCEPT !.pc = "closing"] \in OperatorPositions /\ [wk[w] EXCEPT !.pc = "closing"].pc = "closing"
    BY <2>1 DEF OperatorPositions
  <2>3. status' \in [Rows -> RowStatuses]
    BY <1>1, <1>13, <2>1, LinkIsRow, RowTyped DEF RecordCancelled, RowStatuses
  <2>4. Typed(AllPositions, K)'
    BY <1>1, <1>2, <1>13, <2>2, <2>3, MoveTyped DEF RecordCancelled, Typed
  <2> QED
    BY <1>2, <1>4, <1>13, <2>2, <2>4 DEF RecordCancelled
<1>14. CASE CloseCancelled(w)
  <2>1. wk[w].link \in Payments /\ "resolved" \in K
    BY <1>1, <1>14, LinkInHand DEF CloseCancelled, At, OperatorPcs, AllKinds, OutcomeKinds
  <2>2. Typed(AllPositions, K)'
    BY <1>1, <1>14, <2>1, OutcomeTyped, DoneTyped DEF CloseCancelled, Typed
  <2> QED
    BY <1>5, <1>14, <2>2 DEF CloseCancelled
<1>15. CASE CallResend(w)
  <2>1. wk[w].link \in Payments /\ resent[wk[w].link] < MaxResends
    BY <1>1, <1>15, LinkInHand DEF CallResend, At, OperatorPcs, OTyped
  <2>2. resent' \in [Payments -> 0..MaxResends]
    <3>1. MaxResends \in Nat /\ resent \in [Payments -> 0..MaxResends]
      BY OperatorAssumption DEF OTyped
    <3>2. resent[wk[w].link] + 1 \in 0..MaxResends
      BY <2>1, <3>1
    <3> QED
      BY <1>15, <3>1, <3>2 DEF CallResend
  <2>3. Goto(w, Idle)
    BY <1>15 DEF CallResend, Done
  <2>4. rz' \in [Payments -> {"none", "open", "paid", "cancelled"}]
    BY <1>1, <1>15 DEF CallResend, Typed
  <2>5. Typed(AllPositions, K)'
    BY <1>2, <1>3, <1>15, <2>3, <2>4 DEF CallResend
  <2> QED
    BY <1>2, <1>15, <2>2, <2>3, <2>5, PersonMoves DEF CallResend
<1>16. ASSUME UNCHANGED <<resent, orphaned>>, NEW p \in Payments, RetryLink(w, p) PROVE OTyped'
  <2>1. Typed(AllPositions, K)'
    BY <1>1, <1>2, <1>16, ExecuteLinkType DEF RetryLink
  <2> QED
    BY <1>2, <1>4, <1>6, <1>16, <2>1 DEF RetryLink, ExecuteLink
<1>17. ASSUME UNCHANGED <<resent, orphaned>>, NEW r \in Reminders, RetryReminder(w, r) PROVE OTyped'
  <2>1. Typed(AllPositions, K)'
    BY <1>1, <1>17, BeginReminderType DEF RetryReminder
  <2>2. PICK x : Goto(w, x) /\ x.pc = "judged"
    BY <1>17 DEF RetryReminder, BeginReminder
  <2>3. x \in AllPositions
    BY <1>1, <2>1, <2>2 DEF Goto, Typed
  <2> QED
    BY <1>4, <1>17, <2>1, <2>2, <2>3
<1> QED
  BY <1>7, <1>8, <1>9, <1>10, <1>11, <1>12, <1>13, <1>14, <1>15, <1>16, <1>17 DEF Operate, observed

-----------------------------------------------------------------------------
(* The link and its outcomes. *)

One(p, kind) == \A i, j \in Booked(p, {kind}) : i = j

(* A link parked by the stop of its order, before that outcome is written.   *)
Closing(p) == \E w \in Workers : Parks(w, p)

Parked(p) == status[Link(p)] = "human_queue"

LinkInv(p) ==
  /\ rz[p] # "none" => LinkOut(p)
  /\ status[Link(p)] = "cancelled" => rz[p] = "cancelled"
  /\ One(p, "paid")
  /\ One(p, "recovered")
  /\ p \notin orphaned /\ "recovered" \in OutcomesOf(p) => Parked(p) /\ "paid" \notin OutcomesOf(p)
  /\ p \notin orphaned /\ Parked(p) => Ended(p) \/ Closing(p)

(* What a worker in the middle of an action, or of the end of a link, knows. *)
Known(x) ==
  /\ x.pc \in {"cancelled", "closing", "stopped"} => rz[x.link] = "cancelled"
  /\ x.pc \in {"cancel", "cancelled"} => x.link \in orphaned \/ "recovered" \notin OutcomesOf(x.link)
  /\ x.pc = "resolve" =>
       /\ "recovered" \notin OutcomesOf(x.link)
       /\ x.link \in orphaned \/ (Parked(x.link) /\ "paid" \notin OutcomesOf(x.link))
  /\ x.pc \in {"end", "withdraw", "stop", "stopped", "parked"} => x.link \in orphaned \/ ~Parked(x.link)
  /\ x.pc = "end" => "paid" \notin OutcomesOf(x.link) /\ x.kind \in {"paid", "ended"}
  /\ x.pc = "close" => x.kind \in {"stopped", "cancelled", "parked"}

OInv ==
  /\ OTyped
  /\ \A p \in Payments : LinkInv(p)
  /\ \A w \in Workers : Known(wk[w])

LEMMA Appended ==
  ASSUME NEW P, NEW K, Typed(P, K), NEW p \in Payments, NEW kind \in K, RecordOutcome(p, kind)
  PROVE  /\ OutcomesOf(p)' = OutcomesOf(p) \cup {kind}
         /\ \A q \in Payments \ {p} : outcome'[q] = outcome[q]
         /\ Ended(p)'
         /\ \A k : k # kind /\ One(p, k) => One(p, k)'
         /\ \A k : k \notin OutcomesOf(p) => One(p, k)'
<1> DEFINE s == outcome[p]
           n == Len(s)
<1>1. outcome \in [Payments -> Seq(K)] /\ s \in Seq(K) /\ n \in Nat
  BY DEF Typed
<1>2. outcome'[p] = Append(s, kind) /\ \A q \in Payments \ {p} : outcome'[q] = outcome[q]
  BY <1>1 DEF RecordOutcome
<1> HIDE DEF s, n
<1>3. /\ DOMAIN Append(s, kind) = 1..(n + 1) /\ DOMAIN s = 1..n
      /\ \A i \in 1..n : Append(s, kind)[i] = s[i]
      /\ Append(s, kind)[n + 1] = kind
      /\ Len(Append(s, kind)) = n + 1
  BY <1>1 DEF n
<1>4. DOMAIN Append(s, kind) = DOMAIN s \cup {n + 1} /\ n + 1 \notin DOMAIN s
  BY <1>1, <1>3
<1>5. OutcomesOf(p)' = OutcomesOf(p) \cup {kind}
  <2>1. OutcomesOf(p) = {s[i] : i \in DOMAIN s}
    BY DEF OutcomesOf, s
  <2>2. OutcomesOf(p)' = {Append(s, kind)[i] : i \in DOMAIN Append(s, kind)}
    BY <1>2 DEF OutcomesOf
  <2> QED
    BY <1>3, <1>4, <2>1, <2>2
<1>6. ASSUME NEW k PROVE Booked(p, {k}) = {i \in DOMAIN s : s[i] = k}
  BY DEF Booked, s
<1>7. ASSUME NEW k PROVE Booked(p, {k})' = {i \in DOMAIN Append(s, kind) : Append(s, kind)[i] = k}
  BY <1>2 DEF Booked
<1>8. ASSUME NEW k, k # kind, One(p, k) PROVE One(p, k)'
  <2>1. Booked(p, {k})' = Booked(p, {k})
    <3>1. Booked(p, {k}) = {i \in DOMAIN s : s[i] = k}
      BY <1>6
    <3>2. Booked(p, {k})' = {i \in DOMAIN Append(s, kind) : Append(s, kind)[i] = k}
      BY <1>7
    <3> QED
      BY <1>3, <1>4, <1>8, <3>1, <3>2
  <2> QED
    BY <1>8, <2>1 DEF One
<1>9. ASSUME NEW k, k \notin OutcomesOf(p) PROVE One(p, k)'
  <2>1. \A i \in DOMAIN s : s[i] # k
    BY <1>9 DEF OutcomesOf, s
  <2>2. Booked(p, {k})' \subseteq {n + 1}
    BY <1>3, <1>4, <1>7, <2>1
  <2> QED
    BY <2>2 DEF One
<1>10. Ended(p)'
  <2>1. Len(<<>>) = 0 /\ n + 1 # 0
    BY <1>1
  <2> QED
    BY <1>2, <1>3, <2>1 DEF Ended
<1> QED
  BY <1>2, <1>5, <1>8, <1>9, <1>10

(* What serve and the world leave of a link a person is working on, and what *)
(* a person and the world leave of one that serve is ending.                *)
Respects(p) ==
  /\ p \in orphaned => p \in orphaned'
  /\ rz[p] = "cancelled" => rz'[p] = "cancelled"
  /\ "recovered" \notin OutcomesOf(p) => "recovered" \notin OutcomesOf(p)'
  /\ p \notin orphaned /\ Parked(p) /\ "paid" \notin OutcomesOf(p) => Parked(p)' /\ "paid" \notin OutcomesOf(p)'

Yields(p) ==
  /\ p \in orphaned => p \in orphaned'
  /\ rz[p] = "cancelled" => rz'[p] = "cancelled"
  /\ "paid" \notin OutcomesOf(p) => "paid" \notin OutcomesOf(p)'
  /\ ~Parked(p) => ~Parked(p)'

LEMMA KnownStays ==
  ASSUME NEW x, Known(x), x.pc \in OperatorPcs => Respects(x.link), x.pc \in ServePcs => Yields(x.link)
  PROVE  Known(x)'
<1>1. CASE x.pc \in OperatorPcs
  BY <1>1 DEF Known, Respects, OperatorPcs
<1>2. CASE x.pc \in ServePcs
  BY <1>2 DEF Known, Yields, ServePcs, LinkPcs, StopPcs
<1>3. CASE x.pc \notin OperatorPcs \cup ServePcs
  BY <1>3 DEF Known, OperatorPcs, ServePcs, LinkPcs, StopPcs
<1> QED
  BY <1>1, <1>2, <1>3

LEMMA SameLink ==
  ASSUME NEW p, status'[Link(p)] = status[Link(p)], rz'[p] = rz[p] \/ (rz[p] = "open" /\ rz'[p] = "paid"),
         outcome'[p] = outcome[p], p \in orphaned => p \in orphaned'
  PROVE  /\ Respects(p) /\ Yields(p)
         /\ LinkInv(p) /\ (Closing(p) => Closing(p)' \/ p \in orphaned') => LinkInv(p)'
<1>1. /\ OutcomesOf(p)' = OutcomesOf(p) /\ Ended(p)' = Ended(p) /\ Parked(p)' = Parked(p)
      /\ LinkOut(p)' = LinkOut(p) /\ One(p, "paid")' = One(p, "paid") /\ One(p, "recovered")' = One(p, "recovered")
  BY DEF OutcomesOf, Ended, Parked, LinkOut, One, Booked
<1> QED
  BY <1>1 DEF LinkInv, Respects, Yields

Elsewhere(q) ==
  \A p \in Payments \ {q} : status'[Link(p)] = status[Link(p)] /\ rz'[p] = rz[p] /\ outcome'[p] = outcome[p]

(* Only serve parks a link, and only the one in its hands. *)
LEMMA WhoParks ==
  ASSUME OInv, OneServe, NEW w \in Workers \ Operators, NEW p, ~Parks(w, p)
  PROVE  ~Closing(p)
<1>1. ASSUME NEW v \in Workers, Parks(v, p) PROVE FALSE
  <2>1. v \notin Operators
    BY <1>1 DEF Parks, At, OInv, OTyped, ServePcs, LinkPcs
  <2> QED
    BY <1>1, <2>1 DEF OneServe
<1> QED
  BY <1>1 DEF Closing

LEMMA ServeWrites ==
  ASSUME OInv, OTyped', OneServe, NEW w \in Workers \ Operators, NEW q \in Payments, Elsewhere(q),
         UNCHANGED orphaned, wk[w].pc = "close" => wk[w].link = q,
         NEW x, Goto(w, x), LinkInv(q)', Respects(q), Known(x)'
  PROVE  OInv'
<1>1. wk'[w] = x /\ \A v \in Workers \ {w} : wk'[v] = wk[v]
  BY DEF Goto, OInv, OTyped, Typed
<1>2. ASSUME NEW p \in Payments \ {q} PROVE LinkInv(p)' /\ Respects(p)
  <2>1. ~Closing(p)
    BY WhoParks DEF Parks, At
  <2> QED
    BY <2>1, SameLink DEF Elsewhere, OInv
<1>3. ASSUME NEW v \in Workers PROVE Known(wk[v])'
  <2>1. CASE v = w
    BY <1>1, <2>1 DEF Known
  <2>2. CASE v # w
    <3>1. PICK y : y = wk[v]
      OBVIOUS
    <3>2. y.pc \notin ServePcs
      BY <2>2, <3>1 DEF OInv, OTyped, OneServe
    <3>3. y.pc \in OperatorPcs => y.link \in Payments
      BY <3>1, LinkInHand DEF OInv
    <3>4. Known(y)
      BY <3>1 DEF OInv
    <3>5. Known(y)'
      BY <1>2, <3>2, <3>3, <3>4, KnownStays
    <3>6. wk'[v] = y
      BY <1>1, <2>2, <3>1
    <3> QED
      BY <3>5, <3>6
  <2> QED
    BY <2>1, <2>2
<1> QED
  BY <1>2, <1>3 DEF OInv

LEMMA PersonWrites ==
  ASSUME OInv, OTyped', OnePerson, NEW w \in Operators, NEW q \in Payments, Elsewhere(q),
         UNCHANGED orphaned, NEW x, Goto(w, x), Yields(q), Known(x)',
         Closing(q) => Closing(q)', LinkInv(q)'
  PROVE  OInv'
<1>1. w \in Workers /\ wk'[w] = x /\ \A v \in Workers \ {w} : wk'[v] = wk[v]
  BY OperatorAssumption DEF Goto, OInv, OTyped, Typed
<1>2. ASSUME NEW p \in Payments \ {q} PROVE LinkInv(p)' /\ Yields(p)
  <2>1. Closing(p) => Closing(p)'
    <3>1. ASSUME NEW v \in Workers, Parks(v, p) PROVE Parks(v, p)'
      <4>1. v # w
        BY <3>1 DEF Parks, At, OInv, OTyped, ServePcs, LinkPcs
      <4> QED
        BY <1>1, <3>1, <4>1 DEF Parks, At
    <3> QED
      BY <3>1 DEF Closing
  <2> QED
    BY <2>1, SameLink DEF Elsewhere, OInv
<1>3. ASSUME NEW v \in Workers PROVE Known(wk[v])'
  <2>1. CASE v = w
    BY <1>1, <2>1 DEF Known
  <2>2. CASE v # w
    <3>1. PICK y : y = wk[v]
      OBVIOUS
    <3>2. y.pc \notin OperatorPcs
      BY <2>2, <3>1 DEF OInv, OTyped, OnePerson
    <3>3. y.pc \in ServePcs => y.link \in Payments
      BY <3>1, AllPositionsWide, RowInHand DEF OInv, OTyped, ServePcs
    <3>4. Known(y)
      BY <3>1 DEF OInv
    <3>5. Known(y)'
      BY <1>2, <3>2, <3>3, <3>4, KnownStays
    <3>6. wk'[v] = y
      BY <1>1, <2>2, <3>1
    <3> QED
      BY <3>5, <3>6
  <2> QED
    BY <2>1, <2>2
<1> QED
  BY <1>2, <1>3 DEF OInv

LEMMA PersonParksNone ==
  ASSUME OInv, NEW w \in Operators, NEW x, Goto(w, x), NEW p
  PROVE  Closing(p) => Closing(p)'
<1>1. w \in Workers /\ \A v \in Workers \ {w} : wk'[v] = wk[v]
  BY OperatorAssumption DEF Goto, OInv, OTyped, Typed
<1>2. ASSUME NEW v \in Workers, Parks(v, p) PROVE Parks(v, p)'
  <2>1. v # w
    BY <1>2 DEF Parks, At, OInv, OTyped, ServePcs, LinkPcs
  <2> QED
    BY <1>1, <1>2, <2>1 DEF Parks, At
<1> QED
  BY <1>2 DEF Closing

(* Steps that leave every link alone, its payment apart. *)
LinksAlone ==
  /\ \A p \in Payments : /\ status'[Link(p)] = status[Link(p)] /\ outcome'[p] = outcome[p]
                         /\ rz'[p] = rz[p] \/ (rz[p] = "open" /\ rz'[p] = "paid")
  /\ orphaned \subseteq orphaned'

LEMMA AsideKeeps ==
  ASSUME OInv, OTyped', NEW w, \A v \in Workers : wk'[v] = wk[v] \/ (v = w /\ Known(wk[v])'), LinksAlone,
         \A p \in Payments : w \in Workers /\ Parks(w, p) => Parks(w, p)' \/ p \in orphaned'
  PROVE  OInv'
<1>1. ASSUME NEW p \in Payments PROVE Respects(p) /\ Yields(p) /\ LinkInv(p)'
  <2>1. ASSUME NEW v \in Workers, Parks(v, p) PROVE Closing(p)' \/ p \in orphaned'
    <3>1. CASE v = w
      BY <2>1, <3>1 DEF Closing
    <3>2. CASE v # w
      BY <2>1, <3>2 DEF Closing, Parks, At
    <3> QED
      BY <3>1, <3>2
  <2>2. Closing(p) => Closing(p)' \/ p \in orphaned'
    BY <2>1 DEF Closing
  <2> QED
    BY <2>2, SameLink DEF LinksAlone, OInv
<1>2. ASSUME NEW v \in Workers PROVE Known(wk[v])'
  <2>1. CASE wk'[v] = wk[v]
    <3>1. PICK y : y = wk[v]
      OBVIOUS
    <3>2. y.pc \in OperatorPcs => y.link \in Payments
      BY <3>1, LinkInHand DEF OInv
    <3>3. y.pc \in ServePcs => y.link \in Payments
      BY <3>1, AllPositionsWide, RowInHand DEF OInv, OTyped, ServePcs
    <3>4. Known(y)
      BY <3>1 DEF OInv
    <3>5. Known(y)'
      BY <1>1, <3>2, <3>3, <3>4, KnownStays
    <3> QED
      BY <2>1, <3>1, <3>5
  <2> QED
    BY <2>1
<1> QED
  BY <1>1, <1>2 DEF OInv

-----------------------------------------------------------------------------
(* The steps of serve and of the world. *)

LEMMA ReminderKeeps ==
  ASSUME OInv, OTyped', OneServe, NEW w \in Workers, ReminderStep(w), UNCHANGED observed
  PROVE  OInv'
<1>1. Typed(AllPositions, AllKinds) /\ Wide(AllPositions) /\ DOMAIN wk = Workers
  BY AllPositionsWide DEF OInv, OTyped, Typed
<1>2. LinksAlone
  BY <1>1, ReminderStepLinks DEF LinksStay, LinksAlone, observed
<1>3. wk[w].pc # "close"
  <2>1. wk[w] = Idle => wk[w].pc # "close"
    BY DEF Idle
  <2> QED
    BY <2>1 DEF ReminderStep, ScheduleReminder, SettleReminder, ClaimReminder, FetchLink, NotifyLink,
       FinishReminder, VoidReminders, BeginReminder, RecoverReminder, At, Busy
<1>4. \A v \in Workers : wk'[v] = wk[v] \/ (v = w /\ Known(wk[v])')
  <2>1. CASE VoidReminders(w)
    <3>1. PICK p \in Payments : p = wk[w].link
      BY <1>1, <2>1, RowInHand DEF VoidReminders, At
    <3>2. wk'[w] = Idle \/ \E pc \in {"withdraw", "stop"} : wk'[w] = [pc |-> pc, link |-> p] /\ pc = NextStop(p)
      <4>1. PICK pc \in {"withdraw", "stop", "none"} : pc = NextStop(p)
        BY DEF NextStop
      <4>2. Done(w) \/ (pc # "none" /\ Goto(w, [pc |-> pc, link |-> p]))
        BY <2>1, <3>1, <4>1 DEF VoidReminders
      <4>3. CASE Done(w)
        BY <1>1, <4>3 DEF Done, Goto
      <4>4. CASE pc # "none" /\ Goto(w, [pc |-> pc, link |-> p])
        <5>1. wk'[w] = [pc |-> pc, link |-> p] /\ pc \in {"withdraw", "stop"}
          BY <1>1, <4>4 DEF Goto
        <5> QED
          BY <4>1, <5>1
      <4> QED
        BY <4>2, <4>3, <4>4
    <3>3. \A v \in Workers \ {w} : wk'[v] = wk[v]
      BY <1>1, <2>1 DEF VoidReminders, Done, Goto
    <3>4. status'[Link(p)] = status[Link(p)]
      BY <1>2 DEF LinksAlone
    <3>5. CASE wk'[w] = Idle
      BY <3>3, <3>5 DEF Known, Idle
    <3>6. ASSUME NEW pc \in {"withdraw", "stop"}, wk'[w] = [pc |-> pc, link |-> p], pc = NextStop(p)
          PROVE  Known(wk[w])'
      <4>1. ~Parked(p)'
        BY <3>4, <3>6 DEF NextStop, LiveJob, Parked
      <4>2. wk'[w].pc \in {"withdraw", "stop"} /\ wk'[w].link = p
        BY <3>6
      <4> QED
        BY <4>1, <4>2 DEF Known
    <3> QED
      BY <3>2, <3>3, <3>5, <3>6
  <2>2. CASE ~VoidReminders(w)
    BY <2>2, ReminderAside DEF OInv, AsideMoves, AsidePcs, Known
  <2> QED
    BY <2>1, <2>2
<1> QED
  BY <1>2, <1>3, <1>4, AsideKeeps DEF Parks, At

LEMMA WorldKeeps ==
  ASSUME OInv, Tick \/ (\E p \in Payments : PayLink(p)) \/ UNCHANGED ovars, UNCHANGED observed
  PROVE  OInv'
<1>1. UNCHANGED wk
  BY DEF Tick, PayLink, ovars
<1>2. Typed(AllPositions, AllKinds)'
  <2>1. CASE UNCHANGED ovars
    BY <2>1 DEF ovars, Typed, OInv, OTyped
  <2> QED
    BY <2>1, AllPositionsWide, WorldType DEF OInv, OTyped
<1>3. OTyped'
  BY <1>1, <1>2 DEF OInv, OTyped, observed
<1>4. LinksAlone
  BY DEF LinksAlone, Tick, PayLink, rows, ovars, observed, OInv, OTyped, Typed
<1> QED
  BY <1>1, <1>3, <1>4, AsideKeeps DEF Parks, At

LEMMA CrashKeeps ==
  ASSUME OInv, NEW w \in Workers, OperatorCrash(w)
  PROVE  OInv'
<1>1. CrashWorker(w) /\ UNCHANGED resent /\ orphaned' = orphaned \cup {p \in Payments : Parks(w, p)}
  BY DEF OperatorCrash
<1>2. Typed(AllPositions, AllKinds)'
  BY <1>1, AllPositionsWide, WorldType DEF OInv, OTyped
<1>3. wk'[w] = Idle /\ \A v \in Workers \ {w} : wk'[v] = wk[v]
  BY <1>1 DEF CrashWorker, Done, Goto, OInv, OTyped, Typed
<1>4. Idle.pc \notin OperatorPcs \cup ServePcs /\ Known(Idle)'
  BY DEF Idle, OperatorPcs, ServePcs, LinkPcs, StopPcs, Known
<1>5. OTyped'
  BY <1>1, <1>2, <1>3, <1>4 DEF OInv, OTyped, OperatorPcs
<1>6. LinksAlone
  BY <1>1 DEF LinksAlone, CrashWorker, rows
<1>7. Known(wk[w])'
  BY <1>3, <1>4 DEF Known
<1> QED
  BY <1>1, <1>3, <1>5, <1>6, <1>7, AsideKeeps

LEMMA LinkWorkKeeps ==
  ASSUME OInv, OTyped', OneServe, NEW w \in Workers \ Operators, LinkWork(w), UNCHANGED observed
  PROVE  OInv'
<1>1. /\ Typed(AllPositions, AllKinds) /\ Wide(AllPositions) /\ DOMAIN wk = Workers
      /\ DOMAIN status = Rows /\ DOMAIN rz = Payments /\ UNCHANGED orphaned
      /\ Known(wk[w]) /\ \A q \in Payments : LinkInv(q)
  BY AllPositionsWide DEF OInv, OTyped, Typed, observed
<1>2. PICK y : y = wk[w]
  OBVIOUS
<1>3. /\ y.pc \in LinkPcs => y.link \in Payments
      /\ y.pc \in {"end", "close"} => y.kind \in OutcomeKinds
  BY <1>1, <1>2, RowInHand
<1>4. ASSUME NEW q \in Payments, y.pc = "idle" \/ (y.pc \in LinkPcs /\ y.link = q), Elsewhere(q),
             NEW x, Goto(w, x), LinkInv(q)', Respects(q), Known(x)'
      PROVE  OInv'
  BY <1>1, <1>2, <1>4, ServeWrites
<1>5. ASSUME NEW q \in Payments, y.pc = "idle" \/ (y.pc \in LinkPcs \ {"close"} /\ y.link = q),
             UNCHANGED <<status, outcome>>, Elsewhere(q), rz'[q] = rz[q], NEW x, Goto(w, x), Known(x)'
      PROVE  OInv'
  <2>1. ~Closing(q)
    BY <1>2, <1>5, WhoParks DEF Parks, At
  <2>2. LinkInv(q)' /\ Respects(q)
    BY <1>1, <1>5, <2>1, SameLink
  <2> QED
    BY <1>4, <1>5, <2>2
<1>6. ASSUME NEW q \in Payments, UNCHANGED <<status, outcome, rz>> PROVE Elsewhere(q) /\ rz'[q] = rz[q]
  BY <1>6 DEF Elsewhere
<1>7. ASSUME NEW q \in Payments, LearnEnd(w, q) PROVE OInv'
  <2>1. y.pc = "idle" /\ outcome[q] = <<>> /\ UNCHANGED <<status, outcome, rz>>
    BY <1>2, <1>7 DEF LearnEnd, Busy, Idle, Ended, rows
  <2>2. PICK kind \in {"paid", "ended"} : Goto(w, [pc |-> "end", link |-> q, kind |-> kind])
    BY <1>7 DEF LearnEnd
  <2>3. ~Closing(q) /\ ~Ended(q) /\ OutcomesOf(q) = {}
    BY <1>2, <2>1, WhoParks DEF Parks, At, Ended, OutcomesOf
  <2>4. q \in orphaned \/ ~Parked(q)
    BY <1>1, <2>3 DEF LinkInv
  <2>5. PICK x : x = [pc |-> "end", link |-> q, kind |-> kind]
    OBVIOUS
  <2>6. x.pc = "end" /\ x.link = q /\ x.kind = kind
    BY <2>5
  <2>7. Known(x)'
    BY <1>1, <2>1, <2>3, <2>4, <2>6 DEF Known, Parked, OutcomesOf
  <2> QED
    BY <1>5, <1>6, <2>1, <2>2, <2>5, <2>7
<1>8. ASSUME NEW q \in Payments, RecordOrderPaid(w, q) PROVE OInv'
  <2>1. y.pc = "idle" /\ UNCHANGED <<status, outcome, rz>>
    BY <1>2, <1>8 DEF RecordOrderPaid, SettleOrder, Busy, Idle
  <2>2. Known([pc |-> "void", link |-> q, order |-> TRUE])'
    BY DEF Known
  <2> QED
    BY <1>5, <1>6, <1>8, <2>1, <2>2 DEF RecordOrderPaid, SettleOrder
<1>9. CASE MarkOrder(w)
  <2>1. y.pc = "mark" /\ UNCHANGED <<status, outcome, rz>>
    BY <1>2, <1>9 DEF MarkOrder, SettleOrder, At
  <2>2. PICK q \in Payments : q = y.link
    BY <1>3, <2>1 DEF LinkPcs, StopPcs
  <2>3. Known([pc |-> "void", link |-> q, order |-> TRUE])'
    BY DEF Known
  <2>4. Goto(w, [pc |-> "void", link |-> q, order |-> TRUE])
    BY <1>2, <1>9, <2>2 DEF MarkOrder, SettleOrder
  <2> QED
    BY <1>5, <1>6, <2>1, <2>2, <2>3, <2>4 DEF LinkPcs, StopPcs
<1>10. ASSUME NEW q \in Payments, NEW kind \in OutcomeKinds, RecordOutcome(q, kind)
       PROVE  /\ OutcomesOf(q)' = OutcomesOf(q) \cup {kind}
              /\ \A p \in Payments \ {q} : outcome'[p] = outcome[p]
              /\ Ended(q)'
              /\ \A k : k # kind /\ One(q, k) => One(q, k)'
              /\ \A k : k \notin OutcomesOf(q) => One(q, k)'
  BY <1>1, <1>10, Appended DEF AllKinds
<1>11. ASSUME NEW q \in Payments, NEW new, status' = [status EXCEPT ![Link(q)] = new]
       PROVE  status'[Link(q)] = new /\ \A p \in Payments \ {q} : status'[Link(p)] = status[Link(p)]
  BY <1>1, <1>11, LinkMoves
<1>12. CASE RecordEnd(w)
  <2>1. y.pc = "end" /\ UNCHANGED rz
    BY <1>2, <1>12 DEF RecordEnd, At
  <2>2. PICK q \in Payments : q = y.link
    BY <1>3, <2>1 DEF LinkPcs
  <2>3. PICK kind \in {"paid", "ended"} : kind = y.kind
    BY <1>1, <1>2, <2>1 DEF Known
  <2>4. "paid" \notin OutcomesOf(q) /\ (q \in orphaned \/ ~Parked(q))
    BY <1>1, <1>2, <2>1, <2>2 DEF Known
  <2>5. RecordOutcome(q, kind) /\ status' = [status EXCEPT ![Link(q)] = IF kind = "paid" THEN "sent" ELSE @]
    BY <1>2, <1>12, <2>2, <2>3 DEF RecordEnd
  <2>6. /\ OutcomesOf(q)' = OutcomesOf(q) \cup {kind}
        /\ \A p \in Payments \ {q} : outcome'[p] = outcome[p]
        /\ Ended(q)' /\ One(q, "paid")' /\ One(q, "recovered")'
    BY <1>1, <1>10, <2>3, <2>4, <2>5 DEF OutcomeKinds, LinkInv
  <2>7. PICK new : new = IF kind = "paid" THEN "sent" ELSE status[Link(q)]
    OBVIOUS
  <2>8. status'[Link(q)] = new /\ \A p \in Payments \ {q} : status'[Link(p)] = status[Link(p)]
    BY <1>11, <2>5, <2>7
  <2>9. LinkInv(q)'
    BY <1>1, <2>1, <2>3, <2>4, <2>6, <2>7, <2>8 DEF LinkInv, LinkOut, Parked
  <2>10. Respects(q)
    BY <1>1, <2>1, <2>3, <2>4, <2>6 DEF Respects
  <2>11. Elsewhere(q)
    BY <2>1, <2>6, <2>8 DEF Elsewhere
  <2>12. PICK x : Goto(w, x) /\ x.pc \in {"mark", "void"}
    BY <1>12 DEF RecordEnd
  <2>13. Known(x)'
    BY <2>12 DEF Known
  <2> QED
    BY <1>4, <2>1, <2>2, <2>9, <2>10, <2>11, <2>12, <2>13 DEF LinkPcs
<1>13. CASE VoidLink(w)
  <2>1. y.pc = "withdraw" /\ UNCHANGED <<rz, outcome>>
    BY <1>2, <1>13 DEF VoidLink, At
  <2>2. PICK q \in Payments : q = y.link
    BY <1>3, <2>1 DEF LinkPcs, StopPcs
  <2>3. q \in orphaned \/ ~Parked(q)
    BY <1>1, <1>2, <2>1, <2>2 DEF Known
  <2>4. status'[Link(q)] = "no_action" /\ \A p \in Payments \ {q} : status'[Link(p)] = status[Link(p)]
    BY <1>2, <1>11, <1>13, <2>2 DEF VoidLink, Commit
  <2>5. OutcomesOf(q)' = OutcomesOf(q) /\ One(q, "paid")' /\ One(q, "recovered")'
    BY <1>1, <2>1 DEF OutcomesOf, LinkInv, One, Booked
  <2>6. LinkInv(q)' /\ Respects(q) /\ Elsewhere(q)
    BY <1>1, <2>1, <2>3, <2>4, <2>5 DEF LinkInv, LinkOut, Parked, Respects, Elsewhere
  <2>7. Goto(w, [pc |-> "close", link |-> q, kind |-> "stopped"])
    BY <1>2, <1>13, <2>2 DEF VoidLink
  <2>8. Known([pc |-> "close", link |-> q, kind |-> "stopped"])'
    BY DEF Known
  <2> QED
    BY <1>4, <2>1, <2>2, <2>6, <2>7, <2>8 DEF LinkPcs, StopPcs
<1>14. CASE StopLink(w)
  <2>1. y.pc = "stop" /\ UNCHANGED <<status, outcome>>
    BY <1>2, <1>14 DEF StopLink, At, rows
  <2>2. PICK q \in Payments : q = y.link
    BY <1>3, <2>1 DEF LinkPcs, StopPcs
  <2>3. q \in orphaned \/ ~Parked(q)
    BY <1>1, <1>2, <2>1, <2>2 DEF Known
  <2>4. PICK x : Goto(w, x) /\ (x = Idle \/ x = [pc |-> "stopped", link |-> q] \/ x = [pc |-> "parked", link |-> q])
    BY <1>2, <1>14, <2>2 DEF StopLink, Done
  <2>5. x.pc \in {"idle", "stopped", "parked"} /\ (x.pc # "idle" => x.link = q)
    BY <2>4 DEF Idle
  <2>6. UNCHANGED rz \/ (rz[q] = "open" /\ rz' = [rz EXCEPT ![q] = "cancelled"])
    BY <1>2, <1>14, <2>2 DEF StopLink, ClosedAtRazorpay
  <2>7. x.pc = "stopped" => rz' = [rz EXCEPT ![q] = "cancelled"]
    <3>1. ~Goto(w, Idle) \/ x.pc # "stopped"
      BY <1>1, <2>4, <2>5 DEF Goto, Idle
    <3>2. ~Goto(w, [pc |-> "parked", link |-> q]) \/ x.pc # "stopped"
      BY <1>1, <2>4, <2>5 DEF Goto
    <3> QED
      BY <1>2, <1>14, <2>2, <3>1, <3>2 DEF StopLink, Done
  <2>8. rz'[q] = rz[q] \/ (rz[q] = "open" /\ rz'[q] = "cancelled")
    BY <1>1, <2>6
  <2>9. x.pc = "stopped" => rz'[q] = "cancelled"
    BY <1>1, <2>7
  <2>10. Elsewhere(q)
    BY <1>1, <2>1, <2>6 DEF Elsewhere
  <2>11. /\ OutcomesOf(q)' = OutcomesOf(q) /\ Ended(q)' = Ended(q) /\ Parked(q)' = Parked(q)
         /\ LinkOut(q)' = LinkOut(q) /\ One(q, "paid")' /\ One(q, "recovered")'
    BY <1>1, <2>1 DEF OutcomesOf, LinkInv, One, Booked, Ended, Parked, LinkOut
  <2>12. ~Closing(q)
    BY <1>2, <2>1, WhoParks DEF Parks, At
  <2>13. LinkInv(q)'
    BY <1>1, <2>1, <2>8, <2>11, <2>12 DEF LinkInv
  <2>14. Respects(q)
    BY <1>1, <2>8, <2>11 DEF Respects
  <2>15. Known(x)'
    BY <1>1, <2>3, <2>5, <2>9, <2>11 DEF Known
  <2> QED
    BY <1>4, <2>1, <2>2, <2>4, <2>10, <2>13, <2>14, <2>15 DEF LinkPcs, StopPcs
<1>15. CASE RecordStop(w)
  <2>1. y.pc \in {"stopped", "parked"} /\ UNCHANGED <<rz, outcome>>
    BY <1>2, <1>15 DEF RecordStop, At
  <2>2. PICK q \in Payments : q = y.link
    BY <1>3, <2>1 DEF LinkPcs, StopPcs
  <2>3. (q \in orphaned \/ ~Parked(q)) /\ (y.pc = "stopped" => rz[q] = "cancelled")
    BY <1>1, <1>2, <2>1, <2>2 DEF Known
  <2>4. PICK new \in {"cancelled", "human_queue"} : new = IF y.pc = "stopped" THEN "cancelled" ELSE "human_queue"
    OBVIOUS
  <2>5. PICK kind \in {"cancelled", "parked"} : kind = IF y.pc = "stopped" THEN "cancelled" ELSE "parked"
    OBVIOUS
  <2>6. PICK x : x = [pc |-> "close", link |-> q, kind |-> kind]
    OBVIOUS
  <2>7. status' = [status EXCEPT ![Link(q)] = new] /\ Goto(w, x)
    BY <1>2, <1>15, <2>2, <2>4, <2>5, <2>6 DEF RecordStop, At
  <2>8. status'[Link(q)] = new /\ \A p \in Payments \ {q} : status'[Link(p)] = status[Link(p)]
    BY <1>11, <2>7
  <2>9. OutcomesOf(q)' = OutcomesOf(q) /\ One(q, "paid")' /\ One(q, "recovered")'
    BY <1>1, <2>1 DEF OutcomesOf, LinkInv, One, Booked
  <2>10. new = "human_queue" => Closing(q)'
    <3>1. wk'[w] = x
      BY <1>1, <2>7 DEF Goto
    <3>2. new = "human_queue" => x.pc = "close" /\ x.link = q /\ x.kind = "parked"
      BY <2>4, <2>5, <2>6
    <3>3. new = "human_queue" => Parks(w, q)'
      BY <3>1, <3>2 DEF Parks, At
    <3> QED
      BY <3>3 DEF Closing
  <2>11. LinkInv(q)'
    BY <1>1, <2>1, <2>3, <2>4, <2>8, <2>9, <2>10 DEF LinkInv, LinkOut, Parked
  <2>12. Respects(q) /\ Elsewhere(q)
    BY <1>1, <2>1, <2>3, <2>8, <2>9 DEF Parked, Respects, Elsewhere
  <2>13. Known(x)'
    BY <2>5, <2>6 DEF Known
  <2> QED
    BY <1>4, <2>1, <2>2, <2>7, <2>11, <2>12, <2>13 DEF LinkPcs, StopPcs
<1>16. CASE CloseLink(w)
  <2>1. y.pc = "close" /\ UNCHANGED <<status, rz>> /\ Goto(w, Idle)
    BY <1>2, <1>16 DEF CloseLink, At, Done
  <2>2. PICK q \in Payments : q = y.link
    BY <1>3, <2>1 DEF LinkPcs
  <2>3. PICK kind \in {"stopped", "cancelled", "parked"} : kind = y.kind
    BY <1>1, <1>2, <2>1 DEF Known
  <2>4. RecordOutcome(q, kind)
    BY <1>2, <1>16, <2>2, <2>3 DEF CloseLink
  <2>5. /\ OutcomesOf(q)' = OutcomesOf(q) \cup {kind}
        /\ \A p \in Payments \ {q} : outcome'[p] = outcome[p]
        /\ Ended(q)' /\ One(q, "paid")' /\ One(q, "recovered")'
    BY <1>1, <1>10, <2>3, <2>4 DEF OutcomeKinds, LinkInv
  <2>6. LinkInv(q)' /\ Respects(q) /\ Elsewhere(q)
    BY <1>1, <2>1, <2>3, <2>5 DEF LinkInv, LinkOut, Parked, Respects, Elsewhere
  <2>7. Known(Idle)'
    BY DEF Known, Idle
  <2> QED
    BY <1>4, <2>1, <2>2, <2>6, <2>7 DEF LinkPcs
<1> QED
  BY <1>7, <1>8, <1>9, <1>12, <1>13, <1>14, <1>15, <1>16 DEF LinkWork

LEMMA ExecutedLink ==
  ASSUME OInv, NEW w \in Workers, NEW q \in Payments, NEW next, ExecuteLink(w, q, next), wk[w] = Idle,
         UNCHANGED orphaned
  PROVE  /\ Elsewhere(q) /\ Respects(q) /\ Yields(q) /\ LinkInv(q)'
         /\ Goto(w, next) \/ Goto(w, Idle)
<1>1. /\ Typed(AllPositions, AllKinds) /\ DOMAIN status = Rows /\ DOMAIN rz = Payments
      /\ wk \in [Workers -> AllPositions] /\ LinkInv(q)
  BY DEF OInv, OTyped, Typed
<1>2. status[Link(q)] = "pending" /\ rz[q] = "none"
  BY <1>1 DEF ExecuteLink, LinkInv, LinkOut
<1>3. PICK new \in {"no_action", "shadow", "sent", "failed"} : status' = [status EXCEPT ![Link(q)] = new]
  BY DEF ExecuteLink, Commit
<1>4. status'[Link(q)] = new /\ \A p \in Payments \ {q} : status'[Link(p)] = status[Link(p)]
  BY <1>1, <1>3, LinkMoves
<1>5. \A p \in Payments \ {q} : rz'[p] = rz[p]
  BY <1>1 DEF ExecuteLink
<1>6. /\ \A p \in Payments \ {q} : outcome'[p] = outcome[p]
      /\ OutcomesOf(q)' \subseteq OutcomesOf(q) \cup {"stopped", "parked"}
      /\ One(q, "paid")' /\ One(q, "recovered")'
  <2>1. CASE UNCHANGED outcome
    BY <1>1, <2>1 DEF OutcomesOf, LinkInv, One, Booked
  <2>2. ASSUME NEW kind \in {"stopped", "parked"}, RecordOutcome(q, kind)
        PROVE  /\ \A p \in Payments \ {q} : outcome'[p] = outcome[p]
               /\ OutcomesOf(q)' \subseteq OutcomesOf(q) \cup {"stopped", "parked"}
               /\ One(q, "paid")' /\ One(q, "recovered")'
    <3>1. kind \in AllKinds
      BY DEF AllKinds, OutcomeKinds
    <3>2. /\ OutcomesOf(q)' = OutcomesOf(q) \cup {kind}
          /\ \A p \in Payments \ {q} : outcome'[p] = outcome[p]
          /\ \A k : k # kind /\ One(q, k) => One(q, k)'
      BY <1>1, <2>2, <3>1, Appended
    <3> QED
      BY <1>1, <3>2 DEF LinkInv
  <2> QED
    BY <2>1, <2>2 DEF ExecuteLink
<1>7. Elsewhere(q)
  BY <1>4, <1>5, <1>6 DEF Elsewhere
<1>8. Respects(q) /\ Yields(q)
  BY <1>2, <1>4, <1>6 DEF Respects, Yields, Parked
<1>9. LinkInv(q)'
  BY <1>1, <1>2, <1>4, <1>6 DEF LinkInv, LinkOut, Parked
<1>10. Goto(w, next) \/ Goto(w, Idle)
  BY <1>1 DEF ExecuteLink, Goto
<1> QED
  BY <1>7, <1>8, <1>9, <1>10

LEMMA ScheduledLink ==
  ASSUME OInv, OTyped', OneServe, NEW w \in Workers \ Operators, NEW q \in Payments, ScheduleLink(w, q),
         UNCHANGED observed
  PROVE  OInv'
<1>1. /\ Typed(AllPositions, AllKinds) /\ DOMAIN status = Rows /\ LinkInv(q)
      /\ wk \in [Workers -> AllPositions] /\ UNCHANGED <<rz, wk, orphaned>> /\ wk[w] = Idle
  BY DEF OInv, OTyped, Typed, ScheduleLink, observed, Busy
<1>2. status[Link(q)] = "absent" /\ rz[q] = "none"
  BY <1>1 DEF ScheduleLink, LinkInv, LinkOut
<1>3. PICK new \in {"no_action", "human_queue", "pending"} : new = ScheduledStatus(q)
  BY DEF ScheduledStatus
<1>4. status'[Link(q)] = new /\ \A p \in Payments \ {q} : status'[Link(p)] = status[Link(p)]
  BY <1>1, <1>3, LinkMoves DEF ScheduleLink
<1>5. /\ \A p \in Payments \ {q} : outcome'[p] = outcome[p]
      /\ OutcomesOf(q)' \subseteq OutcomesOf(q) \cup {"stopped", "parked"}
      /\ One(q, "paid")' /\ One(q, "recovered")'
      /\ new # "pending" => Ended(q)'
  <2>1. CASE new = "pending" /\ UNCHANGED outcome
    BY <1>1, <2>1 DEF OutcomesOf, LinkInv, One, Booked
  <2>2. ASSUME NEW kind \in {"stopped", "parked"}, RecordOutcome(q, kind)
        PROVE  /\ \A p \in Payments \ {q} : outcome'[p] = outcome[p]
               /\ OutcomesOf(q)' \subseteq OutcomesOf(q) \cup {"stopped", "parked"}
               /\ One(q, "paid")' /\ One(q, "recovered")'
               /\ new # "pending" => Ended(q)'
    <3>1. kind \in AllKinds
      BY DEF AllKinds, OutcomeKinds
    <3>2. /\ OutcomesOf(q)' = OutcomesOf(q) \cup {kind} /\ Ended(q)'
          /\ \A p \in Payments \ {q} : outcome'[p] = outcome[p]
          /\ \A k : k # kind /\ One(q, k) => One(q, k)'
      BY <1>1, <2>2, <3>1, Appended
    <3> QED
      BY <1>1, <3>2 DEF LinkInv
  <2> QED
    BY <1>3, <2>1, <2>2 DEF ScheduleLink
<1>6. Elsewhere(q) /\ Respects(q)
  BY <1>1, <1>2, <1>4, <1>5 DEF Elsewhere, Respects, Parked
<1>7. LinkInv(q)'
  BY <1>1, <1>2, <1>4, <1>5 DEF LinkInv, LinkOut, Parked
<1>8. Goto(w, Idle) /\ Known(Idle)'
  BY <1>1 DEF Goto, Known, Idle
<1> QED
  BY <1>1, <1>6, <1>7, <1>8, ServeWrites DEF Idle

LEMMA ServeKeeps ==
  ASSUME OInv, OTyped', OneServe, NEW w \in Workers \ Operators, ServeStep(w), UNCHANGED observed
  PROVE  OInv'
<1>1. ASSUME NEW q \in Payments, SweepLink(w, q) PROVE OInv'
  <2>1. PICK next : next = [pc |-> "remind", link |-> q, n |-> 1]
    OBVIOUS
  <2>2. ExecuteLink(w, q, next) /\ wk[w] = Idle /\ UNCHANGED orphaned
    BY <1>1, <2>1 DEF SweepLink, Busy, observed
  <2>3. Elsewhere(q) /\ Respects(q) /\ LinkInv(q)' /\ (Goto(w, next) \/ Goto(w, Idle))
    BY <2>2, ExecutedLink
  <2>4. Known(next)' /\ Known(Idle)' /\ wk[w].pc # "close"
    BY <2>1, <2>2 DEF Known, Idle
  <2> QED
    BY <2>2, <2>3, <2>4, ServeWrites
<1> QED
  BY <1>1, LinkWorkKeeps, ScheduledLink DEF ServeStep

-----------------------------------------------------------------------------
(* The person's own steps. *)

LEMMA PersonAside ==
  ASSUME OInv, OTyped', OnePerson, NEW w \in Operators, NEW x, Goto(w, x), Known(x)',
         UNCHANGED <<status, outcome, rz, orphaned>>
  PROVE  OInv'
<1>1. w \in Workers /\ wk'[w] = x /\ \A v \in Workers \ {w} : wk'[v] = wk[v]
  BY OperatorAssumption DEF Goto, OInv, OTyped, Typed
<1>2. Known(wk[w])'
  BY <1>1 DEF Known
<1>3. ~ \E p : Parks(w, p)
  BY <1>1 DEF Parks, At, OInv, OTyped, ServePcs, LinkPcs
<1> QED
  BY <1>1, <1>2, <1>3, AsideKeeps DEF LinksAlone

(* An outcome a person writes: one that books money only for a payment that *)
(* a person has in the queue and that nobody booked before.                 *)
LEMMA OutcomeKeeps ==
  ASSUME OInv, OTyped', OnePerson, NEW w \in Operators, Goto(w, Idle),
         NEW q \in Payments, NEW kind \in {"recovered", "resolved", "forced"}, RecordOutcome(q, kind),
         kind = "recovered" =>
           /\ "recovered" \notin OutcomesOf(q)
           /\ q \in orphaned \/ (Parked(q) /\ "paid" \notin OutcomesOf(q)),
         UNCHANGED <<status, rz, orphaned>>
  PROVE  OInv'
<1>1. Typed(AllPositions, AllKinds) /\ kind \in AllKinds /\ LinkInv(q)
  BY DEF OInv, OTyped, AllKinds, OutcomeKinds
<1>2. /\ OutcomesOf(q)' = OutcomesOf(q) \cup {kind}
      /\ \A p \in Payments \ {q} : outcome'[p] = outcome[p]
      /\ Ended(q)'
      /\ \A k : k # kind /\ One(q, k) => One(q, k)'
      /\ \A k : k \notin OutcomesOf(q) => One(q, k)'
  BY <1>1, Appended
<1>3. One(q, "paid")' /\ One(q, "recovered")'
  BY <1>1, <1>2 DEF LinkInv
<1>4. LinkInv(q)'
  BY <1>1, <1>2, <1>3 DEF LinkInv, LinkOut, Parked
<1>5. Elsewhere(q) /\ Yields(q)
  BY <1>2 DEF Elsewhere, Yields, Parked
<1>6. Known(Idle)'
  BY DEF Known, Idle
<1> QED
  BY <1>4, <1>5, <1>6, PersonParksNone, PersonWrites

LEMMA PersonKnows ==
  ASSUME OInv, OTyped', OnePerson, NEW w \in Operators, Operate(w)
  PROVE  OInv'
<1>1. /\ w \in Workers /\ Known(wk[w]) /\ Typed(AllPositions, AllKinds)
      /\ wk \in [Workers -> AllPositions] /\ DOMAIN status = Rows /\ DOMAIN rz = Payments
      /\ \A p \in Payments : LinkInv(p)
  BY OperatorAssumption DEF OInv, OTyped, Typed
<1>2. PICK y : y = wk[w]
  OBVIOUS
<1>3. y.pc \in OperatorPcs => y.link \in Payments /\ y \in OperatorPositions
  BY <1>1, <1>2, OperatorAt DEF Typed
<1>4. ASSUME NEW p \in Payments, NEW force \in Forced, CommandResolve(w, p, force) PROVE OInv'
  <2>1. PICK kind \in {"recovered", "resolved"} : RecordOutcome(p, IF force THEN "forced" ELSE kind)
    BY <1>4 DEF CommandResolve
  <2>2. force \/ (~Decided(p) /\ Parked(p))
    BY <1>4 DEF CommandResolve, MayResolve, Parked
  <2>3. UNCHANGED <<status, rz, orphaned>> /\ Goto(w, Idle)
    BY <1>1, <1>4 DEF CommandResolve, Busy, Goto
  <2>4. CASE force
    BY <2>1, <2>3, <2>4, OutcomeKeeps
  <2>5. CASE ~force
    BY <2>1, <2>2, <2>3, <2>5, OutcomeKeeps DEF Decided
  <2> QED
    BY <2>4, <2>5
<1>5. ASSUME NEW p \in Payments, Resolve(w, p) PROVE OInv'
  <2>1. PICK kind \in {"recovered", "resolved"} : Goto(w, [pc |-> "resolve", link |-> p, kind |-> kind])
    BY <1>5 DEF Resolve
  <2>2. UNCHANGED <<status, outcome, rz, orphaned>> /\ ~Decided(p) /\ Parked(p)
    BY <1>5 DEF Resolve, MayResolve, rows, Parked
  <2>3. Known([pc |-> "resolve", link |-> p, kind |-> kind])'
    BY <2>2 DEF Known, Decided, OutcomesOf, Parked
  <2> QED
    BY <2>1, <2>2, <2>3, PersonAside
<1>6. ASSUME NEW p \in Payments, BeginCancel(w, p) PROVE OInv'
  <2>1. UNCHANGED <<status, outcome, rz, orphaned>> /\ ~Parked(p)
    BY <1>6 DEF BeginCancel, LiveJob, rows, Parked
  <2>2. p \in orphaned \/ "recovered" \notin OutcomesOf(p)
    BY <1>1, <2>1 DEF LinkInv
  <2>3. Known([pc |-> "cancel", link |-> p])'
    BY <2>1, <2>2 DEF Known, OutcomesOf
  <2> QED
    BY <1>6, <2>1, <2>3, PersonAside DEF BeginCancel
<1>7. ASSUME NEW p \in Payments, BeginResend(w, p) PROVE OInv'
  <2>1. Known([pc |-> "resend", link |-> p])'
    BY DEF Known
  <2> QED
    BY <1>7, <2>1, PersonAside DEF BeginResend, rows
<1>8. CASE RecordResolve(w)
  <2>1. y.pc = "resolve" /\ UNCHANGED <<status, rz, orphaned>> /\ Goto(w, Idle)
    BY <1>2, <1>8 DEF RecordResolve, At, Done
  <2>2. PICK p \in Payments : p = y.link
    BY <1>3, <2>1 DEF OperatorPcs
  <2>3. PICK kind \in {"recovered", "resolved"} : kind = y.kind
    BY <1>3, <2>1 DEF OperatorPcs, OperatorPositions
  <2>4. /\ "recovered" \notin OutcomesOf(p)
        /\ p \in orphaned \/ (Parked(p) /\ "paid" \notin OutcomesOf(p))
    BY <1>1, <1>2, <2>1, <2>2 DEF Known
  <2>5. RecordOutcome(p, kind)
    BY <1>2, <1>8, <2>2, <2>3 DEF RecordResolve
  <2> QED
    BY <2>1, <2>4, <2>5, OutcomeKeeps
<1>9. CASE CallCancel(w)
  <2>1. y.pc = "cancel" /\ UNCHANGED <<status, outcome, orphaned>>
    BY <1>2, <1>9 DEF CallCancel, At, rows
  <2>2. PICK p \in Payments : p = y.link
    BY <1>3, <2>1 DEF OperatorPcs
  <2>3. PICK x : x = [y EXCEPT !.pc = "cancelled"]
    OBVIOUS
  <2>4. x.pc = "cancelled" /\ x.link = p
    BY <1>3, <2>1, <2>2, <2>3 DEF OperatorPcs, OperatorPositions
  <2>5. p \in orphaned \/ "recovered" \notin OutcomesOf(p)
    BY <1>1, <1>2, <2>1, <2>2 DEF Known
  <2>6. CASE CancelAnswers(p) /\ rz' = [rz EXCEPT ![p] = IF @ = "open" THEN "cancelled" ELSE @] /\ Goto(w, x)
    <3>1. rz[p] = "open"
      BY <2>6 DEF CancelAnswers, ClosedAtRazorpay
    <3>2. rz'[p] = "cancelled" /\ \A q \in Payments \ {p} : rz'[q] = rz[q]
      BY <1>1, <2>6, <3>1
    <3>3. /\ OutcomesOf(p)' = OutcomesOf(p) /\ Ended(p)' = Ended(p) /\ Parked(p)' = Parked(p)
          /\ LinkOut(p)' = LinkOut(p) /\ One(p, "paid")' /\ One(p, "recovered")'
      BY <1>1, <2>1 DEF OutcomesOf, LinkInv, One, Booked, Ended, Parked, LinkOut
    <3>4. Closing(p) => Closing(p)'
      BY <2>6, PersonParksNone
    <3>5. LinkInv(p)' /\ Yields(p)
      BY <1>1, <2>1, <3>1, <3>2, <3>3, <3>4 DEF LinkInv, Yields
    <3>6. Elsewhere(p)
      BY <2>1, <3>2 DEF Elsewhere
    <3>7. Known(x)'
      BY <2>1, <2>4, <2>5, <3>2, <3>3 DEF Known
    <3> QED
      BY <2>1, <2>6, <3>4, <3>5, <3>6, <3>7, PersonWrites
  <2>7. CASE Done(w) /\ UNCHANGED rz
    <3>1. Known(Idle)'
      BY DEF Known, Idle
    <3> QED
      BY <2>1, <2>7, <3>1, PersonAside DEF Done
  <2> QED
    BY <1>2, <1>9, <2>2, <2>3, <2>6, <2>7 DEF CallCancel
<1>10. CASE RecordCancelled(w)
  <2>1. y.pc = "cancelled" /\ UNCHANGED <<outcome, rz, orphaned>>
    BY <1>2, <1>10 DEF RecordCancelled, At
  <2>2. PICK p \in Payments : p = y.link
    BY <1>3, <2>1 DEF OperatorPcs
  <2>3. PICK x : x = [y EXCEPT !.pc = "closing"]
    OBVIOUS
  <2>4. x.pc = "closing" /\ x.link = p
    BY <1>3, <2>1, <2>2, <2>3 DEF OperatorPcs, OperatorPositions
  <2>5. rz[p] = "cancelled" /\ (p \in orphaned \/ "recovered" \notin OutcomesOf(p))
    BY <1>1, <1>2, <2>1, <2>2 DEF Known
  <2>6. status' = [status EXCEPT ![Link(p)] = "cancelled"] /\ Goto(w, x)
    BY <1>2, <1>10, <2>2, <2>3 DEF RecordCancelled
  <2>7. status'[Link(p)] = "cancelled" /\ \A q \in Payments \ {p} : status'[Link(q)] = status[Link(q)]
    BY <1>1, <2>6, LinkMoves
  <2>8. /\ OutcomesOf(p)' = OutcomesOf(p) /\ One(p, "paid")' /\ One(p, "recovered")'
    BY <1>1, <2>1 DEF OutcomesOf, LinkInv, One, Booked
  <2>9. LinkInv(p)' /\ Yields(p) /\ Elsewhere(p)
    BY <1>1, <2>1, <2>5, <2>7, <2>8 DEF LinkInv, LinkOut, Parked, Yields, Elsewhere
  <2>10. Known(x)'
    BY <2>1, <2>4, <2>5 DEF Known
  <2> QED
    BY <2>1, <2>6, <2>9, <2>10, PersonParksNone, PersonWrites
<1>11. CASE CloseCancelled(w)
  <2>1. y.pc = "closing" /\ UNCHANGED <<status, rz, orphaned>> /\ Goto(w, Idle)
    BY <1>2, <1>11 DEF CloseCancelled, At, Done
  <2>2. PICK p \in Payments : p = y.link
    BY <1>3, <2>1 DEF OperatorPcs
  <2>3. RecordOutcome(p, "resolved")
    BY <1>2, <1>11, <2>2 DEF CloseCancelled
  <2> QED
    BY <2>1, <2>3, OutcomeKeeps
<1>12. CASE CallResend(w)
  <2>1. Known(Idle)'
    BY DEF Known, Idle
  <2> QED
    BY <1>12, <2>1, PersonAside DEF CallResend, Done, rows
<1>13. ASSUME NEW p \in Payments, RetryLink(w, p), UNCHANGED observed PROVE OInv'
  <2>1. ExecuteLink(w, p, Idle) /\ wk[w] = Idle /\ UNCHANGED orphaned
    BY <1>13 DEF RetryLink, Busy, observed
  <2>2. Elsewhere(p) /\ Yields(p) /\ LinkInv(p)' /\ Goto(w, Idle)
    BY <1>1, <2>1, ExecutedLink
  <2>3. Known(Idle)'
    BY DEF Known, Idle
  <2> QED
    BY <2>1, <2>2, <2>3, PersonParksNone, PersonWrites
<1>14. ASSUME NEW r \in Reminders, RetryReminder(w, r), UNCHANGED observed PROVE OInv'
  <2>1. PICK x : Goto(w, x) /\ x.pc = "judged"
    BY <1>14 DEF RetryReminder, BeginReminder
  <2>2. Known(x)'
    BY <2>1 DEF Known
  <2> QED
    BY <1>14, <2>1, <2>2, PersonAside DEF RetryReminder, BeginReminder, rows, observed
<1> QED
  BY <1>4, <1>5, <1>6, <1>7, <1>8, <1>9, <1>10, <1>11, <1>12, <1>13, <1>14 DEF Operate

-----------------------------------------------------------------------------
(* The invariant of serve and the person together. *)

LEMMA OInvInit == ASSUME OInit PROVE OInv
<1>1. Typed(AllPositions, AllKinds)
  BY AllPositionsWide, TypedInit DEF OInit
<1>2. \A w \in Workers : wk[w].pc = "idle"
  BY DEF OInit, CInit, Idle
<1>3. resent \in [Payments -> 0..MaxResends] /\ orphaned = {}
  <2>1. 0 \in 0..MaxResends
    BY OperatorAssumption
  <2> QED
    BY <2>1 DEF OInit
<1>4. ASSUME NEW p \in Payments PROVE LinkInv(p)
  <2>1. status[Link(p)] = "absent" /\ rz[p] = "none" /\ outcome[p] = <<>>
    BY LinkIsRow DEF OInit, CInit
  <2> QED
    BY <2>1 DEF LinkInv, One, Booked, OutcomesOf, Parked
<1> QED
  BY <1>1, <1>2, <1>3, <1>4 DEF OInv, OTyped, Known, OperatorPcs, ServePcs, LinkPcs, StopPcs

LEMMA OStep ==
  ASSUME OInv, MonthsGoOn, OnePerson, OneServe, [ONext]_ovars
  PROVE  OInv'
<1>1. ASSUME NEW w \in Operators, Operate(w) PROVE OInv'
  BY <1>1, PersonTyped, PersonKnows DEF OInv
<1>2. CASE ServeSteps /\ UNCHANGED observed
  <2>1. ASSUME NEW w \in Workers, ReminderStep(w) PROVE OInv'
    BY <1>2, <2>1, ReminderTyped, ReminderKeeps DEF OInv
  <2>2. ASSUME NEW w \in Workers \ Operators, ServeStep(w) PROVE OInv'
    BY <1>2, <2>2, ServeTyped, ServeKeeps DEF OInv
  <2>3. ASSUME NEW w \in Workers \ Operators, Sweep(w) \/ Event(w) PROVE OInv'
    BY <2>1, <2>2, <2>3 DEF Sweep, SweepReminder, Event, ReminderStep, ServeStep, LinkWork
  <2>4. ASSUME NEW w \in Workers, Work(w) PROVE OInv'
    <3>1. CASE ReminderStep(w)
      BY <2>1, <3>1
    <3>2. CASE ~ReminderStep(w)
      <4>1. wk[w].pc \in LinkPcs /\ ServeStep(w)
        BY <2>4, <3>2 DEF Work, ReminderStep, ServeStep, LinkWork, RecordEnd, MarkOrder, VoidLink, StopLink,
           RecordStop, CloseLink, At, LinkPcs, StopPcs
      <4>2. w \notin Operators
        BY <4>1 DEF OInv, OTyped, ServePcs
      <4> QED
        BY <2>2, <4>1, <4>2
    <3> QED
      BY <3>1, <3>2
  <2> QED
    BY <1>2, <2>3, <2>4, WorldKeeps DEF ServeSteps
<1>3. CASE UNCHANGED ovars
  BY <1>3, WorldKeeps DEF ovars, observed
<1> QED
  BY <1>1, <1>2, <1>3, CrashKeeps DEF ONext

LEMMA OInvariant == ASSUME MonthsGoOn, OnePerson, OneServe PROVE OSpec => []OInv
<1>1. OInit => OInv
  BY OInvInit
<1>2. OInv /\ [ONext]_ovars => OInv'
  BY OStep
<1> QED
  BY <1>1, <1>2, PTL DEF OSpec

LEMMA AtMostOne ==
  ASSUME NEW S, \A i, j \in S : i = j
  PROVE  Cardinality(S) <= 1
<1>1. CASE S = {}
  BY <1>1, FS_EmptySet
<1>2. CASE S # {}
  <2>1. PICK i : i \in S
    BY <1>2
  <2>2. S = {i}
    BY <2>1
  <2>3. Cardinality({i}) = 1
    BY FS_Singleton
  <2> QED
    BY <2>2, <2>3
<1> QED
  BY <1>1, <1>2

LEMMA OInvImplies == ASSUME OInv PROVE OperatorTypeOK /\ RecoveredOnce /\ CancelledIsTrue
<1>1. OperatorTypeOK
  <2>1. ASSUME NEW p \in Payments PROVE OutcomesOf(p) \subseteq OutcomeKinds \cup {"forced"}
    <3>1. outcome[p] \in Seq(AllKinds)
      BY DEF OInv, OTyped, Typed
    <3> QED
      BY <3>1 DEF OutcomesOf, AllKinds
  <2>2. \A p \in Payments : "recovered" \in OutcomesOf(p) => status[Link(p)] = "human_queue" \/ p \in orphaned
    BY DEF OInv, LinkInv, Parked
  <2> QED
    BY <2>1, <2>2 DEF OperatorTypeOK, OInv, OTyped, Typed, AllPositions
<1>2. ASSUME NEW p \in Payments
      PROVE  /\ Cardinality(Booked(p, {"paid"})) <= 1
             /\ Cardinality(Booked(p, {"recovered"})) <= 1
             /\ p \notin orphaned => Cardinality(Booked(p, {"paid", "recovered"})) <= 1
  <2>1. LinkInv(p)
    BY DEF OInv
  <2>2. Cardinality(Booked(p, {"paid"})) <= 1 /\ Cardinality(Booked(p, {"recovered"})) <= 1
    BY <2>1, AtMostOne DEF LinkInv, One
  <2>3. ASSUME p \notin orphaned PROVE Cardinality(Booked(p, {"paid", "recovered"})) <= 1
    <3>1. "recovered" \notin OutcomesOf(p) \/ "paid" \notin OutcomesOf(p)
      BY <2>1, <2>3 DEF LinkInv
    <3>2. Booked(p, {"paid", "recovered"}) = Booked(p, {"paid"}) \/ Booked(p, {"paid", "recovered"}) = Booked(p, {"recovered"})
      BY <3>1 DEF Booked, OutcomesOf
    <3> QED
      BY <2>2, <3>2
  <2> QED
    BY <2>2, <2>3
<1> QED
  BY <1>1, <1>2 DEF RecoveredOnce, CancelledIsTrue, OInv, LinkInv

(* OperatorTypeOK beside serve: every variable holds a value the code can    *)
(* hold, and money a person booked is on a parked payment, unless a crash   *)
(* between ingest.py's two commits left that payment without an outcome.    *)
THEOREM OperatorTypeCorrect ==
  ASSUME MonthsGoOn, OnePerson, OneServe
  PROVE  OSpec => []OperatorTypeOK
BY OInvariant, OInvImplies, PTL

(* A payment is counted recovered once (actions.resolve reads the outcomes  *)
(* and writes its own in two commits, ingest.py reads them, then writes the  *)
(* paid one), and twice at most, once by each, when a crash lost the outcome *)
(* of a refused cancel: for one person beside serve and its lock.           *)
THEOREM BookedOnce ==
  ASSUME MonthsGoOn, OnePerson, OneServe
  PROVE  OSpec => []RecoveredOnce
BY OInvariant, OInvImplies, PTL

(* A job recorded cancelled has its link cancelled at Razorpay, whatever     *)
(* serve and the customer did between cancel_link's call and its commit, or *)
(* a person between serve's own.                                            *)
THEOREM CancelledForGood ==
  ASSUME MonthsGoOn, OnePerson, OneServe
  PROVE  OSpec => []CancelledIsTrue
BY OInvariant, OInvImplies, PTL

-----------------------------------------------------------------------------
(* The notify calls, with a person who retries and resends beside serve. *)

LEMMA PersonNotifies ==
  ASSUME OInv, NotifyInv, IsFiniteSet(Workers), NEW w \in Operators, Operate(w)
  PROVE  NotifyInv'
<1>1. /\ Typed(AllPositions, AllKinds) /\ Wide(AllPositions) /\ w \in Workers
      /\ DOMAIN wk = Workers /\ Idle \in AllPositions
  BY AllPositionsWide, OperatorAssumption, PositionsAre DEF OInv, OTyped, Typed, AllPositions
<1>2. ASSUME CallsNoMore(w), NoneFreed, UNCHANGED <<told, recovered>> PROVE NotifyInv'
  BY <1>1, <1>2, NotifyKept
<1>3. UNCHANGED status => NoneFreed
  BY DEF NoneFreed
<1>4. ASSUME NEW x, Goto(w, x), ~Calls(x) PROVE CallsNoMore(w)
  BY <1>1, <1>4, GotoCallsNoMore
<1>5. UNCHANGED wk \/ Done(w) => CallsNoMore(w)
  BY <1>1, DoneCallsNoMore, SameCallsNoMore
<1>6. ASSUME NEW p \in Payments, NEW force \in Forced, CommandResolve(w, p, force) PROVE NotifyInv'
  BY <1>2, <1>3, <1>5, <1>6 DEF CommandResolve
<1>7. ASSUME NEW p \in Payments, Resolve(w, p) PROVE NotifyInv'
  BY <1>2, <1>3, <1>4, <1>7 DEF Resolve, Calls, rows
<1>8. ASSUME NEW p \in Payments, BeginCancel(w, p) \/ BeginResend(w, p) PROVE NotifyInv'
  BY <1>2, <1>3, <1>4, <1>8 DEF BeginCancel, BeginResend, Calls, rows
<1>9. CASE RecordResolve(w) \/ CloseCancelled(w) \/ CallResend(w)
  BY <1>2, <1>3, <1>5, <1>9 DEF RecordResolve, CloseCancelled, CallResend, rows
<1>10. ASSUME NEW new \in {"cancelled", "closing"}, wk[w].pc \in OperatorPcs, Goto(w, [wk[w] EXCEPT !.pc = new])
       PROVE  CallsNoMore(w)
  <2>1. wk[w] \in OperatorPositions
    BY <1>1, <1>10, OperatorAt DEF Typed
  <2>2. [wk[w] EXCEPT !.pc = new].pc = new
    BY <2>1 DEF OperatorPositions
  <2> QED
    BY <1>4, <1>10, <2>2 DEF Calls
<1>11. CASE CallCancel(w)
  <2>1. CallsNoMore(w)
    BY <1>5, <1>10, <1>11 DEF CallCancel, At, OperatorPcs
  <2> QED
    BY <1>2, <1>3, <1>11, <2>1 DEF CallCancel, rows
<1>12. CASE RecordCancelled(w)
  <2>1. CallsNoMore(w)
    BY <1>10, <1>12 DEF RecordCancelled, At, OperatorPcs
  <2>2. NoneFreed
    BY <1>12, LinkFreesNone DEF RecordCancelled
  <2> QED
    BY <1>2, <1>12, <2>1, <2>2 DEF RecordCancelled
<1>13. ASSUME NEW p \in Payments, RetryLink(w, p) PROVE NotifyInv'
  <2>1. ~Calls(Idle)
    BY DEF Calls, Idle
  <2> QED
    BY <1>1, <1>13, <2>1, LinkStepNotifies DEF RetryLink
<1>14. ASSUME NEW r \in Reminders, RetryReminder(w, r) PROVE NotifyInv'
  BY <1>1, <1>14, ReminderStepNotifies DEF RetryReminder, ReminderStep
<1> QED
  BY <1>6, <1>7, <1>8, <1>9, <1>11, <1>12, <1>13, <1>14 DEF Operate

LEMMA BothNotify ==
  ASSUME OInv, NotifyInv, IsFiniteSet(Workers), [ONext]_ovars
  PROVE  NotifyInv'
<1>1. Typed(AllPositions, AllKinds) /\ Wide(AllPositions)
  BY AllPositionsWide DEF OInv, OTyped
<1>2. ASSUME NEW w \in Workers, Sweep(w) \/ Event(w) \/ Work(w) PROVE NotifyInv'
  <2>1. CASE ReminderStep(w)
    BY <1>1, <2>1, ReminderStepNotifies
  <2>2. CASE LinkWork(w) \/ \E p \in Payments : ScheduleLink(w, p)
    BY <1>1, <2>2, LinkStepNotifies
  <2>3. ASSUME NEW p \in Payments, SweepLink(w, p) PROVE NotifyInv'
    <3>1. PICK x : x = [pc |-> "remind", link |-> p, n |-> 1]
      OBVIOUS
    <3>2. x \in AllPositions /\ ~Calls(x)
      BY <3>1 DEF AllPositions, Positions, Calls
    <3> QED
      BY <1>1, <2>3, <3>1, <3>2, LinkStepNotifies DEF SweepLink
  <2> QED
    BY <1>2, <2>1, <2>2, <2>3 DEF Sweep, SweepReminder, Work, Event, ReminderStep, LinkWork
<1>3. CASE ServeSteps
  BY <1>1, <1>2, <1>3, WorldNotifies DEF ServeSteps
<1>4. CASE UNCHANGED ovars
  BY <1>1, <1>4, WorldNotifies DEF ovars
<1>5. ASSUME NEW w \in Workers, OperatorCrash(w) PROVE NotifyInv'
  BY <1>1, <1>5, WorldNotifies DEF OperatorCrash
<1> QED
  BY <1>3, <1>4, <1>5, PersonNotifies DEF ONext

(* OneNotifyPerClaim beside a person: neither retry_now, which may take a    *)
(* reminder that a sweep has judged, nor a cancel or a resend makes a       *)
(* customer hear a reminder twice on a medium.                              *)
THEOREM NotifiedOnceByBoth ==
  ASSUME MonthsGoOn, OnePerson, OneServe, IsFiniteSet(Workers)
  PROVE  OSpec => []OneNotifyPerClaim
<1>1. OInit => NotifyInv
  BY NotifyInit DEF OInit
<1>2. OInv /\ NotifyInv /\ [ONext]_ovars => NotifyInv'
  BY BothNotify
<1>3. OInv /\ NotifyInv => OneNotifyPerClaim
  BY NotifyImplies DEF OInv, OTyped
<1> QED
  BY <1>1, <1>2, <1>3, OInvariant, PTL DEF OSpec

=============================================================================
