--------------------------- MODULE Cadence_proofs ---------------------------
(***************************************************************************)
(* Theorems of Scheduling and Cadence: the hours a message may go out at,   *)
(* type correctness, and what a reminder promises its customer.            *)
(***************************************************************************)
EXTENDS Cadence, FiniteSetTheorems, TLAPS

-----------------------------------------------------------------------------
(* The clock. *)

\* next_allowed_send answers a time outside the quiet hours, never an earlier
\* one, and never more than twelve hours later.
THEOREM AllowedSend ==
  ASSUME NEW t \in Nat
  PROVE  /\ NextAllowedSend(t) \in Nat
         /\ ~WithinQuietHours(NextAllowedSend(t))
         /\ NextAllowedSend(t) >= t
         /\ NextAllowedSend(t) <= t + 12
<1> DEFINE d == t \div 24
           h == t % 24
<1>1. d \in Nat /\ h \in 0..23 /\ t = 24 * d + h
  BY SMT
<1>2. (24 * d + 9) % 24 = 9 /\ (24 * (d + 1) + 9) % 24 = 9
  BY <1>1, SMT
<1>3. QED
  BY <1>1, <1>2, SMT DEF NextAllowedSend, WithinQuietHours, Hour, Day, QuietStartHour, QuietEndHour

(* The next send does not move back as time passes. *)
LEMMA AllowedSendIsMonotone ==
  ASSUME NEW s \in Nat, NEW t \in Nat, s <= t
  PROVE  NextAllowedSend(s) <= NextAllowedSend(t)
<1> DEFINE d == s \div 24
           h == s % 24
           e == t \div 24
           k == t % 24
<1>1. d \in Nat /\ h \in 0..23 /\ s = 24 * d + h
  BY SMT
<1>2. e \in Nat /\ k \in 0..23 /\ t = 24 * e + k
  BY SMT
<1>3. d < e \/ (d = e /\ h <= k)
  BY <1>1, <1>2, SMT
<1>4. /\ WithinQuietHours(s) <=> h >= 21 \/ h < 9
      /\ WithinQuietHours(t) <=> k >= 21 \/ k < 9
  BY DEF WithinQuietHours, Hour, QuietStartHour, QuietEndHour
<1>5. /\ NextAllowedSend(s) = IF ~WithinQuietHours(s) THEN s
                              ELSE IF h >= 21 THEN 24 * (d + 1) + 9 ELSE 24 * d + 9
      /\ NextAllowedSend(t) = IF ~WithinQuietHours(t) THEN t
                              ELSE IF k >= 21 THEN 24 * (e + 1) + 9 ELSE 24 * e + 9
  BY DEF NextAllowedSend, Hour, Day, QuietStartHour, QuietEndHour
<1> HIDE DEF d, h, e, k
<1> QED
  BY <1>1, <1>2, <1>3, <1>4, <1>5, SMT

(* A set of days has a first one: the member with the fewest before it. *)
LEMMA FirstDay ==
  ASSUME NEW T \in SUBSET Nat, T # {}
  PROVE  Min(T) \in T
<1> DEFINE Before(x) == {y \in T : y < x}
<1>1. PICK n \in T : TRUE
  OBVIOUS
<1> DEFINE Early == {x \in T : x <= n}
           F == {Before(x) : x \in Early}
<1>2. IsFiniteSet(Early) /\ n \in Early
  BY <1>1, FS_BoundedSetOfNaturals
<1>3. \A x \in Early : Before(x) \in FiniteSubsetsOf(Early) /\ Before(x) \in SUBSET Early
  <2> SUFFICES ASSUME NEW x \in Early
               PROVE Before(x) \in FiniteSubsetsOf(Early) /\ Before(x) \in SUBSET Early
    OBVIOUS
  <2>1. Before(x) \subseteq Early
    <3>1. n \in Nat /\ x \in Nat /\ x <= n /\ T \subseteq Nat
      BY <1>1
    <3>2. \A y \in T : y < x => y <= n
      BY <3>1
    <3> QED
      BY <3>2
  <2> QED
    BY <2>1, <1>2, FS_Subset DEF FiniteSubsetsOf
<1>4. PICK U \in F : \A V \in F : ~(<<V, U>> \in StrictSubsetOrdering(Early))
  <2>1. F \subseteq FiniteSubsetsOf(Early) /\ F # {}
    BY <1>2, <1>3
  <2> QED
    BY <2>1, <1>2, FS_StrictSubsetOrderingWellFounded, WFMin
<1>5. PICK x \in Early : U = Before(x)
  OBVIOUS
<1>6. \A y \in Early : ~(y < x)
  <2> SUFFICES ASSUME NEW y \in Early, y < x PROVE FALSE
    OBVIOUS
  <2>1. Before(y) \subseteq Before(x) /\ y \in Before(x) /\ y \notin Before(y)
    <3>1. x \in Nat /\ y \in Nat /\ T \subseteq Nat
      OBVIOUS
    <3>2. \A z \in T : z < y => z < x
      BY <3>1
    <3>3. ~(y < y)
      BY <3>1
    <3> QED
      BY <3>2, <3>3
  <2>2. Before(y) \in F /\ Before(x) \in SUBSET Early /\ Before(y) \in SUBSET Early
    BY <1>3
  <2>3. <<Before(y), U>> \in StrictSubsetOrdering(Early)
    <3> HIDE DEF Before
    <3> QED
      BY <2>1, <2>2, <1>5 DEF StrictSubsetOrdering
  <2> QED
    BY <2>2, <2>3, <1>4
<1>7. x \in T /\ \A y \in T : x =< y
  BY <1>1, <1>6
<1> QED
  BY <1>7 DEF Min

(* The calendar the theorems below need: months go on past every failure.  *)
MonthsGoOn == \A p \in Payments : \E m \in MonthStarts : m > Day(Arrival[p] + Delay[p])

LEMMA SendTimeType ==
  ASSUME MonthsGoOn, NEW p \in Payments
  PROVE  AdjustSendTime(Arrival[p] + Delay[p], Class[p]) \in Nat
<1> DEFINE t == Arrival[p] + Delay[p]
<1>1. t \in Nat
  BY CadenceAssumption
<1>2. FirstOfNextMonth(t) \in Nat
  <2>1. {m \in MonthStarts : m > Day(t)} \in SUBSET Nat /\ {m \in MonthStarts : m > Day(t)} # {}
    BY CalendarAssumption DEF MonthsGoOn
  <2> QED
    BY <2>1, FirstDay DEF FirstOfNextMonth
<1>3. NextSalaryWindow(t) \in Nat
  <2> DEFINE u == 24 * (FirstOfNextMonth(t) + SalaryWindowDay - 1) + SalaryWindowHour
  <2>1. u \in Nat
    BY <1>2, CalendarAssumption, SMT DEF SalaryWindowHour
  <2>2. \E x \in {t, u} : \A y \in {t, u} : x >= y
    BY <1>1, <2>1
  <2>3. Max({t, u}) \in {t, u}
    BY <2>2 DEF Max
  <2> QED
    BY <1>1, <2>1, <2>3 DEF NextSalaryWindow
<1> QED
  BY <1>1, <1>3, AllowedSend DEF AdjustSendTime

-----------------------------------------------------------------------------
(* The rows. *)

LEMMA OffsetsAre ==
  ASSUME NEW p \in Payments
  PROVE  /\ Len(Offsets(p)) \in 1..2
         /\ \A n \in 1..Len(Offsets(p)) : Offsets(p)[n] \in Nat
<1>1. Class[p] \in DOMAIN ReminderOffsets
  BY CadenceAssumption
<1>2. Offsets(p) \in {<<24, 60>>, <<2, 24>>, <<24>>}
  BY <1>1 DEF Offsets, ReminderOffsets
<1> QED
  BY <1>2

LEMMA LinkIsRow ==
  ASSUME NEW p \in Payments
  PROVE  Link(p) \in Rows /\ Payment(Link(p)) = p
BY DEF Link, Payment, Rows, Links

LEMMA ReminderIsRow ==
  ASSUME NEW r \in Reminders
  PROVE  /\ r \in Rows
         /\ Payment(r) \in Payments
         /\ r[2] \in 1..Len(Offsets(Payment(r)))
         /\ \A p : r # Link(p)
<1>1. PICK p \in Payments : r \in {p} \X (1..Len(Offsets(p)))
  BY DEF Reminders
<1>2. Len(Offsets(p)) \in 1..2
  BY OffsetsAre
<1>3. r = <<r[1], r[2]>> /\ r[1] = p /\ r[2] \in 1..Len(Offsets(p)) /\ r[2] # 0
  BY <1>1, <1>2
<1>4. \A q : r # Link(q)
  BY <1>3 DEF Link
<1> QED
  BY <1>3, <1>4 DEF Rows, Payment

LEMMA ReminderOf ==
  ASSUME NEW p \in Payments, NEW n \in 1..Len(Offsets(p))
  PROVE  <<p, n>> \in Reminders /\ Payment(<<p, n>>) = p
BY DEF Reminders, Payment

LEMMA RowIsOne ==
  ASSUME NEW r \in Rows
  PROVE  r \in Reminders \/ \E p \in Payments : r = Link(p)
BY DEF Rows, Links, Link

-----------------------------------------------------------------------------
(* Type correctness, for positions P that contain those of Cadence and      *)
(* outcomes K that contain its kinds: Operator has more of both.            *)

RemindPos == [pc : {"remind"}, link : Payments, n : 1..3]
JudgedPos == [pc : {"judged"}, row : Reminders, now : Nat, verdict : Verdicts]
CallPos == [pc : {"fetch", "notify"}, row : Reminders, now : Nat, open : BOOLEAN, blind : BOOLEAN,
            left : SUBSET AllMedia, got : BOOLEAN]
VoidPos == [pc : {"void"}, link : Payments, order : BOOLEAN]
ResultPos == [pc : {"end", "close"}, link : Payments, kind : OutcomeKinds]
StopPos == [pc : {"mark", "withdraw", "stop", "stopped", "parked"}, link : Payments]

StopPcs == {"mark", "withdraw", "stop", "stopped", "parked"}
LinkPcs == StopPcs \cup {"end", "close"}
CadencePcs == {"idle", "remind", "judged", "fetch", "notify", "void"} \cup LinkPcs

Wide(P) == Positions \subseteq P /\ \A x \in P : x.pc \in CadencePcs => x \in Positions

Typed(P, K) ==
  /\ clock \in Nat
  /\ setting \in Settings
  /\ status \in [Rows -> RowStatuses]
  /\ at \in [Rows -> Nat]
  /\ done \in [Rows -> Nat]
  /\ outcome \in [Payments -> Seq(K)]
  /\ orderPaid \subseteq Payments
  /\ rz \in [Payments -> {"none", "open", "paid", "cancelled"}]
  /\ DOMAIN told = Reminders
  /\ \A r \in Reminders : told[r] \in [Media[Payment(r)] -> Nat]
  /\ recovered \in [Reminders -> Nat]
  /\ crashes \in Nat
  /\ wk \in [Workers -> P]

LEMMA PositionsWide == Wide(Positions)
BY DEF Wide

LEMMA PositionAt ==
  ASSUME NEW P, NEW x \in P, Wide(P)
  PROVE  /\ x.pc = "idle" => x = Idle
         /\ x.pc = "remind" => x \in RemindPos
         /\ x.pc = "judged" => x \in JudgedPos
         /\ x.pc \in {"fetch", "notify"} => x \in CallPos
         /\ x.pc = "void" => x \in VoidPos
         /\ x.pc \in {"end", "close"} => x \in ResultPos
         /\ x.pc \in StopPcs => x \in StopPos
<1>1. x.pc \in CadencePcs => x \in Positions
  BY DEF Wide
<1>2. ASSUME x \in Positions
      PROVE  \/ x = Idle \/ x \in RemindPos \/ x \in JudgedPos \/ x \in CallPos \/ x \in VoidPos
             \/ x \in ResultPos \/ x \in StopPos
  BY <1>2 DEF Positions, RemindPos, JudgedPos, CallPos, VoidPos, ResultPos, StopPos
<1>3. /\ Idle.pc = "idle"
      /\ x \in RemindPos => x.pc = "remind"
      /\ x \in JudgedPos => x.pc = "judged"
      /\ x \in CallPos => x.pc \in {"fetch", "notify"}
      /\ x \in VoidPos => x.pc = "void"
      /\ x \in ResultPos => x.pc \in {"end", "close"}
      /\ x \in StopPos => x.pc \in StopPcs
  BY DEF Idle, RemindPos, JudgedPos, CallPos, VoidPos, ResultPos, StopPos, StopPcs
<1> QED
  BY <1>1, <1>2, <1>3 DEF CadencePcs, LinkPcs, StopPcs

LEMMA PositionsAre ==
  /\ Idle \in Positions
  /\ RemindPos \cup JudgedPos \cup CallPos \cup VoidPos \cup ResultPos \cup StopPos \subseteq Positions
BY DEF Positions, RemindPos, JudgedPos, CallPos, VoidPos, ResultPos, StopPos


LEMMA CommitType ==
  ASSUME NEW P, NEW K, Typed(P, K), NEW r \in Rows, NEW new \in RowStatuses, NEW when \in Nat,
         Commit(r, new, when)
  PROVE  status' \in [Rows -> RowStatuses] /\ done' \in [Rows -> Nat]
<1>1. status \in [Rows -> RowStatuses] /\ done \in [Rows -> Nat]
  BY DEF Typed
<1>2. \A x : (IF new \in {"sent", "shadow"} THEN when ELSE done[x]) \in {when, done[x]}
  OBVIOUS
<1> QED
  BY <1>1, <1>2 DEF Commit

LEMMA RowTyped ==
  ASSUME NEW P, NEW K, Typed(P, K), NEW r \in Rows, NEW new \in RowStatuses
  PROVE  [status EXCEPT ![r] = new] \in [Rows -> RowStatuses]
BY DEF Typed

LEMMA OutcomeTyped ==
  ASSUME NEW P, NEW K, Typed(P, K), NEW p \in Payments, NEW kind \in K, RecordOutcome(p, kind)
  PROVE  outcome' \in [Payments -> Seq(K)]
<1>1. outcome \in [Payments -> Seq(K)] /\ Append(outcome[p], kind) \in Seq(K)
  BY DEF Typed
<1> QED
  BY <1>1 DEF RecordOutcome

LEMMA MoveTyped ==
  ASSUME NEW P, NEW K, Typed(P, K), NEW w \in Workers, NEW x \in P, Goto(w, x)
  PROVE  wk' \in [Workers -> P]
BY DEF Typed, Goto

LEMMA DoneTyped ==
  ASSUME NEW P, NEW K, Typed(P, K), Wide(P), NEW w \in Workers, Done(w)
  PROVE  wk' \in [Workers -> P]
BY PositionsAre, MoveTyped DEF Wide, Done

LEMMA TypedInit ==
  ASSUME NEW P, NEW K, Wide(P), CInit
  PROVE  Typed(P, K)
<1>1. Start \in Nat /\ Idle \in P
  BY CadenceAssumption, PositionsAre DEF Wide
<1>2. \A r \in Reminders : Payment(r) = r[1]
  BY DEF Payment
<1> QED
  BY <1>1, <1>2 DEF CInit, Typed, RowStatuses

LEMMA ScheduleLinkType ==
  ASSUME NEW P, NEW K, Typed(P, K), OutcomeKinds \subseteq K, MonthsGoOn, NEW w \in Workers,
         NEW p \in Payments, ScheduleLink(w, p)
  PROVE  Typed(P, K)'
<1>1. ScheduledStatus(p) \in RowStatuses
  BY DEF ScheduledStatus, RowStatuses
<1>2. status' \in [Rows -> RowStatuses]
  BY <1>1, LinkIsRow, RowTyped DEF ScheduleLink
<1>3. at' \in [Rows -> Nat]
  <2> DEFINE v == IF ScheduledStatus(p) = "pending" THEN AdjustSendTime(clock + Delay[p], Class[p]) ELSE clock
  <2>1. v \in Nat
    BY SendTimeType DEF ScheduleLink, Typed
  <2>2. at' = [at EXCEPT ![Link(p)] = v]
    BY DEF ScheduleLink
  <2> HIDE DEF v
  <2> QED
    BY <2>1, <2>2 DEF Typed
<1>4. outcome' \in [Payments -> Seq(K)]
  <2>1. CASE UNCHANGED outcome
    BY <2>1 DEF Typed
  <2>2. CASE RecordOutcome(p, "stopped") \/ RecordOutcome(p, "parked")
    BY <2>2, OutcomeTyped DEF OutcomeKinds
  <2> QED
    BY <2>1, <2>2 DEF ScheduleLink
<1> QED
  BY <1>2, <1>3, <1>4 DEF ScheduleLink, Typed

LEMMA ExecuteLinkType ==
  ASSUME NEW P, NEW K, Typed(P, K), OutcomeKinds \subseteq K, NEW w \in Workers, NEW p \in Payments,
         NEW next \in P, ExecuteLink(w, p, next)
  PROVE  Typed(P, K)'
<1>1. clock \in Nat /\ Link(p) \in Rows
  BY LinkIsRow DEF Typed
<1>2. PICK new \in RowStatuses : Commit(Link(p), new, clock)
  BY DEF ExecuteLink, RowStatuses
<1>3. status' \in [Rows -> RowStatuses] /\ done' \in [Rows -> Nat]
  BY <1>1, <1>2, CommitType
<1>4. outcome' \in [Payments -> Seq(K)]
  <2>1. CASE UNCHANGED outcome
    BY <2>1 DEF Typed
  <2>2. CASE RecordOutcome(p, "stopped") \/ RecordOutcome(p, "parked")
    BY <2>2, OutcomeTyped DEF OutcomeKinds
  <2> QED
    BY <2>1, <2>2 DEF ExecuteLink
<1>5. wk' \in [Workers -> P]
  <2>1. CASE UNCHANGED wk
    BY <2>1 DEF Typed
  <2>2. CASE Goto(w, next)
    BY <2>2, MoveTyped
  <2> QED
    BY <2>1, <2>2 DEF ExecuteLink
<1>6. rz' \in [Payments -> {"none", "open", "paid", "cancelled"}]
  BY DEF ExecuteLink, Typed
<1> QED
  BY <1>3, <1>4, <1>5, <1>6 DEF ExecuteLink, Typed

LEMMA SweepLinkType ==
  ASSUME NEW P, NEW K, Typed(P, K), Wide(P), OutcomeKinds \subseteq K, NEW w \in Workers,
         NEW p \in Payments, SweepLink(w, p)
  PROVE  Typed(P, K)'
<1>1. [pc |-> "remind", link |-> p, n |-> 1] \in P
  BY PositionsAre DEF RemindPos, Wide
<1> QED
  BY <1>1, ExecuteLinkType DEF SweepLink

LEMMA ScheduleReminderType ==
  ASSUME NEW P, NEW K, Typed(P, K), Wide(P), NEW w \in Workers, ScheduleReminder(w)
  PROVE  Typed(P, K)'
<1> DEFINE p == wk[w].link
           n == wk[w].n
           r == <<p, n>>
<1>1. wk[w] \in P /\ wk[w] \in RemindPos
  BY PositionAt DEF Typed, ScheduleReminder, At
<1>2. p \in Payments /\ n \in 1..3
  BY <1>1 DEF RemindPos
<1>3. CASE NoReminders(p) \/ n > Len(Offsets(p))
  BY <1>3, DoneTyped DEF ScheduleReminder, Typed
<1>4. CASE ~(NoReminders(p) \/ n > Len(Offsets(p)))
  <2>1. Len(Offsets(p)) \in 1..2 /\ n \in 1..Len(Offsets(p))
    BY <1>2, <1>4, OffsetsAre
  <2>2. r \in Rows /\ Offsets(p)[n] \in Nat
    BY <1>2, <2>1, ReminderOf, ReminderIsRow, OffsetsAre
  <2>3. [wk[w] EXCEPT !.n = n + 1] \in P
    <3>1. n + 1 \in 1..3
      <4>1. \A k \in 1..2 : \A m \in 1..k : m + 1 \in 1..3
        BY SMT
      <4> QED
        BY <2>1, <4>1, Zenon
    <3>2. [wk[w] EXCEPT !.n = n + 1] \in RemindPos
      <4> DEFINE x == wk[w]
                 m == n + 1
      <4> HIDE DEF x, m
      <4>1. x \in RemindPos /\ m \in 1..3 => [x EXCEPT !.n = m] \in RemindPos
        BY DEF RemindPos
      <4> QED
        BY <1>1, <3>1, <4>1 DEF x, m
    <3> QED
      BY <3>2, PositionsAre DEF Wide
  <2>4. wk' \in [Workers -> P]
    BY <1>4, <2>3, MoveTyped DEF ScheduleReminder
  <2>5. ReminderTime(p, n) \in Nat
    <3>1. done[Link(p)] + Offsets(p)[n] \in Nat
      BY <1>2, <2>2, LinkIsRow DEF Typed
    <3> QED
      BY <3>1, AllowedSend DEF ReminderTime
  <2>6. MintedStatus(p) \in RowStatuses
    BY DEF MintedStatus, RowStatuses
  <2>7. CASE UNCHANGED <<status, at, done>>
    BY <2>4, <2>7 DEF ScheduleReminder, Typed
  <2>8. CASE /\ status' = [status EXCEPT ![r] = MintedStatus(p)]
             /\ at' = [at EXCEPT ![r] = IF ~CapAllows(p, clock) THEN clock ELSE ReminderTime(p, n)]
             /\ done' = [done EXCEPT ![r] = IF MintedStatus(p) = "shadow" THEN clock ELSE 0]
    <3>1. /\ (IF ~CapAllows(p, clock) THEN clock ELSE ReminderTime(p, n)) \in Nat
          /\ (IF MintedStatus(p) = "shadow" THEN clock ELSE 0) \in Nat
      BY <2>5 DEF Typed
    <3>2. at' \in [Rows -> Nat] /\ done' \in [Rows -> Nat] /\ status' \in [Rows -> RowStatuses]
      BY <2>2, <2>6, <2>8, <3>1 DEF Typed
    <3> QED
      BY <2>4, <3>2 DEF ScheduleReminder, Typed
  <2> QED
    BY <1>4, <2>7, <2>8 DEF ScheduleReminder
<1> QED
  BY <1>3, <1>4


LEMMA VerdictType == ASSUME NEW p, NEW now PROVE Verdict(p, now) \in Verdicts
BY DEF Verdict, Verdicts

LEMMA BeginReminderType ==
  ASSUME NEW P, NEW K, Typed(P, K), Wide(P), NEW w \in Workers, NEW r \in Reminders, BeginReminder(w, r)
  PROVE  Typed(P, K)'
<1>1. [pc |-> "judged", row |-> r, now |-> clock, verdict |-> Verdict(Payment(r), clock)] \in JudgedPos
  BY VerdictType DEF JudgedPos, Typed
<1>2. wk' \in [Workers -> P]
  BY <1>1, PositionsAre, MoveTyped DEF BeginReminder, Wide
<1> QED
  BY <1>2 DEF BeginReminder, rows, Typed

LEMMA SettleReminderType ==
  ASSUME NEW P, NEW K, Typed(P, K), Wide(P), NEW w \in Workers, SettleReminder(w)
  PROVE  Typed(P, K)'
<1>1. wk[w] \in JudgedPos
  BY PositionAt DEF Typed, SettleReminder, At
<1>2. /\ wk[w].row \in Rows /\ wk[w].now \in Nat
      /\ wk[w].verdict \in Verdicts /\ wk[w].verdict # "executing"
  BY <1>1, ReminderIsRow DEF JudgedPos, SettleReminder
<1>3. wk' \in [Workers -> P]
  BY DoneTyped DEF SettleReminder
<1>4. CASE wk[w].verdict = "pending"
  <2>1. NextAllowedSend(wk[w].now) \in Nat
    BY <1>2, AllowedSend
  <2>2. at' = [at EXCEPT ![wk[w].row] = NextAllowedSend(wk[w].now)] /\ UNCHANGED <<status, done>>
    BY <1>4 DEF SettleReminder
  <2> QED
    BY <1>2, <1>3, <2>1, <2>2 DEF SettleReminder, Typed
<1>5. CASE wk[w].verdict # "pending"
  <2>1. wk[w].verdict \in RowStatuses
    BY <1>2 DEF Verdicts, RowStatuses
  <2>2. Commit(wk[w].row, wk[w].verdict, wk[w].now) /\ UNCHANGED at
    BY <1>5 DEF SettleReminder
  <2>3. status' \in [Rows -> RowStatuses] /\ done' \in [Rows -> Nat]
    BY <1>2, <2>1, <2>2, CommitType
  <2> QED
    BY <1>3, <2>2, <2>3 DEF SettleReminder, Typed
<1> QED
  BY <1>4, <1>5

(* The position of a worker that has claimed row r. *)
Called(r, now) ==
  [pc |-> "fetch", row |-> r, now |-> now, open |-> ~ClosedAtRazorpay(Payment(r)), blind |-> FALSE,
   left |-> Media[Payment(r)], got |-> FALSE]

LEMMA CalledType ==
  ASSUME NEW r \in Reminders, NEW now \in Nat
  PROVE  Called(r, now) \in CallPos
<1>1. Media[Payment(r)] \in SUBSET AllMedia
  BY CadenceAssumption, ReminderIsRow
<1>2. (~ClosedAtRazorpay(Payment(r))) \in BOOLEAN
  BY DEF ClosedAtRazorpay
<1> QED
  BY <1>1, <1>2, Zenon DEF Called, CallPos

LEMMA ClaimReminderType ==
  ASSUME NEW P, NEW K, Typed(P, K), Wide(P), NEW w \in Workers, ClaimReminder(w)
  PROVE  Typed(P, K)'
<1> DEFINE r == wk[w].row
           now == wk[w].now
<1>1. wk[w] \in JudgedPos
  BY PositionAt DEF Typed, ClaimReminder, At
<1>2. r \in Reminders /\ r \in Rows /\ now \in Nat
  BY <1>1, ReminderIsRow DEF JudgedPos
<1>3. CASE Commit(r, "executing", now) /\ Goto(w, Called(r, now))
  <2>1. wk' \in [Workers -> P]
    BY <1>2, <1>3, CalledType, PositionsAre, MoveTyped DEF Wide
  <2>2. status' \in [Rows -> RowStatuses] /\ done' \in [Rows -> Nat]
    BY <1>2, <1>3, CommitType DEF RowStatuses
  <2> QED
    BY <2>1, <2>2 DEF ClaimReminder, Typed
<1>4. CASE Done(w) /\ UNCHANGED <<status, done>>
  BY <1>4, DoneTyped DEF ClaimReminder, Typed
<1> QED
  BY <1>3, <1>4 DEF ClaimReminder, Called

LEMMA FetchLinkType ==
  ASSUME NEW P, NEW K, Typed(P, K), Wide(P), NEW w \in Workers, FetchLink(w)
  PROVE  Typed(P, K)'
<1>1. wk[w] \in CallPos
  BY PositionAt DEF Typed, FetchLink, At
<1>2. wk[w].row \in Rows /\ wk[w].now \in Nat
  BY <1>1, ReminderIsRow DEF CallPos
<1>3. CASE Commit(wk[w].row, "no_action", wk[w].now) /\ Done(w)
  <2>1. status' \in [Rows -> RowStatuses] /\ done' \in [Rows -> Nat]
    BY <1>2, <1>3, CommitType DEF RowStatuses
  <2> QED
    BY <1>3, <2>1, DoneTyped DEF FetchLink, Typed
<1>4. CASE Goto(w, [wk[w] EXCEPT !.pc = "notify"]) /\ UNCHANGED <<status, done>>
  <2>1. [wk[w] EXCEPT !.pc = "notify"] \in P
    BY <1>1, PositionsAre DEF CallPos, Wide
  <2> QED
    BY <1>4, <2>1, MoveTyped DEF FetchLink, Typed
<1>5. CASE Goto(w, [wk[w] EXCEPT !.pc = "notify", !.blind = TRUE]) /\ UNCHANGED <<status, done>>
  <2>1. [wk[w] EXCEPT !.pc = "notify", !.blind = TRUE] \in CallPos
    BY <1>1, Zenon DEF CallPos
  <2> QED
    BY <1>5, <2>1, PositionsAre, MoveTyped DEF FetchLink, Typed, Wide
<1> QED
  BY <1>3, <1>4, <1>5 DEF FetchLink

(* The medium of the next call. *)
NextMedium(w) == IF "sms" \in wk[w].left THEN "sms" ELSE "email"

LEMMA NotifyLinkType ==
  ASSUME NEW P, NEW K, Typed(P, K), Wide(P), NEW w \in Workers, NotifyLink(w)
  PROVE  Typed(P, K)'
<1> DEFINE m == NextMedium(w)
           asked == [wk[w] EXCEPT !.left = @ \ {m}]
           r == wk[w].row
<1>1. wk[w] \in CallPos
  BY PositionAt DEF Typed, NotifyLink, At
<1>2. asked \in CallPos /\ [asked EXCEPT !.got = TRUE] \in CallPos
  BY <1>1 DEF CallPos
<1>3. wk' \in [Workers -> P]
  BY <1>2, PositionsAre, MoveTyped DEF NotifyLink, Wide, NextMedium
<1>4. r \in Reminders /\ \A s \in Reminders : told[s] \in [Media[Payment(s)] -> Nat]
  BY <1>1 DEF CallPos, Typed
<1>5. CASE UNCHANGED told
  BY <1>3, <1>5 DEF NotifyLink, rows, Typed
<1>6. CASE told' = [told EXCEPT ![r][m] = @ + 1]
  <2>1. DOMAIN told' = Reminders
    BY <1>6 DEF Typed
  <2>2. \A s \in Reminders : s # r => told'[s] = told[s]
    BY <1>6 DEF Typed
  <2>3. told'[r] = [told[r] EXCEPT ![m] = told[r][m] + 1]
    BY <1>4, <1>6 DEF Typed
  <2>4. told'[r] \in [Media[Payment(r)] -> Nat]
    <3> DEFINE f == told[r]
               S == Media[Payment(r)]
    <3>1. f \in [S -> Nat]
      BY <1>4
    <3> HIDE DEF f, S, m
    <3>2. [f EXCEPT ![m] = f[m] + 1] \in [S -> Nat]
      <4>1. CASE m \in S
        <5>1. f[m] + 1 \in Nat
          BY <3>1, <4>1
        <5> QED
          BY <3>1, <5>1
      <4>2. CASE m \notin S
        BY <3>1, <4>2
      <4> QED
        BY <4>1, <4>2
    <3> QED
      BY <2>3, <3>2 DEF f, S
  <2>5. \A s \in Reminders : told'[s] \in [Media[Payment(s)] -> Nat]
    BY <1>4, <2>2, <2>4
  <2> QED
    BY <1>3, <2>1, <2>5 DEF NotifyLink, rows, Typed
<1> QED
  BY <1>5, <1>6 DEF NotifyLink, NextMedium


LEMMA FinishReminderType ==
  ASSUME NEW P, NEW K, Typed(P, K), Wide(P), NEW w \in Workers, FinishReminder(w)
  PROVE  Typed(P, K)'
<1>1. wk[w] \in CallPos
  BY PositionAt DEF Typed, FinishReminder, At
<1>2. wk[w].row \in Rows /\ wk[w].now \in Nat
  BY <1>1, ReminderIsRow DEF CallPos
<1>3. (IF wk[w].got THEN "sent" ELSE "failed") \in RowStatuses
  BY DEF RowStatuses
<1>4. status' \in [Rows -> RowStatuses] /\ done' \in [Rows -> Nat]
  BY <1>2, <1>3, CommitType DEF FinishReminder
<1> QED
  BY <1>4, DoneTyped DEF FinishReminder, Typed

LEMMA RecoverReminderType ==
  ASSUME NEW P, NEW K, Typed(P, K), NEW w \in Workers, NEW r \in Reminders, RecoverReminder(w, r)
  PROVE  Typed(P, K)'
<1>1. status' \in [Rows -> RowStatuses]
  BY ReminderIsRow, RowTyped DEF RecoverReminder, RowStatuses
<1>2. recovered' \in [Reminders -> Nat]
  <2>1. recovered[r] + 1 \in Nat
    BY DEF Typed
  <2> QED
    BY <2>1 DEF RecoverReminder, Typed
<1> QED
  BY <1>1, <1>2 DEF RecoverReminder, Typed

(* A worker is settling a link: it has learnt of its end, or stops it for a *)
(* paid order.                                                             *)
LinkWork(w) ==
  \/ RecordEnd(w) \/ MarkOrder(w) \/ VoidLink(w) \/ StopLink(w) \/ RecordStop(w) \/ CloseLink(w)
  \/ \E p \in Payments : LearnEnd(w, p) \/ RecordOrderPaid(w, p)

(* What such a step changes: the status and the outcome of one link, which   *)
(* is out by then, and the position of the worker.                          *)
LinkWorkOf(w, p) ==
  /\ \/ UNCHANGED status
     \/ \E new \in {"sent", "no_action", "cancelled", "human_queue"} : status' = [status EXCEPT ![Link(p)] = new]
  /\ UNCHANGED outcome \/ \E kind \in OutcomeKinds : RecordOutcome(p, kind)
  /\ UNCHANGED rz \/ rz' = [rz EXCEPT ![p] = "cancelled"]
  /\ UNCHANGED orderPaid \/ orderPaid' = orderPaid \cup {p}
  /\ \E x \in Positions : Goto(w, x) /\ x.pc \in LinkPcs \cup {"void", "idle"}
  /\ UNCHANGED <<clock, setting, at, done, told, recovered, crashes>>

LEMMA LinkWorkIs ==
  ASSUME NEW P, NEW K, Typed(P, K), Wide(P), NEW w \in Workers, LinkWork(w)
  PROVE  \E p \in Payments : LinkWorkOf(w, p)
<1>1. wk[w] \in P /\ status \in [Rows -> RowStatuses] /\ done \in [Rows -> Nat]
  BY DEF Typed
<1>2. \A x \in VoidPos \cup ResultPos \cup StopPos \cup {Idle} :
        x \in Positions /\ x.pc \in LinkPcs \cup {"void", "idle"}
  BY PositionsAre DEF VoidPos, ResultPos, StopPos, LinkPcs, StopPcs, Idle
<1>3. ASSUME NEW x, x \in VoidPos \cup ResultPos \cup StopPos \cup {Idle}, Goto(w, x)
      PROVE  \E y \in Positions : Goto(w, y) /\ y.pc \in LinkPcs \cup {"void", "idle"}
  BY <1>2, <1>3
<1>4. ASSUME NEW p \in Payments
      PROVE  /\ \A order \in BOOLEAN : [pc |-> "void", link |-> p, order |-> order] \in VoidPos
             /\ \A pc \in {"end", "close"}, kind \in OutcomeKinds : [pc |-> pc, link |-> p, kind |-> kind] \in ResultPos
             /\ \A pc \in StopPcs : [pc |-> pc, link |-> p] \in StopPos
  BY <1>4 DEF VoidPos, ResultPos, StopPos, StopPcs
<1>5. {"paid", "ended", "stopped", "cancelled", "parked"} \subseteq OutcomeKinds
  BY DEF OutcomeKinds
<1>6. CASE RecordEnd(w)
  <2>1. wk[w] \in ResultPos /\ wk[w].link \in Payments /\ wk[w].kind \in OutcomeKinds
    BY <1>1, <1>6, PositionAt DEF RecordEnd, At, ResultPos
  <2>2. PICK p \in Payments : p = wk[w].link
    BY <2>1
  <2>3. \/ Goto(w, [pc |-> "mark", link |-> p])
        \/ Goto(w, [pc |-> "void", link |-> p, order |-> FALSE])
    BY <1>6, <2>2 DEF RecordEnd
  <2>4. \E x \in Positions : Goto(w, x) /\ x.pc \in LinkPcs \cup {"void", "idle"}
    BY <1>3, <1>4, <2>3 DEF StopPcs
  <2>5. UNCHANGED status \/ status' = [status EXCEPT ![Link(p)] = "sent"]
    <3>1. CASE wk[w].kind = "paid"
      BY <1>6, <2>2, <3>1 DEF RecordEnd
    <3>2. CASE wk[w].kind # "paid"
      BY <1>1, <1>6, <2>2, <3>2 DEF RecordEnd
    <3> QED
      BY <3>1, <3>2
  <2> QED
    BY <1>6, <2>1, <2>2, <2>4, <2>5 DEF RecordEnd, LinkWorkOf
<1>7. ASSUME NEW p \in Payments, SettleOrder(w, p) PROVE LinkWorkOf(w, p)
  <2>1. \E x \in Positions : Goto(w, x) /\ x.pc \in LinkPcs \cup {"void", "idle"}
    BY <1>3, <1>4, <1>7 DEF SettleOrder
  <2> QED
    BY <1>7, <2>1 DEF SettleOrder, LinkWorkOf
<1>8. CASE MarkOrder(w)
  <2>1. wk[w].link \in Payments
    BY <1>1, <1>8, PositionAt DEF MarkOrder, At, StopPos, StopPcs
  <2> QED
    BY <1>7, <1>8, <2>1 DEF MarkOrder
<1>9. CASE VoidLink(w)
  <2>1. wk[w].link \in Payments
    BY <1>1, <1>9, PositionAt DEF VoidLink, At, StopPos, StopPcs
  <2>2. PICK p \in Payments : p = wk[w].link
    BY <2>1
  <2>3. \E x \in Positions : Goto(w, x) /\ x.pc \in LinkPcs \cup {"void", "idle"}
    BY <1>3, <1>4, <1>5, <1>9, <2>2 DEF VoidLink
  <2>4. status' = [status EXCEPT ![Link(p)] = "no_action"] /\ UNCHANGED done
    <3>1. Commit(Link(p), "no_action", clock)
      BY <1>9, <2>2 DEF VoidLink
    <3>2. status' = [status EXCEPT ![Link(p)] = "no_action"] /\ done' = [done EXCEPT ![Link(p)] = done[Link(p)]]
      BY <3>1 DEF Commit
    <3> QED
      BY <1>1, <3>2
  <2> QED
    BY <1>9, <2>3, <2>4 DEF VoidLink, LinkWorkOf
<1>10. CASE StopLink(w)
  <2>1. wk[w].link \in Payments
    BY <1>1, <1>10, PositionAt DEF StopLink, At, StopPos, StopPcs
  <2>2. PICK p \in Payments : p = wk[w].link
    BY <2>1
  <2>3. Done(w) \/ Goto(w, [pc |-> "stopped", link |-> p]) \/ Goto(w, [pc |-> "parked", link |-> p])
    BY <1>10, <2>2 DEF StopLink
  <2>4. \E x \in Positions : Goto(w, x) /\ x.pc \in LinkPcs \cup {"void", "idle"}
    BY <1>3, <1>4, <2>3 DEF StopPcs, Done
  <2>5. UNCHANGED rz \/ rz' = [rz EXCEPT ![p] = "cancelled"]
    BY <1>10, <2>2 DEF StopLink
  <2> QED
    BY <1>10, <2>4, <2>5 DEF StopLink, LinkWorkOf, rows
<1>11. CASE RecordStop(w)
  <2>1. wk[w].link \in Payments
    BY <1>1, <1>11, PositionAt DEF RecordStop, At, StopPos, StopPcs
  <2>2. PICK p \in Payments : p = wk[w].link
    BY <2>1
  <2>3. PICK took \in BOOLEAN :
          /\ status' = [status EXCEPT ![Link(p)] = IF took THEN "cancelled" ELSE "human_queue"]
          /\ Goto(w, [pc |-> "close", link |-> p, kind |-> IF took THEN "cancelled" ELSE "parked"])
    BY <1>11, <2>2 DEF RecordStop, At
  <2>4. (IF took THEN "cancelled" ELSE "parked") \in OutcomeKinds
    BY <1>5
  <2>5. \E x \in Positions : Goto(w, x) /\ x.pc \in LinkPcs \cup {"void", "idle"}
    BY <1>3, <1>4, <2>3, <2>4
  <2>6. \E new \in {"cancelled", "human_queue"} : status' = [status EXCEPT ![Link(p)] = new]
    BY <2>3
  <2> QED
    BY <1>11, <2>5, <2>6 DEF RecordStop, LinkWorkOf
<1>12. CASE CloseLink(w)
  <2>1. wk[w].link \in Payments /\ wk[w].kind \in OutcomeKinds
    BY <1>1, <1>12, PositionAt DEF CloseLink, At, ResultPos
  <2>2. \E x \in Positions : Goto(w, x) /\ x.pc \in LinkPcs \cup {"void", "idle"}
    BY <1>3, <1>12 DEF CloseLink, Done
  <2> QED
    BY <1>12, <2>1, <2>2 DEF CloseLink, LinkWorkOf
<1>13. ASSUME NEW p \in Payments, LearnEnd(w, p) PROVE LinkWorkOf(w, p)
  <2>1. PICK kind \in {"paid", "ended"} : Goto(w, [pc |-> "end", link |-> p, kind |-> kind])
    BY <1>13 DEF LearnEnd
  <2>2. \E x \in Positions : Goto(w, x) /\ x.pc \in LinkPcs \cup {"void", "idle"}
    BY <1>3, <1>4, <1>5, <2>1
  <2> QED
    BY <1>13, <2>2 DEF LearnEnd, LinkWorkOf, rows
<1> QED
  BY <1>6, <1>7, <1>8, <1>9, <1>10, <1>11, <1>12, <1>13 DEF LinkWork, RecordOrderPaid

LEMMA LinkWorkType ==
  ASSUME NEW P, NEW K, Typed(P, K), Wide(P), OutcomeKinds \subseteq K, NEW w \in Workers, LinkWork(w)
  PROVE  Typed(P, K)'
<1>1. PICK p \in Payments : LinkWorkOf(w, p)
  BY LinkWorkIs
<1>2. status' \in [Rows -> RowStatuses]
  <2>1. {"sent", "no_action", "cancelled", "human_queue"} \subseteq RowStatuses
    BY DEF RowStatuses
  <2> QED
    <3>1. Link(p) \in Rows /\ status \in [Rows -> RowStatuses]
      BY LinkIsRow DEF Typed
    <3>2. ASSUME NEW new \in RowStatuses, status' = [status EXCEPT ![Link(p)] = new]
          PROVE  status' \in [Rows -> RowStatuses]
      BY <3>1, <3>2
    <3> QED
      BY <1>1, <2>1, <3>1, <3>2 DEF LinkWorkOf
<1>3. outcome' \in [Payments -> Seq(K)]
  <2>1. CASE UNCHANGED outcome
    BY <2>1 DEF Typed
  <2>2. ASSUME NEW kind \in OutcomeKinds, RecordOutcome(p, kind) PROVE outcome' \in [Payments -> Seq(K)]
    BY <2>2, OutcomeTyped
  <2> QED
    BY <1>1, <2>1, <2>2 DEF LinkWorkOf
<1>4. rz' \in [Payments -> {"none", "open", "paid", "cancelled"}]
  BY <1>1 DEF LinkWorkOf, Typed
<1>5. wk' \in [Workers -> P]
  BY <1>1, MoveTyped DEF LinkWorkOf, Wide
<1> QED
  BY <1>1, <1>2, <1>3, <1>4, <1>5 DEF LinkWorkOf, Typed

LEMMA VoidRemindersType ==
  ASSUME NEW P, NEW K, Typed(P, K), Wide(P), NEW w \in Workers, VoidReminders(w)
  PROVE  Typed(P, K)'
<1>1. wk[w] \in VoidPos
  BY PositionAt DEF Typed, VoidReminders, At
<1>2. \A pc \in {"withdraw", "stop"} : [pc |-> pc, link |-> wk[w].link] \in P
  BY <1>1, PositionsAre DEF VoidPos, StopPos, Wide
<1>3. wk' \in [Workers -> P]
  <2>1. NextStop(wk[w].link) \in {"withdraw", "stop", "none"}
    BY DEF NextStop
  <2> QED
    BY <1>2, <2>1, MoveTyped, DoneTyped DEF VoidReminders
<1>4. status' \in [Rows -> RowStatuses]
  BY DEF VoidReminders, RowStatuses, Typed
<1> QED
  BY <1>3, <1>4 DEF VoidReminders, Typed

LEMMA WorldType ==
  ASSUME NEW P, NEW K, Typed(P, K), Wide(P), Tick \/ (\E p \in Payments : PayLink(p))
                                     \/ (\E w \in Workers : CrashWorker(w))
  PROVE  Typed(P, K)'
<1>1. CASE Tick
  BY <1>1, CadenceAssumption DEF Tick, rows, Typed
<1>2. ASSUME NEW p \in Payments, PayLink(p) PROVE Typed(P, K)'
  BY <1>2 DEF PayLink, rows, Typed
<1>3. ASSUME NEW w \in Workers, CrashWorker(w) PROVE Typed(P, K)'
  <2>1. wk' \in [Workers -> P]
    BY <1>3, DoneTyped DEF CrashWorker
  <2>2. crashes' \in Nat /\ setting' \in Settings
    BY <1>3 DEF CrashWorker, Typed
  <2> QED
    BY <1>3, <2>1, <2>2 DEF CrashWorker, rows, Typed
<1> QED
  BY <1>1, <1>2, <1>3

LEMMA SweepType ==
  ASSUME NEW P, NEW K, Typed(P, K), Wide(P), OutcomeKinds \subseteq K, NEW w \in Workers, Sweep(w)
  PROVE  Typed(P, K)'
BY SweepLinkType, BeginReminderType, RecoverReminderType DEF Sweep, SweepReminder

LEMMA WorkType ==
  ASSUME NEW P, NEW K, Typed(P, K), Wide(P), OutcomeKinds \subseteq K, NEW w \in Workers, Work(w)
  PROVE  Typed(P, K)'
BY ScheduleReminderType, SettleReminderType, ClaimReminderType, FetchLinkType, NotifyLinkType,
   FinishReminderType, VoidRemindersType, LinkWorkType DEF Work, LinkWork

LEMMA EventType ==
  ASSUME NEW P, NEW K, Typed(P, K), Wide(P), OutcomeKinds \subseteq K, MonthsGoOn, NEW w \in Workers,
         Event(w)
  PROVE  Typed(P, K)'
BY ScheduleLinkType, LinkWorkType DEF Event, LinkWork

LEMMA StepType ==
  ASSUME NEW P, NEW K, Typed(P, K), Wide(P), OutcomeKinds \subseteq K, MonthsGoOn, [CNext]_cvars
  PROVE  Typed(P, K)'
<1>1. CASE CNext
  BY <1>1, SweepType, WorkType, EventType, WorldType DEF CNext
<1>2. CASE UNCHANGED cvars
  BY <1>2 DEF cvars, Typed
<1> QED
  BY <1>1, <1>2


LinkOut(p) == status[Link(p)] \notin {"absent", "pending"}

(* No link has a result before it is out, and then one. *)
ResultInv ==
  \A p \in Payments :
    /\ ~LinkOut(p) => outcome[p] = <<>> /\ rz[p] = "none"
    /\ outcome[p] \in {<<>>} \cup {<<kind>> : kind \in OutcomeKinds}

(* A worker on its way to record a result has found none. *)
Unsettled(x) ==
  x.pc \in {"end", "withdraw", "stop", "stopped", "parked", "close"} =>
    outcome[x.link] = <<>> /\ (x.pc = "withdraw" \/ LinkOut(x.link))

HandInv == \A w \in Workers : Unsettled(wk[w])

OneProcess == \A v, w \in Workers : v = w

CTypeInv == Typed(Positions, OutcomeKinds)

COneInv == ResultInv /\ HandInv

LEMMA FirstResult ==
  ASSUME CTypeInv, NEW p \in Payments, NEW kind \in OutcomeKinds, outcome[p] = <<>>, RecordOutcome(p, kind)
  PROVE  /\ outcome' = [outcome EXCEPT ![p] = <<kind>>]
         /\ outcome'[p] = <<kind>> /\ \A q \in Payments \ {p} : outcome'[q] = outcome[q]
<1>1. Append(outcome[p], kind) = <<kind>>
  OBVIOUS
<1> QED
  BY <1>1 DEF RecordOutcome, CTypeInv, Typed

(* What a step may do to the links: nothing to any but link p, and that      *)
(* moves on and gets its first result, or none.                             *)
LinkStep(p) ==
  /\ \A q \in Payments \ {p} :
       status'[Link(q)] = status[Link(q)] /\ outcome'[q] = outcome[q] /\ rz'[q] = rz[q]
  /\ \/ outcome'[p] = outcome[p]
     \/ outcome[p] = <<>> /\ \E kind \in OutcomeKinds : outcome'[p] = <<kind>>
  /\ LinkOut(p)' \/ (~LinkOut(p) /\ outcome'[p] = outcome[p] /\ rz'[p] = rz[p])

LEMMA LinkStepKeeps ==
  ASSUME ResultInv, NEW p \in Payments, LinkStep(p)
  PROVE  ResultInv'
<1> SUFFICES ASSUME NEW q \in Payments
             PROVE  /\ ~LinkOut(q)' => outcome'[q] = <<>> /\ rz'[q] = "none"
                    /\ outcome'[q] \in {<<>>} \cup {<<kind>> : kind \in OutcomeKinds}
  BY DEF ResultInv
<1>1. CASE q = p
  BY <1>1 DEF ResultInv, LinkStep
<1>2. CASE q # p
  BY <1>2 DEF ResultInv, LinkStep, LinkOut
<1> QED
  BY <1>1, <1>2

(* A step that leaves the link jobs alone. *)
LinksStay ==
  /\ \A q \in Payments : status'[Link(q)] = status[Link(q)] /\ done'[Link(q)] = done[Link(q)]
  /\ UNCHANGED <<outcome, rz, orderPaid, clock>>

LEMMA LinksStayKeeps == ASSUME ResultInv, LinksStay PROVE ResultInv'
BY DEF ResultInv, LinksStay, LinkOut

LEMMA ReminderMoves ==
  ASSUME NEW r \in Reminders, NEW s, NEW d, DOMAIN status = Rows, DOMAIN done = Rows,
         status' = [status EXCEPT ![r] = s] \/ UNCHANGED status,
         done' = [done EXCEPT ![r] = d] \/ UNCHANGED done,
         UNCHANGED <<outcome, rz, orderPaid, clock>>
  PROVE  LinksStay
BY ReminderIsRow, LinkIsRow DEF LinksStay

LEMMA LinksDiffer == \A p, q : p # q => Link(p) # Link(q)
BY DEF Link

LEMMA LinkMoves ==
  ASSUME NEW p \in Payments, NEW new, status' = [status EXCEPT ![Link(p)] = new], DOMAIN status = Rows
  PROVE  /\ status'[Link(p)] = new
         /\ \A q \in Payments \ {p} : status'[Link(q)] = status[Link(q)]
BY LinkIsRow, LinksDiffer


LEMMA CommitMovesReminder ==
  ASSUME NEW P, NEW K, Typed(P, K), NEW r \in Reminders, NEW new, NEW when, Commit(r, new, when),
         UNCHANGED <<outcome, rz, orderPaid, clock>>
  PROVE  LinksStay
<1>1. done' = [done EXCEPT ![r] = IF new \in {"sent", "shadow"} THEN when ELSE done[r]]
  BY DEF Commit
<1> QED
  BY <1>1, ReminderMoves DEF Commit, Typed

(* The row a worker has in hand. *)
LEMMA RowInHand ==
  ASSUME NEW P, NEW K, Typed(P, K), Wide(P), NEW w \in Workers
  PROVE  /\ wk[w].pc \in {"judged", "fetch", "notify"} => wk[w].row \in Reminders /\ wk[w].now \in Nat
         /\ wk[w].pc \in {"remind", "void"} \cup LinkPcs => wk[w].link \in Payments
         /\ wk[w].pc \in {"end", "close"} => wk[w].kind \in OutcomeKinds
         /\ wk[w].pc = "remind" => wk[w].n \in 1..3
         /\ wk[w].pc = "judged" => wk[w].verdict \in Verdicts
         /\ wk[w].pc \in {"fetch", "notify"} => wk[w].left \subseteq AllMedia
<1>1. wk[w] \in P
  BY DEF Typed
<1> QED
  BY <1>1, PositionAt DEF JudgedPos, CallPos, RemindPos, VoidPos, ResultPos, StopPos, LinkPcs

(* The reminder a worker in schedule_reminders is about to mint. *)
LEMMA MintedRow ==
  ASSUME NEW P, NEW K, Typed(P, K), Wide(P), NEW w \in Workers, ScheduleReminder(w),
         ~UNCHANGED <<status, at, done>>
  PROVE  LET p == wk[w].link
             n == wk[w].n
             r == <<p, n>>
         IN  /\ p \in Payments /\ n \in 1..Len(Offsets(p)) /\ r \in Reminders /\ Payment(r) = p
             /\ WithinExpiry(p, n) /\ status[r] = "absent"
             /\ status' = [status EXCEPT ![r] = MintedStatus(p)]
             /\ at' = [at EXCEPT ![r] = IF ~CapAllows(p, clock) THEN clock ELSE ReminderTime(p, n)]
             /\ done' = [done EXCEPT ![r] = IF MintedStatus(p) = "shadow" THEN clock ELSE 0]
<1> DEFINE p == wk[w].link
           n == wk[w].n
           r == <<p, n>>
<1>1. p \in Payments /\ n \in 1..3
  BY RowInHand DEF ScheduleReminder, At
<1>2. ~(NoReminders(p) \/ n > Len(Offsets(p))) /\ WithinExpiry(p, n) /\ status[r] = "absent"
  BY DEF ScheduleReminder
<1>3. n \in 1..Len(Offsets(p))
  BY <1>1, <1>2, OffsetsAre
<1>4. r \in Reminders /\ Payment(r) = p
  BY <1>1, <1>3, ReminderOf
<1>5. /\ status' = [status EXCEPT ![r] = MintedStatus(p)]
      /\ at' = [at EXCEPT ![r] = IF ~CapAllows(p, clock) THEN clock ELSE ReminderTime(p, n)]
      /\ done' = [done EXCEPT ![r] = IF MintedStatus(p) = "shadow" THEN clock ELSE 0]
  BY <1>2 DEF ScheduleReminder
<1> QED
  BY <1>1, <1>2, <1>3, <1>4, <1>5

ReminderStep(w) ==
  \/ ScheduleReminder(w) \/ SettleReminder(w) \/ ClaimReminder(w) \/ FetchLink(w)
  \/ NotifyLink(w) \/ FinishReminder(w) \/ VoidReminders(w)
  \/ \E r \in Reminders : BeginReminder(w, r) \/ RecoverReminder(w, r)

LEMMA ReminderStepLinks ==
  ASSUME NEW P, NEW K, Typed(P, K), Wide(P), NEW w \in Workers, ReminderStep(w)
  PROVE  LinksStay
<1>1. CASE UNCHANGED <<status, done>> /\ UNCHANGED <<outcome, rz, orderPaid, clock>>
  BY <1>1 DEF LinksStay
<1>2. CASE ScheduleReminder(w)
  <2>1. CASE UNCHANGED <<status, at, done>>
    BY <1>1, <1>2, <2>1 DEF ScheduleReminder
  <2>2. CASE ~UNCHANGED <<status, at, done>>
    <3> DEFINE r == <<wk[w].link, wk[w].n>>
    <3>1. r \in Reminders
      BY <1>2, <2>2, MintedRow
    <3>2. \E x, d : status' = [status EXCEPT ![r] = x] /\ done' = [done EXCEPT ![r] = d]
      BY <1>2, <2>2, MintedRow
    <3>3. UNCHANGED <<outcome, rz, orderPaid, clock>> /\ DOMAIN status = Rows /\ DOMAIN done = Rows
      BY <1>2 DEF ScheduleReminder, Typed
    <3> HIDE DEF r
    <3> QED
      BY <3>1, <3>2, <3>3, ReminderMoves
  <2> QED
    BY <2>1, <2>2
<1>3. CASE SettleReminder(w)
  BY <1>1, <1>3, RowInHand, CommitMovesReminder DEF SettleReminder, At
<1>4. CASE ClaimReminder(w)
  BY <1>1, <1>4, RowInHand, CommitMovesReminder DEF ClaimReminder, At
<1>5. CASE FetchLink(w)
  BY <1>1, <1>5, RowInHand, CommitMovesReminder DEF FetchLink, At
<1>6. CASE NotifyLink(w)
  BY <1>1, <1>6 DEF NotifyLink, rows
<1>7. CASE FinishReminder(w)
  BY <1>7, RowInHand, CommitMovesReminder DEF FinishReminder, At
<1>8. CASE VoidReminders(w)
  <2>1. \A p \in Payments : status'[Link(p)] = status[Link(p)]
    BY <1>8, LinkIsRow, ReminderIsRow DEF VoidReminders, PendingReminders
  <2> QED
    BY <1>8, <2>1 DEF VoidReminders, LinksStay
<1>9. ASSUME NEW r \in Reminders, BeginReminder(w, r) \/ RecoverReminder(w, r) PROVE LinksStay
  <2>1. CASE BeginReminder(w, r)
    BY <1>1, <2>1 DEF BeginReminder, rows
  <2>2. CASE RecoverReminder(w, r)
    BY <2>2, ReminderMoves DEF RecoverReminder, Typed
  <2> QED
    BY <1>9, <2>1, <2>2
<1> QED
  BY <1>2, <1>3, <1>4, <1>5, <1>6, <1>7, <1>8, <1>9 DEF ReminderStep


(* What the steps on a link do to the link jobs. *)
LEMMA ExecuteLinkLinks ==
  ASSUME CTypeInv, ResultInv, NEW w \in Workers, NEW p \in Payments, NEW next, ExecuteLink(w, p, next)
  PROVE  LinkStep(p)
<1>1. status[Link(p)] = "pending" /\ outcome[p] = <<>> /\ DOMAIN status = Rows /\ DOMAIN rz = Payments
  BY DEF ExecuteLink, CTypeInv, ResultInv, LinkOut, Typed
<1>2. PICK new \in {"no_action", "shadow", "sent", "failed"} : status' = [status EXCEPT ![Link(p)] = new]
  BY DEF ExecuteLink, Commit
<1>3. LinkOut(p)' /\ \A q \in Payments \ {p} : status'[Link(q)] = status[Link(q)]
  BY <1>1, <1>2, LinkMoves DEF LinkOut
<1>4. \A q \in Payments \ {p} : rz'[q] = rz[q]
  BY <1>1 DEF ExecuteLink
<1>5. CASE UNCHANGED outcome
  BY <1>3, <1>4, <1>5 DEF LinkStep
<1>6. CASE RecordOutcome(p, "stopped") \/ RecordOutcome(p, "parked")
  <2>1. PICK kind \in OutcomeKinds : RecordOutcome(p, kind)
    BY <1>6 DEF OutcomeKinds
  <2>2. outcome'[p] = <<kind>> /\ \A q \in Payments \ {p} : outcome'[q] = outcome[q]
    BY <1>1, <2>1, FirstResult
  <2> QED
    BY <1>1, <1>3, <1>4, <2>2 DEF LinkStep
<1> QED
  BY <1>5, <1>6 DEF ExecuteLink

LEMMA ScheduleLinkLinks ==
  ASSUME CTypeInv, ResultInv, NEW w \in Workers, NEW p \in Payments, ScheduleLink(w, p)
  PROVE  LinkStep(p)
<1>1. status[Link(p)] = "absent" /\ outcome[p] = <<>> /\ DOMAIN status = Rows /\ UNCHANGED rz
  BY DEF ScheduleLink, CTypeInv, ResultInv, LinkOut, Typed
<1>2. /\ status'[Link(p)] = ScheduledStatus(p)
      /\ \A q \in Payments \ {p} : status'[Link(q)] = status[Link(q)]
  BY <1>1, LinkMoves DEF ScheduleLink
<1>3. CASE ScheduledStatus(p) = "pending"
  BY <1>1, <1>2, <1>3 DEF ScheduleLink, LinkStep, LinkOut
<1>4. CASE ScheduledStatus(p) # "pending"
  <2>1. PICK kind \in OutcomeKinds : RecordOutcome(p, kind)
    BY <1>4 DEF ScheduleLink, OutcomeKinds
  <2>2. outcome'[p] = <<kind>> /\ \A q \in Payments \ {p} : outcome'[q] = outcome[q]
    BY <1>1, <2>1, FirstResult
  <2>3. LinkOut(p)'
    BY <1>2, <1>4 DEF ScheduledStatus, LinkOut
  <2> QED
    BY <1>1, <1>2, <2>2, <2>3 DEF LinkStep
<1> QED
  BY <1>3, <1>4

(* With one process a step of w leaves nobody else to disturb. *)
LEMMA HandMoved ==
  ASSUME CTypeInv, OneProcess, NEW w \in Workers, NEW x, Goto(w, x), Unsettled(x)'
  PROVE  HandInv'
<1> SUFFICES ASSUME NEW v \in Workers PROVE Unsettled(wk[v])'
  BY DEF HandInv
<1>1. wk'[v] = x
  BY DEF OneProcess, Goto, CTypeInv, Typed
<1> QED
  BY <1>1

Aside(x) == x.pc \notin {"end", "withdraw", "stop", "stopped", "parked", "close"}

LEMMA HandAside ==
  ASSUME CTypeInv, OneProcess, NEW w \in Workers, NEW x, Goto(w, x), Aside(x)
  PROVE  HandInv'
<1>1. Unsettled(x)'
  BY DEF Unsettled, Aside
<1> QED
  BY <1>1, HandMoved

LEMMA HandDone ==
  ASSUME CTypeInv, OneProcess, NEW w \in Workers, Done(w)
  PROVE  HandInv'
BY HandAside DEF Done, Aside, Idle

LEMMA HandIdle ==
  ASSUME CTypeInv, OneProcess, NEW w \in Workers, ~Busy(w), UNCHANGED wk
  PROVE  HandInv'
<1>1. \A v \in Workers : wk'[v] = Idle
  BY DEF OneProcess, Busy
<1> QED
  BY <1>1 DEF HandInv, Unsettled, Idle

LEMMA OneReminderStep ==
  ASSUME CTypeInv, COneInv, OneProcess, NEW w \in Workers, ReminderStep(w)
  PROVE  COneInv'
<1>1. /\ Typed(Positions, OutcomeKinds) /\ Wide(Positions)
      /\ DOMAIN status = Rows /\ DOMAIN wk = Workers
  BY PositionsWide DEF CTypeInv, Typed
<1>2. LinksStay
  BY <1>1, ReminderStepLinks
<1>3. ResultInv'
  BY <1>2, LinksStayKeeps DEF COneInv
<1>4. ASSUME NEW x, Goto(w, x), Aside(x) PROVE HandInv'
  BY <1>4, HandAside
<1>5. CASE Done(w)
  BY <1>3, <1>5, HandDone DEF COneInv
<1>6. CASE ScheduleReminder(w)
  <2>1. [wk[w] EXCEPT !.n = wk[w].n + 1].pc = "remind"
    BY <1>1, <1>6, PositionAt DEF ScheduleReminder, At, Typed, RemindPos
  <2> QED
    BY <1>3, <1>4, <1>5, <1>6, <2>1 DEF ScheduleReminder, Aside, COneInv
<1>7. CASE ClaimReminder(w)
  BY <1>3, <1>4, <1>5, <1>7 DEF ClaimReminder, Aside, COneInv
<1>8. CASE FetchLink(w)
  <2>1. wk[w] \in CallPos
    BY <1>1, <1>8, PositionAt DEF FetchLink, At, Typed
  <2>2. /\ [wk[w] EXCEPT !.pc = "notify"].pc = "notify"
        /\ [wk[w] EXCEPT !.pc = "notify", !.blind = TRUE].pc = "notify"
    BY <2>1 DEF CallPos
  <2> QED
    BY <1>3, <1>4, <1>5, <1>8, <2>2 DEF FetchLink, Aside, COneInv
<1>9. CASE NotifyLink(w)
  <2> DEFINE k == NextMedium(w)
             y == wk[w]
             asked == [y EXCEPT !.left = y.left \ {k}]
  <2>1. wk[w] \in CallPos /\ wk[w].pc = "notify"
    BY <1>1, <1>9, PositionAt DEF NotifyLink, At, Typed
  <2>2. asked \in CallPos /\ asked.pc = "notify"
    BY <2>1 DEF CallPos
  <2>3. [asked EXCEPT !.got = TRUE].pc = "notify"
    BY <2>2 DEF CallPos
  <2>4. Goto(w, asked) \/ Goto(w, [asked EXCEPT !.got = TRUE])
    BY <1>9 DEF NotifyLink, NextMedium
  <2> HIDE DEF asked
  <2> QED
    BY <1>3, <1>4, <2>2, <2>3, <2>4 DEF Aside, COneInv
<1>10. CASE VoidReminders(w)
  <2>1. PICK p \in Payments : p = wk[w].link
    BY <1>1, <1>10, RowInHand DEF VoidReminders, At
  <2>2. PICK pc : pc = NextStop(p)
    OBVIOUS
  <2>3. CASE Goto(w, [pc |-> pc, link |-> p]) /\ pc # "none"
    <3>1. /\ pc \in {"withdraw", "stop"} /\ outcome[p] = <<>>
          /\ pc = "stop" => LinkOut(p)
      BY <2>2, <2>3 DEF NextStop, LiveJob, Ended, LinkOut, COneInv, ResultInv
    <3>2. outcome'[p] = <<>> /\ status'[Link(p)] = status[Link(p)]
      BY <1>2, <3>1 DEF LinksStay
    <3>3. PICK x : Goto(w, x) /\ x.pc = pc /\ x.link = p
      BY <2>3
    <3>4. Unsettled(x)'
      BY <3>1, <3>2, <3>3 DEF Unsettled, LinkOut
    <3> QED
      BY <1>3, <3>3, <3>4, HandMoved DEF COneInv
  <2> QED
    BY <1>5, <1>10, <2>1, <2>2, <2>3 DEF VoidReminders
<1>11. ASSUME NEW r \in Reminders, BeginReminder(w, r) PROVE COneInv'
  BY <1>3, <1>4, <1>11 DEF BeginReminder, Aside, COneInv
<1>12. ASSUME NEW r \in Reminders, RecoverReminder(w, r) PROVE COneInv'
  BY <1>3, <1>12, HandIdle DEF RecoverReminder, COneInv
<1> QED
  BY <1>5, <1>6, <1>7, <1>8, <1>9, <1>10, <1>11, <1>12 DEF ReminderStep, SettleReminder, FinishReminder

LEMMA OneLinkWork ==
  ASSUME CTypeInv, COneInv, OneProcess, NEW w \in Workers, LinkWork(w)
  PROVE  COneInv'
<1>1. /\ Typed(Positions, OutcomeKinds) /\ Wide(Positions)
      /\ DOMAIN status = Rows /\ DOMAIN wk = Workers /\ DOMAIN rz = Payments
      /\ status \in [Rows -> RowStatuses]
  BY PositionsWide DEF CTypeInv, Typed
<1>2. ASSUME UNCHANGED <<status, outcome, rz>> PROVE ResultInv'
  BY <1>2 DEF COneInv, ResultInv, LinkOut
<1>3. ASSUME NEW p \in Payments, NEW new, UNCHANGED <<outcome, rz>>,
             status' = [status EXCEPT ![Link(p)] = new], new \notin {"absent", "pending"}
      PROVE  ResultInv' /\ LinkOut(p)'
  <2>1. LinkOut(p)' /\ \A q \in Payments \ {p} : status'[Link(q)] = status[Link(q)]
    BY <1>1, <1>3, LinkMoves DEF LinkOut
  <2>2. LinkStep(p)
    BY <1>3, <2>1 DEF LinkStep
  <2> QED
    BY <2>1, <2>2, LinkStepKeeps DEF COneInv
<1>4. ASSUME NEW p \in Payments, NEW kind \in OutcomeKinds, outcome[p] = <<>>, RecordOutcome(p, kind),
             UNCHANGED rz, LinkOut(p), UNCHANGED status \/ status' = [status EXCEPT ![Link(p)] = "sent"]
      PROVE  ResultInv'
  <2>1. outcome'[p] = <<kind>> /\ \A q \in Payments \ {p} : outcome'[q] = outcome[q]
    BY <1>4, FirstResult
  <2>2. LinkOut(p)' /\ \A q \in Payments \ {p} : status'[Link(q)] = status[Link(q)]
    BY <1>1, <1>4, LinkMoves DEF LinkOut
  <2>3. LinkStep(p)
    BY <1>4, <2>1, <2>2 DEF LinkStep
  <2> QED
    BY <2>3, LinkStepKeeps DEF COneInv
<1>5. ASSUME NEW x, Goto(w, x), Aside(x) PROVE HandInv'
  BY <1>5, HandAside
<1>6. ASSUME NEW x, NEW p \in Payments, Goto(w, x), x.link = p, outcome'[p] = <<>>, LinkOut(p)' PROVE HandInv'
  <2>1. Unsettled(x)'
    BY <1>6 DEF Unsettled
  <2> QED
    BY <1>6, <2>1, HandMoved
<1>7. ASSUME wk[w].pc \in LinkPcs PROVE \E p \in Payments : p = wk[w].link
  BY <1>1, <1>7, RowInHand
<1>8. Unsettled(wk[w])
  BY DEF COneInv, HandInv
<1>9. CASE RecordEnd(w)
  <2>1. wk[w].pc = "end" /\ wk[w].kind \in OutcomeKinds
    BY <1>1, <1>9, RowInHand DEF RecordEnd, At
  <2>2. PICK p \in Payments : p = wk[w].link
    BY <1>7, <2>1 DEF LinkPcs
  <2>3. outcome[p] = <<>> /\ LinkOut(p)
    BY <1>8, <2>1, <2>2 DEF Unsettled
  <2>4. RecordOutcome(p, wk[w].kind) /\ UNCHANGED rz
    BY <1>9, <2>2 DEF RecordEnd
  <2>5. UNCHANGED status \/ status' = [status EXCEPT ![Link(p)] = "sent"]
    <3>1. CASE wk[w].kind = "paid"
      BY <1>9, <2>2, <3>1 DEF RecordEnd
    <3>2. CASE wk[w].kind # "paid"
      BY <1>1, <1>9, <2>2, <3>2 DEF RecordEnd
    <3> QED
      BY <3>1, <3>2
  <2>6. ResultInv'
    BY <1>4, <2>1, <2>3, <2>4, <2>5
  <2>7. PICK x : Goto(w, x) /\ x.pc \in {"mark", "void"}
    <3>1. \/ Goto(w, [pc |-> "mark", link |-> p])
          \/ Goto(w, [pc |-> "void", link |-> p, order |-> FALSE])
      BY <1>9, <2>2 DEF RecordEnd
    <3> QED
      BY <3>1
  <2> QED
    BY <1>5, <2>6, <2>7 DEF Aside, COneInv
<1>10. ASSUME NEW p, SettleOrder(w, p) PROVE COneInv'
  BY <1>2, <1>5, <1>10 DEF SettleOrder, Aside, COneInv
<1>11. CASE VoidLink(w)
  <2>1. PICK p \in Payments : p = wk[w].link /\ wk[w].pc = "withdraw"
    BY <1>7, <1>11 DEF VoidLink, At, LinkPcs, StopPcs
  <2>2. outcome'[p] = <<>> /\ UNCHANGED <<outcome, rz>> /\ status' = [status EXCEPT ![Link(p)] = "no_action"]
    BY <1>8, <1>11, <2>1 DEF VoidLink, Commit, Unsettled
  <2>3. PICK x : Goto(w, x) /\ x.link = p
    BY <1>11, <2>1 DEF VoidLink
  <2>4. "no_action" \notin {"absent", "pending"}
    OBVIOUS
  <2>5. ResultInv' /\ LinkOut(p)'
    BY <1>3, <2>2, <2>4
  <2> QED
    BY <1>6, <2>2, <2>3, <2>5 DEF COneInv
<1>12. CASE StopLink(w)
  <2>1. PICK p \in Payments : p = wk[w].link /\ wk[w].pc = "stop"
    BY <1>7, <1>12 DEF StopLink, At, LinkPcs, StopPcs
  <2>2. outcome[p] = <<>> /\ LinkOut(p) /\ UNCHANGED <<status, outcome>>
    BY <1>8, <1>12, <2>1 DEF StopLink, rows, Unsettled
  <2>3. LinkOut(p)'
    BY <2>2 DEF LinkOut
  <2>4. \A q \in Payments \ {p} : rz'[q] = rz[q]
    BY <1>1, <1>12, <2>1 DEF StopLink
  <2>5. ResultInv'
    <3>1. LinkStep(p)
      BY <2>2, <2>3, <2>4 DEF LinkStep
    <3> QED
      BY <3>1, LinkStepKeeps DEF COneInv
  <2>6. CASE Done(w)
    BY <2>5, <2>6, HandDone DEF COneInv
  <2>7. CASE Goto(w, [pc |-> "stopped", link |-> p]) \/ Goto(w, [pc |-> "parked", link |-> p])
    <3>1. PICK x : Goto(w, x) /\ x.link = p
      BY <2>7
    <3> QED
      BY <1>6, <2>2, <2>3, <2>5, <3>1 DEF COneInv
  <2> QED
    BY <1>12, <2>1, <2>6, <2>7 DEF StopLink
<1>13. CASE RecordStop(w)
  <2>1. PICK p \in Payments : p = wk[w].link /\ wk[w].pc \in {"stopped", "parked"}
    BY <1>7, <1>13 DEF RecordStop, At, LinkPcs, StopPcs
  <2>2. outcome'[p] = <<>> /\ UNCHANGED <<outcome, rz>>
    BY <1>8, <1>13, <2>1 DEF RecordStop, Unsettled
  <2>3. PICK new : new \notin {"absent", "pending"} /\ status' = [status EXCEPT ![Link(p)] = new]
    BY <1>13, <2>1 DEF RecordStop
  <2>4. PICK x : Goto(w, x) /\ x.link = p
    BY <1>13, <2>1 DEF RecordStop
  <2> QED
    BY <1>3, <1>6, <2>2, <2>3, <2>4 DEF COneInv
<1>14. CASE CloseLink(w)
  <2>1. PICK p \in Payments : p = wk[w].link /\ wk[w].pc = "close"
    BY <1>7, <1>14 DEF CloseLink, At, LinkPcs
  <2>2. wk[w].kind \in OutcomeKinds
    BY <1>1, <2>1, RowInHand
  <2>3. outcome[p] = <<>> /\ LinkOut(p)
    BY <1>8, <2>1 DEF Unsettled
  <2>4. ResultInv'
    BY <1>4, <1>14, <2>1, <2>2, <2>3 DEF CloseLink
  <2> QED
    BY <1>14, <2>4, HandDone DEF CloseLink, COneInv
<1>15. ASSUME NEW p \in Payments, LearnEnd(w, p) PROVE COneInv'
  <2>1. outcome'[p] = <<>> /\ LinkOut(p)'
    BY <1>15 DEF LearnEnd, rows, Ended, COneInv, ResultInv, LinkOut
  <2>2. PICK x : Goto(w, x) /\ x.link = p
    BY <1>15 DEF LearnEnd
  <2>3. HandInv'
    BY <1>6, <2>1, <2>2
  <2> QED
    BY <1>2, <1>15, <2>3 DEF LearnEnd, rows, COneInv
<1> QED
  BY <1>9, <1>10, <1>11, <1>12, <1>13, <1>14, <1>15 DEF LinkWork, MarkOrder, RecordOrderPaid

LEMMA CTypeInit == CInit => CTypeInv /\ COneInv
<1> SUFFICES ASSUME CInit PROVE CTypeInv /\ COneInv
  OBVIOUS
<1>1. CTypeInv
  BY TypedInit, PositionsWide DEF CTypeInv
<1>2. ResultInv /\ HandInv
  BY DEF CInit, ResultInv, HandInv, Unsettled, Idle
<1> QED
  BY <1>1, <1>2 DEF COneInv

LEMMA CTypeStep ==
  ASSUME CTypeInv, MonthsGoOn, [CNext]_cvars
  PROVE  CTypeInv'
BY StepType, PositionsWide DEF CTypeInv

LEMMA COneStep ==
  ASSUME CTypeInv, COneInv, OneProcess, [CNext]_cvars
  PROVE  COneInv'
<1>1. ASSUME NEW w \in Workers, NEW p \in Payments, SweepLink(w, p) PROVE COneInv'
  <2>1. ResultInv'
    BY <1>1, ExecuteLinkLinks, LinkStepKeeps DEF SweepLink, COneInv
  <2>2. UNCHANGED wk \/ Goto(w, [pc |-> "remind", link |-> p, n |-> 1])
    BY <1>1 DEF SweepLink, ExecuteLink
  <2>3. HandInv'
    BY <1>1, <2>2, HandIdle, HandAside DEF SweepLink, Aside
  <2> QED
    BY <2>1, <2>3 DEF COneInv
<1>2. ASSUME NEW w \in Workers, NEW p \in Payments, ScheduleLink(w, p) PROVE COneInv'
  <2>1. ResultInv'
    BY <1>2, ScheduleLinkLinks, LinkStepKeeps DEF COneInv
  <2> QED
    BY <1>2, <2>1, HandIdle DEF ScheduleLink, COneInv
<1>3. ASSUME NEW w \in Workers, Sweep(w) \/ Work(w) \/ Event(w) PROVE COneInv'
  BY <1>1, <1>2, <1>3, OneReminderStep, OneLinkWork DEF Sweep, Work, Event, SweepReminder, ReminderStep, LinkWork
<1>4. ASSUME UNCHANGED <<status, outcome, rz>> PROVE ResultInv'
  BY <1>4 DEF COneInv, ResultInv, LinkOut
<1>5. ASSUME UNCHANGED <<status, outcome, wk>> PROVE HandInv'
  BY <1>5 DEF COneInv, HandInv, Unsettled, LinkOut
<1>6. ASSUME NEW w \in Workers, CrashWorker(w) PROVE COneInv'
  BY <1>4, <1>6, HandDone DEF CrashWorker, rows, COneInv
<1>7. ASSUME NEW p \in Payments, PayLink(p) PROVE COneInv'
  <2>1. LinkStep(p)
    BY <1>7 DEF PayLink, rows, LinkStep, LinkOut, COneInv, ResultInv, CTypeInv, Typed
  <2> QED
    BY <1>5, <1>7, <2>1, LinkStepKeeps DEF PayLink, rows, COneInv
<1>8. ASSUME Tick \/ UNCHANGED cvars PROVE COneInv'
  BY <1>4, <1>5, <1>8 DEF Tick, rows, cvars, COneInv
<1> QED
  BY <1>3, <1>6, <1>7, <1>8 DEF CNext

LEMMA CTypeInvariant == ASSUME MonthsGoOn PROVE CSpec => []CTypeInv
<1>1. CTypeInv /\ [CNext]_cvars => CTypeInv'
  BY CTypeStep
<1> QED
  BY <1>1, CTypeInit, PTL DEF CSpec

LEMMA COneInvariant == ASSUME MonthsGoOn, OneProcess PROVE CSpec => []COneInv
<1>1. CTypeInv /\ COneInv /\ [CNext]_cvars => COneInv'
  BY COneStep
<1> QED
  BY <1>1, CTypeInit, CTypeInvariant, PTL DEF CSpec

LEMMA CTypeImplies == CTypeInv /\ COneInv => CadenceTypeOK
<1> SUFFICES ASSUME CTypeInv, COneInv PROVE CadenceTypeOK
  OBVIOUS
<1>1. outcome \in [Payments -> {<<>>} \cup {<<kind>> : kind \in OutcomeKinds}]
  BY DEF CTypeInv, COneInv, ResultInv, Typed
<1> QED
  BY <1>1 DEF CTypeInv, Typed, CadenceTypeOK

\* Every variable of the campaign keeps its type, and a link job gets no second
\* outcome from one process, for any customers, classes and crashes: not when a
\* crash falls between a stop's status and its outcome, and the link is paid.
THEOREM CadenceTypeCorrect ==
  ASSUME MonthsGoOn, OneProcess
  PROVE  CSpec => []CadenceTypeOK
BY CTypeInvariant, COneInvariant, CTypeImplies, PTL


-----------------------------------------------------------------------------
(* One notify per claim.  The workers that may still notify medium m of row  *)
(* r are counted with the calls made and with the claim still to come.       *)

Calling(r, m) == {w \in Workers : wk[w].pc \in {"fetch", "notify"} /\ wk[w].row = r /\ m \in wk[w].left}

Claimable(r) == IF status[r] \in {"absent", "pending"} THEN 1 ELSE 0

NotifyInv ==
  \A r \in Reminders : \A m \in Media[Payment(r)] :
    told[r][m] + Cardinality(Calling(r, m)) + Claimable(r) <= 1 + recovered[r]

LEMMA CallingSize ==
  ASSUME IsFiniteSet(Workers), NEW r, NEW m
  PROVE  IsFiniteSet(Calling(r, m)) /\ Cardinality(Calling(r, m)) \in Nat
<1>1. Calling(r, m) \in SUBSET Workers
  BY DEF Calling
<1> QED
  BY <1>1, FS_Subset, FS_CardinalityType

LEMMA CallingSizeNext ==
  ASSUME IsFiniteSet(Workers), NEW r, NEW m
  PROVE  IsFiniteSet(Calling(r, m)') /\ Cardinality(Calling(r, m)') \in Nat
<1>1. Calling(r, m)' \in SUBSET Workers
  BY DEF Calling
<1> QED
  BY <1>1, FS_Subset, FS_CardinalityType

(* A worker that does not begin to call, nor to call another medium. *)
Calls(x) == x.pc \in {"fetch", "notify"}

CallsNoMore(w) ==
  \A v \in Workers :
    wk'[v] = wk[v] \/ (v = w /\ (Calls(wk'[v]) =>
                                   Calls(wk[v]) /\ wk'[v].row = wk[v].row /\ wk'[v].left \subseteq wk[v].left))

LEMMA CallingShrinks ==
  ASSUME NEW w \in Workers, CallsNoMore(w)
  PROVE  \A r, m : Calling(r, m)' \subseteq Calling(r, m)
BY DEF CallsNoMore, Calls, Calling

LEMMA GotoCallsNoMore ==
  ASSUME NEW w \in Workers, NEW x, Goto(w, x), DOMAIN wk = Workers,
         Calls(x) => Calls(wk[w]) /\ x.row = wk[w].row /\ x.left \subseteq wk[w].left
  PROVE  CallsNoMore(w)
BY DEF Goto, CallsNoMore

LEMMA DoneCallsNoMore ==
  ASSUME NEW w \in Workers, Done(w), DOMAIN wk = Workers
  PROVE  CallsNoMore(w)
BY GotoCallsNoMore DEF Done, Idle, Calls

LEMMA SameCallsNoMore ==
  ASSUME NEW w \in Workers, UNCHANGED wk
  PROVE  CallsNoMore(w)
BY DEF CallsNoMore

(* A step after which no row is claimable that was not. *)
NoneFreed == \A r \in Reminders : status'[r] \in {"absent", "pending"} => status[r] \in {"absent", "pending"}

LEMMA NotifyKept ==
  ASSUME NEW P, NEW K, Typed(P, K), IsFiniteSet(Workers), NotifyInv, NEW w \in Workers, CallsNoMore(w),
         NoneFreed, UNCHANGED <<told, recovered>>
  PROVE  NotifyInv'
<1> SUFFICES ASSUME NEW r \in Reminders, NEW m \in Media[Payment(r)]
             PROVE  told[r][m] + Cardinality(Calling(r, m)') + Claimable(r)' <= 1 + recovered[r]
  BY DEF NotifyInv
<1>1. Calling(r, m)' \in SUBSET Calling(r, m)
  BY CallingShrinks
<1>2. Cardinality(Calling(r, m)') <= Cardinality(Calling(r, m))
  BY <1>1, CallingSize, FS_Subset
<1>3. Cardinality(Calling(r, m)') \in Nat /\ Cardinality(Calling(r, m)) \in Nat
  BY CallingSize, CallingSizeNext
<1>4. told[r][m] \in Nat /\ recovered[r] \in Nat
  BY DEF Typed
<1>5. Claimable(r) \in {0, 1} /\ Claimable(r)' \in {0, 1} /\ (Claimable(r) = 0 => Claimable(r)' = 0)
  BY DEF Claimable, NoneFreed
<1>6. told[r][m] + Cardinality(Calling(r, m)) + Claimable(r) <= 1 + recovered[r]
  BY DEF NotifyInv
<1> QED
  BY <1>2, <1>3, <1>4, <1>5, <1>6

(* The claim takes the place of the claim to come. *)
LEMMA ClaimNotifies ==
  ASSUME NEW P, NEW K, Typed(P, K), Wide(P), IsFiniteSet(Workers), NotifyInv, NEW w \in Workers,
         ClaimReminder(w)
  PROVE  NotifyInv'
<1> DEFINE s == wk[w].row
<1>1. s \in Reminders /\ s \in Rows /\ DOMAIN wk = Workers /\ DOMAIN status = Rows /\ wk[w].pc = "judged"
  BY RowInHand, ReminderIsRow DEF ClaimReminder, At, Typed
<1>2. UNCHANGED <<told, recovered>>
  BY DEF ClaimReminder
<1>3. CASE status[s] # "pending"
  <2>1. CallsNoMore(w) /\ NoneFreed
    BY <1>1, <1>3, DoneCallsNoMore DEF ClaimReminder, NoneFreed
  <2> QED
    BY <1>2, <2>1, NotifyKept
<1>4. CASE status[s] = "pending"
  <2>1. status' = [status EXCEPT ![s] = "executing"] /\ Goto(w, Called(s, wk[w].now))
    BY <1>4 DEF ClaimReminder, Called, Commit
  <2>2. wk'[w] = Called(s, wk[w].now) /\ \A v \in Workers \ {w} : wk'[v] = wk[v]
    BY <1>1, <2>1 DEF Goto
  <2> SUFFICES ASSUME NEW r \in Reminders, NEW m \in Media[Payment(r)]
               PROVE  told[r][m] + Cardinality(Calling(r, m)') + Claimable(r)' <= 1 + recovered[r]
    BY <1>2 DEF NotifyInv
  <2>3. told[r][m] + Cardinality(Calling(r, m)) + Claimable(r) <= 1 + recovered[r]
    BY DEF NotifyInv
  <2>4. Cardinality(Calling(r, m)') \in Nat /\ Cardinality(Calling(r, m)) \in Nat /\ IsFiniteSet(Calling(r, m))
    BY CallingSize, CallingSizeNext
  <2>5. told[r][m] \in Nat /\ recovered[r] \in Nat
    BY DEF Typed
  <2>6. CASE r = s
    <3>1. Claimable(r) = 1 /\ Claimable(r)' = 0
      BY <1>1, <1>4, <2>1, <2>6 DEF Claimable
    <3>2. Calling(r, m)' \in SUBSET (Calling(r, m) \cup {w})
      BY <2>2 DEF Calling
    <3>3. /\ IsFiniteSet(Calling(r, m) \cup {w})
          /\ Cardinality(Calling(r, m) \cup {w}) \in {Cardinality(Calling(r, m)), Cardinality(Calling(r, m)) + 1}
      BY <2>4, FS_AddElement
    <3>4. Cardinality(Calling(r, m)') <= Cardinality(Calling(r, m)) + 1
      <4>1. Cardinality(Calling(r, m)') <= Cardinality(Calling(r, m) \cup {w})
        BY <3>2, <3>3, FS_Subset
      <4> QED
        BY <4>1, <2>4, <3>3
    <3> QED
      BY <2>3, <2>4, <2>5, <3>1, <3>4
  <2>7. CASE r # s
    <3>1. Claimable(r)' = Claimable(r) /\ Claimable(r) \in {0, 1}
      BY <1>1, <2>1, <2>7, ReminderIsRow DEF Claimable
    <3>2. Calling(r, m)' \in SUBSET Calling(r, m)
      BY <2>2, <2>7 DEF Calling, Called
    <3>3. Cardinality(Calling(r, m)') <= Cardinality(Calling(r, m))
      BY <2>4, <3>2, FS_Subset
    <3> QED
      BY <2>3, <2>4, <2>5, <3>1, <3>3
  <2> QED
    BY <2>6, <2>7
<1> QED
  BY <1>3, <1>4


(* An answered call leaves the worker one medium less. *)
LEMMA NotifyNotifies ==
  ASSUME NEW P, NEW K, Typed(P, K), Wide(P), IsFiniteSet(Workers), NotifyInv, NEW w \in Workers,
         NotifyLink(w)
  PROVE  NotifyInv'
<1> DEFINE s == wk[w].row
           k == NextMedium(w)
<1>1. s \in Reminders /\ DOMAIN wk = Workers /\ wk[w].pc = "notify" /\ wk[w].left # {} /\ wk[w] \in CallPos
  BY RowInHand, PositionAt DEF NotifyLink, At, Typed
<1>2. k \in wk[w].left
  BY <1>1, RowInHand DEF NotifyLink, NextMedium, AllMedia
<1>3. UNCHANGED <<status, recovered>>
  BY DEF NotifyLink, rows
<1>4. /\ wk'[w].pc = "notify" /\ wk'[w].row = s /\ wk'[w].left = wk[w].left \ {k}
      /\ \A v \in Workers \ {w} : wk'[v] = wk[v]
  <2> DEFINE y == wk[w]
             asked == [y EXCEPT !.left = y.left \ {k}]
  <2>1. asked \in CallPos /\ asked.pc = "notify" /\ asked.row = s /\ asked.left = wk[w].left \ {k}
    BY <1>1 DEF CallPos
  <2>2. Goto(w, asked) \/ Goto(w, [asked EXCEPT !.got = TRUE])
    BY DEF NotifyLink, NextMedium
  <2>3. LET x == [asked EXCEPT !.got = TRUE]
        IN  x.pc = "notify" /\ x.row = s /\ x.left = wk[w].left \ {k}
    BY <2>1 DEF CallPos
  <2> HIDE DEF asked
  <2> QED
    BY <1>1, <2>1, <2>2, <2>3 DEF Goto
<1>5. CASE UNCHANGED told
  <2>1. CallsNoMore(w) /\ NoneFreed
    BY <1>1, <1>3, <1>4 DEF CallsNoMore, Calls, NoneFreed
  <2> QED
    BY <1>3, <1>5, <2>1, NotifyKept
<1>6. CASE told' = [told EXCEPT ![s][k] = @ + 1]
  <2> SUFFICES ASSUME NEW r \in Reminders, NEW m \in Media[Payment(r)]
               PROVE  told'[r][m] + Cardinality(Calling(r, m)') + Claimable(r)' <= 1 + recovered[r]
    BY <1>3 DEF NotifyInv
  <2>1. told[r][m] + Cardinality(Calling(r, m)) + Claimable(r) <= 1 + recovered[r]
    BY DEF NotifyInv
  <2>2. Cardinality(Calling(r, m)') \in Nat /\ Cardinality(Calling(r, m)) \in Nat /\ IsFiniteSet(Calling(r, m))
    BY CallingSize, CallingSizeNext
  <2>3. told[r][m] \in Nat /\ recovered[r] \in Nat
    BY DEF Typed
  <2>4. Claimable(r)' = Claimable(r) /\ Claimable(r) \in {0, 1}
    BY <1>3 DEF Claimable
  <2>5. CASE r = s /\ m = k
    <3>1. told'[r][m] = told[r][m] + 1
      <4> DEFINE f == told[s]
      <4>1. told' = [told EXCEPT ![s] = [f EXCEPT ![k] = f[k] + 1]]
        BY <1>6
      <4>2. f \in [Media[Payment(s)] -> Nat] /\ s \in DOMAIN told
        BY <1>1 DEF Typed
      <4> HIDE DEF f, k
      <4>3. k \in Media[Payment(s)]
        BY <2>5
      <4>4. told'[s] = [f EXCEPT ![k] = f[k] + 1]
        BY <4>1, <4>2
      <4>5. told'[s][k] = f[k] + 1
        BY <4>2, <4>3, <4>4
      <4> QED
        BY <2>5, <4>5 DEF f
    <3>2. w \in Calling(r, m) /\ Calling(r, m)' \in SUBSET (Calling(r, m) \ {w})
      BY <1>1, <1>2, <1>4, <2>5 DEF Calling
    <3>3. Cardinality(Calling(r, m)') <= Cardinality(Calling(r, m)) - 1
      <4>1. IsFiniteSet(Calling(r, m) \ {w}) /\ Cardinality(Calling(r, m) \ {w}) = Cardinality(Calling(r, m)) - 1
        BY <2>2, <3>2, FS_RemoveElement
      <4> QED
        BY <3>2, <4>1, FS_Subset
    <3> QED
      BY <2>1, <2>2, <2>3, <2>4, <3>1, <3>3
  <2>6. CASE ~(r = s /\ m = k)
    <3>1. told'[r][m] = told[r][m]
      <4> DEFINE f == told[s]
      <4>1. told' = [told EXCEPT ![s] = [f EXCEPT ![k] = f[k] + 1]]
        BY <1>6
      <4>2. f \in [Media[Payment(s)] -> Nat] /\ s \in DOMAIN told /\ r \in DOMAIN told
        BY <1>1 DEF Typed
      <4> HIDE DEF f, k
      <4>3. CASE r # s
        BY <4>1, <4>2, <4>3
      <4>4. CASE r = s /\ m # k
        <5>1. told'[s] = [f EXCEPT ![k] = f[k] + 1]
          BY <4>1, <4>2
        <5>2. told'[s][m] = f[m]
          BY <4>2, <4>4, <5>1
        <5> QED
          BY <4>4, <5>2 DEF f
      <4> QED
        BY <2>6, <4>3, <4>4
    <3>2. Calling(r, m)' \in SUBSET Calling(r, m)
      BY <1>1, <1>4 DEF Calling
    <3>3. Cardinality(Calling(r, m)') <= Cardinality(Calling(r, m))
      BY <2>2, <3>2, FS_Subset
    <3> QED
      BY <2>1, <2>2, <2>3, <2>4, <3>1, <3>3
  <2> QED
    BY <2>5, <2>6
<1> QED
  BY <1>5, <1>6 DEF NotifyLink, NextMedium

(* A recovery allows one more claim, and is counted. *)
LEMMA RecoverNotifies ==
  ASSUME NEW P, NEW K, Typed(P, K), IsFiniteSet(Workers), NotifyInv, NEW w \in Workers,
         NEW s \in Reminders, RecoverReminder(w, s)
  PROVE  NotifyInv'
<1> SUFFICES ASSUME NEW r \in Reminders, NEW m \in Media[Payment(r)]
             PROVE  told[r][m] + Cardinality(Calling(r, m)) + Claimable(r)' <= 1 + recovered'[r]
  BY DEF RecoverReminder, NotifyInv, Calling
<1>1. told[r][m] + Cardinality(Calling(r, m)) + Claimable(r) <= 1 + recovered[r]
  BY DEF NotifyInv
<1>2. Cardinality(Calling(r, m)) \in Nat /\ told[r][m] \in Nat /\ recovered[r] \in Nat
  BY CallingSize DEF Typed
<1>3. Claimable(r) \in {0, 1} /\ Claimable(r)' \in {0, 1}
  BY DEF Claimable
<1>4. CASE r = s
  <2>1. recovered'[r] = recovered[r] + 1
    BY <1>4 DEF RecoverReminder, Typed
  <2>2. Claimable(r) = 0
    BY <1>4 DEF RecoverReminder, DueExecuting, Claimable
  <2> QED
    BY <1>1, <1>2, <1>3, <2>1, <2>2
<1>5. CASE r # s
  <2>1. recovered'[r] = recovered[r]
    BY <1>5 DEF RecoverReminder, Typed
  <2>2. Claimable(r)' = Claimable(r)
    BY <1>5, ReminderIsRow DEF RecoverReminder, Claimable, Typed
  <2> QED
    BY <1>1, <2>1, <2>2
<1> QED
  BY <1>4, <1>5


LEMMA RowFreesNone ==
  ASSUME NEW r \in Rows, NEW new, new \notin {"absent", "pending"}, status' = [status EXCEPT ![r] = new],
         DOMAIN status = Rows
  PROVE  NoneFreed
BY ReminderIsRow DEF NoneFreed

LEMMA LinkFreesNone ==
  ASSUME NEW p, NEW new, status' = [status EXCEPT ![Link(p)] = new]
  PROVE  NoneFreed
BY ReminderIsRow DEF NoneFreed

LEMMA ReminderStepNotifies ==
  ASSUME NEW P, NEW K, Typed(P, K), Wide(P), IsFiniteSet(Workers), NotifyInv, NEW w \in Workers,
         ReminderStep(w)
  PROVE  NotifyInv'
<1>1. DOMAIN wk = Workers /\ DOMAIN status = Rows
  BY DEF Typed
<1>2. ASSUME CallsNoMore(w), NoneFreed, UNCHANGED <<told, recovered>> PROVE NotifyInv'
  BY <1>2, NotifyKept
<1>3. ASSUME UNCHANGED status PROVE NoneFreed
  BY <1>3 DEF NoneFreed
<1>4. CASE ScheduleReminder(w)
  <2>1. wk[w].pc = "remind" /\ UNCHANGED <<told, recovered>>
    BY <1>4 DEF ScheduleReminder, At
  <2>2. wk[w] \in RemindPos
    BY <2>1, PositionAt DEF Typed
  <2>3. [wk[w] EXCEPT !.n = wk[w].n + 1].pc = "remind"
    BY <2>1, <2>2 DEF RemindPos
  <2>4. CallsNoMore(w)
    BY <1>1, <1>4, <2>3, DoneCallsNoMore, GotoCallsNoMore DEF ScheduleReminder, Calls
  <2>5. NoneFreed
    <3>1. CASE UNCHANGED <<status, at, done>>
      BY <1>3, <3>1
    <3>2. CASE ~UNCHANGED <<status, at, done>>
      <4> DEFINE r == <<wk[w].link, wk[w].n>>
      <4>1. r \in Reminders /\ status[r] = "absent" /\ \E x : status' = [status EXCEPT ![r] = x]
        BY <1>4, <3>2, MintedRow
      <4> HIDE DEF r
      <4> QED
        BY <1>1, <4>1, ReminderIsRow DEF NoneFreed
    <3> QED
      BY <3>1, <3>2
  <2> QED
    BY <1>2, <2>1, <2>4, <2>5
<1>5. CASE SettleReminder(w)
  <2>1. wk[w].row \in Rows /\ wk[w].verdict \in Verdicts \ {"executing"}
    BY <1>5, RowInHand, ReminderIsRow DEF SettleReminder, At
  <2>2. NoneFreed
    BY <1>1, <1>3, <1>5, <2>1, RowFreesNone DEF SettleReminder, Commit, Verdicts
  <2> QED
    BY <1>1, <1>2, <1>5, <2>2, DoneCallsNoMore DEF SettleReminder
<1>6. CASE FetchLink(w)
  <2>1. wk[w].row \in Rows /\ wk[w] \in CallPos /\ Calls(wk[w])
    BY <1>6, RowInHand, ReminderIsRow, PositionAt DEF FetchLink, At, Calls, Typed
  <2>2. NoneFreed
    BY <1>1, <1>3, <1>6, <2>1, RowFreesNone DEF FetchLink, Commit
  <2>3. /\ [wk[w] EXCEPT !.pc = "notify"].row = wk[w].row
        /\ [wk[w] EXCEPT !.pc = "notify"].left = wk[w].left
        /\ [wk[w] EXCEPT !.pc = "notify", !.blind = TRUE].row = wk[w].row
        /\ [wk[w] EXCEPT !.pc = "notify", !.blind = TRUE].left = wk[w].left
    BY <2>1 DEF CallPos
  <2>4. CallsNoMore(w)
    BY <1>1, <1>6, <2>1, <2>3, DoneCallsNoMore, GotoCallsNoMore DEF FetchLink
  <2> QED
    BY <1>2, <1>6, <2>2, <2>4 DEF FetchLink
<1>7. CASE FinishReminder(w)
  <2>1. wk[w].row \in Rows /\ (IF wk[w].got THEN "sent" ELSE "failed") \notin {"absent", "pending"}
    BY <1>7, RowInHand, ReminderIsRow DEF FinishReminder, At
  <2>2. NoneFreed
    BY <1>1, <1>7, <2>1, RowFreesNone DEF FinishReminder, Commit
  <2> QED
    BY <1>1, <1>2, <1>7, <2>2, DoneCallsNoMore DEF FinishReminder
<1>8. CASE VoidReminders(w)
  <2>1. CallsNoMore(w)
    <3>1. NextStop(wk[w].link) \in {"withdraw", "stop", "none"}
      BY DEF NextStop
    <3>2. PICK x : Goto(w, x) /\ x.pc \in {"withdraw", "stop", "idle"}
      BY <1>8, <3>1 DEF VoidReminders, Done, Idle
    <3> QED
      BY <1>1, <3>2, GotoCallsNoMore DEF Calls
  <2>2. NoneFreed
    BY <1>8, ReminderIsRow DEF VoidReminders, NoneFreed
  <2> QED
    BY <1>2, <1>8, <2>1, <2>2 DEF VoidReminders
<1>9. ASSUME NEW r \in Reminders, BeginReminder(w, r) PROVE NotifyInv'
  <2>1. CallsNoMore(w)
    BY <1>1, <1>9, GotoCallsNoMore DEF BeginReminder, Calls
  <2> QED
    BY <1>2, <1>3, <1>9, <2>1 DEF BeginReminder, rows
<1> QED
  BY <1>4, <1>5, <1>6, <1>7, <1>8, <1>9, ClaimNotifies, NotifyNotifies, RecoverNotifies DEF ReminderStep

LEMMA LinkStepNotifies ==
  ASSUME NEW P, NEW K, Typed(P, K), Wide(P), IsFiniteSet(Workers), NotifyInv, NEW w \in Workers,
         \/ LinkWork(w)
         \/ \E p \in Payments : ScheduleLink(w, p)
         \/ \E p \in Payments : \E x \in P : ~Calls(x) /\ ExecuteLink(w, p, x)
  PROVE  NotifyInv'
<1>1. DOMAIN wk = Workers
  BY DEF Typed
<1>2. ASSUME CallsNoMore(w), NoneFreed, UNCHANGED <<told, recovered>> PROVE NotifyInv'
  BY <1>2, NotifyKept
<1>3. ASSUME UNCHANGED status PROVE NoneFreed
  BY <1>3 DEF NoneFreed
<1>4. CASE LinkWork(w)
  <2>1. PICK p \in Payments : LinkWorkOf(w, p)
    BY <1>4, LinkWorkIs
  <2>2. NoneFreed
    BY <1>3, <2>1, LinkFreesNone DEF LinkWorkOf
  <2>3. PICK x : Goto(w, x) /\ x.pc \in LinkPcs \cup {"void", "idle"}
    BY <2>1 DEF LinkWorkOf
  <2>4. ~Calls(x)
    BY <2>3 DEF LinkPcs, StopPcs, Calls
  <2> QED
    BY <1>1, <1>2, <2>1, <2>2, <2>3, <2>4, GotoCallsNoMore DEF LinkWorkOf
<1>5. ASSUME NEW p \in Payments, ScheduleLink(w, p) PROVE NotifyInv'
  <2>1. NoneFreed
    BY <1>5, LinkFreesNone DEF ScheduleLink
  <2> QED
    BY <1>2, <1>5, <2>1, SameCallsNoMore DEF ScheduleLink
<1>6. ASSUME NEW p \in Payments, NEW x \in P, ~Calls(x), ExecuteLink(w, p, x) PROVE NotifyInv'
  <2>1. NoneFreed
    BY <1>6, LinkFreesNone DEF ExecuteLink, Commit
  <2>2. CallsNoMore(w)
    BY <1>1, <1>6, SameCallsNoMore, GotoCallsNoMore DEF ExecuteLink
  <2> QED
    BY <1>2, <1>6, <2>1, <2>2 DEF ExecuteLink
<1> QED
  BY <1>4, <1>5, <1>6

LEMMA WorldNotifies ==
  ASSUME NEW P, NEW K, Typed(P, K), IsFiniteSet(Workers), NotifyInv,
         \/ Tick
         \/ \E p \in Payments : PayLink(p)
         \/ \E w \in Workers : CrashWorker(w)
         \/ UNCHANGED <<status, told, recovered, wk>>
  PROVE  NotifyInv'
<1>1. ASSUME UNCHANGED <<status, told, recovered, wk>> PROVE NotifyInv'
  BY <1>1 DEF NotifyInv, Calling, Claimable
<1>2. ASSUME NEW w \in Workers, CrashWorker(w) PROVE NotifyInv'
  <2>1. CallsNoMore(w) /\ NoneFreed /\ UNCHANGED <<told, recovered>>
    BY <1>2, DoneCallsNoMore DEF CrashWorker, rows, NoneFreed, Typed
  <2> QED
    BY <2>1, NotifyKept
<1> QED
  BY <1>1, <1>2 DEF Tick, PayLink, rows

LEMMA NotifyInit == ASSUME IsFiniteSet(Workers), CInit PROVE NotifyInv
<1> SUFFICES ASSUME NEW r \in Reminders, NEW m \in Media[Payment(r)]
             PROVE  told[r][m] + Cardinality(Calling(r, m)) + Claimable(r) <= 1 + recovered[r]
  BY DEF NotifyInv
<1>1. Calling(r, m) = {}
  BY DEF CInit, Calling, Idle
<1>2. told[r][m] = 0 /\ recovered[r] = 0 /\ status[r] = "absent"
  BY ReminderIsRow DEF CInit, Payment
<1> QED
  BY <1>1, <1>2, FS_EmptySet DEF Claimable

LEMMA NotifyStep ==
  ASSUME CTypeInv, NotifyInv, IsFiniteSet(Workers), [CNext]_cvars
  PROVE  NotifyInv'
<1>1. Typed(Positions, OutcomeKinds) /\ Wide(Positions)
  BY PositionsWide DEF CTypeInv
<1>2. ASSUME NEW w \in Workers, NEW p \in Payments, SweepLink(w, p) PROVE NotifyInv'
  <2> DEFINE x == [pc |-> "remind", link |-> p, n |-> 1]
  <2>1. x \in Positions /\ ~Calls(x) /\ ExecuteLink(w, p, x)
    BY <1>2 DEF Positions, Calls, SweepLink
  <2> QED
    BY <1>1, <2>1, LinkStepNotifies
<1>3. ASSUME NEW w \in Workers, Sweep(w) \/ Work(w) \/ Event(w) PROVE NotifyInv'
  BY <1>1, <1>2, <1>3, ReminderStepNotifies, LinkStepNotifies
     DEF Sweep, Work, Event, SweepReminder, ReminderStep, LinkWork
<1>4. ASSUME \/ Tick
             \/ \E p \in Payments : PayLink(p)
             \/ \E w \in Workers : CrashWorker(w)
             \/ UNCHANGED cvars
      PROVE  NotifyInv'
  BY <1>1, <1>4, WorldNotifies DEF cvars
<1> QED
  BY <1>3, <1>4 DEF CNext

LEMMA NotifyImplies ==
  ASSUME NEW P, NEW K, Typed(P, K), IsFiniteSet(Workers), NotifyInv
  PROVE  OneNotifyPerClaim
<1> SUFFICES ASSUME NEW r \in Reminders, NEW m \in Media[Payment(r)]
             PROVE  told[r][m] <= 1 + recovered[r]
  BY DEF OneNotifyPerClaim
<1>1. told[r][m] + Cardinality(Calling(r, m)) + Claimable(r) <= 1 + recovered[r]
  BY DEF NotifyInv
<1>2. Cardinality(Calling(r, m)) \in Nat /\ told[r][m] \in Nat /\ recovered[r] \in Nat /\ Claimable(r) \in {0, 1}
  BY CallingSize DEF Typed, Claimable
<1> QED
  BY <1>1, <1>2

\* Whatever the number of processes that sweep, a customer hears a reminder at
\* most once on a medium for each claim of its row.
THEOREM NotifiedOnce ==
  ASSUME MonthsGoOn, IsFiniteSet(Workers)
  PROVE  CSpec => []OneNotifyPerClaim
<1>1. CTypeInv /\ CTypeInv' /\ NotifyInv /\ [CNext]_cvars => NotifyInv'
  BY NotifyStep
<1>2. CInit => NotifyInv
  BY NotifyInit
<1>3. CTypeInv /\ NotifyInv => OneNotifyPerClaim
  BY NotifyImplies DEF CTypeInv
<1> QED
  BY <1>1, <1>2, <1>3, CTypeInvariant, PTL DEF CSpec


-----------------------------------------------------------------------------
(* What serve promises of a reminder, its sweep and its events under one     *)
(* lock.  The guards are read in one step and acted on in later ones; the    *)
(* invariant carries them from the verdict to the last call.                *)

(* A worker mints the reminders of a link that is out, and has a row in hand *)
(* that exists.                                                             *)
Grounded(x) ==
  /\ x.pc = "remind" => x.link \in Payments /\ LinkOut(x.link)
  /\ x.pc \in {"judged", "fetch", "notify"} => x.row \in Reminders /\ status[x.row] # "absent"

MintInv ==
  /\ \A r \in Reminders : status[r] # "absent" => LinkOut(Payment(r))
  /\ \A w \in Workers : Grounded(wk[w])

Timely(r) ==
  /\ ~WithinQuietHours(at[r])
  /\ at[r] < LinkExpiry(Payment(r)) \/ at[r] <= NextAllowedSend(clock)

OnTime(r) ==
  /\ status[r] \in {"pending", "executing"} => Timely(r)
  /\ status[r] = "sent" => ~WithinQuietHours(done[r])

TimeInv == \A r \in Reminders : OnTime(r)

Ready(r) ==
  /\ ~LinkGone(Payment(r))
  /\ ~WithinQuietHours(clock)
  /\ SendsTo(Payment(r), clock) < Limit[Payment(r)]

Guarded(x) ==
  /\ x.pc = "judged" =>
       /\ x.now = clock
       /\ x.verdict = "executing" => Ready(x.row)
  /\ x.pc \in {"fetch", "notify"} =>
       /\ x.now = clock
       /\ Ready(x.row)
       /\ status[x.row] = "executing"
       /\ x.pc = "fetch" => x.open \/ ClosedAtRazorpay(Payment(x.row))
       /\ x.pc = "notify" => x.open \/ x.blind

GuardInv == \A w \in Workers : Guarded(wk[w])

CInv == CTypeInv /\ MintInv /\ TimeInv /\ GuardInv

(* What holds in a state of the invariant. *)
LEMMA CInvImplies ==
  ASSUME CInv
  PROVE  RemindsOpenLinks /\ ClosedLinkIsQuiet /\ RemindersKeepQuiet /\ ScheduledForOpenLink
<1>1. RemindsOpenLinks
  BY DEF CInv, GuardInv, Guarded, At, RemindsOpenLinks
<1>2. ClosedLinkIsQuiet
  BY DEF CInv, GuardInv, Guarded, At, Ready, LinkGone, ClosedLinkIsQuiet
<1>3. RemindersKeepQuiet
  BY DEF CInv, TimeInv, OnTime, RemindersKeepQuiet
<1>4. ScheduledForOpenLink
  BY DEF CInv, TimeInv, OnTime, Timely, ScheduledForOpenLink
<1> QED
  BY <1>1, <1>2, <1>3, <1>4

LEMMA CInvInit == ASSUME CInit PROVE CInv
<1>1. CTypeInv
  BY CTypeInit
<1>2. MintInv /\ TimeInv
  BY ReminderIsRow DEF CInit, MintInv, Grounded, TimeInv, OnTime, Idle
<1>3. GuardInv
  BY DEF CInit, GuardInv, Guarded, Idle
<1> QED
  BY <1>1, <1>2, <1>3 DEF CInv

-----------------------------------------------------------------------------
(* Reminders exist for links that went out. *)

LinksGoOut == \A p \in Payments : LinkOut(p) => LinkOut(p)'

(* A reminder is never unmade, and made for a link that is out only. *)
RowsGrow ==
  \A r \in Reminders :
    /\ status[r] # "absent" => status'[r] # "absent"
    /\ status'[r] # "absent" => status[r] # "absent" \/ LinkOut(Payment(r))

LEMMA MintKept ==
  ASSUME CTypeInv, MintInv, LinksGoOut, RowsGrow, NEW w \in Workers, NEW x, Goto(w, x), Grounded(x)'
  PROVE  MintInv'
<1>1. \A r \in Reminders : (status[r] # "absent" => LinkOut(Payment(r)))'
  BY ReminderIsRow DEF MintInv, LinksGoOut, RowsGrow
<1>2. \A v \in Workers : Grounded(wk[v])'
  <2> SUFFICES ASSUME NEW v \in Workers PROVE Grounded(wk[v])'
    OBVIOUS
  <2>1. CASE v = w
    BY <2>1 DEF Goto, CTypeInv, Typed
  <2>2. CASE v # w
    <3>1. wk'[v] = wk[v]
      BY <2>2 DEF Goto, CTypeInv, Typed
    <3>2. PICK y : y = wk[v] /\ y = wk'[v]
      BY <3>1
    <3>3. Grounded(y)'
      BY <3>2 DEF MintInv, Grounded, LinksGoOut, RowsGrow
    <3> QED
      BY <3>2, <3>3 DEF Grounded
  <2> QED
    BY <2>1, <2>2
<1> QED
  BY <1>1, <1>2 DEF MintInv

LEMMA MintSame ==
  ASSUME CTypeInv, MintInv, LinksGoOut, RowsGrow, UNCHANGED wk
  PROVE  MintInv'
<1>1. \A r \in Reminders : (status[r] # "absent" => LinkOut(Payment(r)))'
  BY ReminderIsRow DEF MintInv, LinksGoOut, RowsGrow
<1>2. \A v \in Workers : Grounded(wk[v])'
  BY DEF MintInv, Grounded, LinksGoOut, RowsGrow, LinkOut
<1> QED
  BY <1>1, <1>2 DEF MintInv

LEMMA MintDone ==
  ASSUME CTypeInv, MintInv, LinksGoOut, RowsGrow, NEW w \in Workers, Done(w)
  PROVE  MintInv'
BY MintKept DEF Done, Grounded, Idle

(* Writing a row that exists. *)
LEMMA RowGrows ==
  ASSUME CTypeInv, NEW r \in Reminders, status[r] # "absent", NEW new, new # "absent",
         status' = [status EXCEPT ![r] = new] \/ UNCHANGED status
  PROVE  RowsGrow
BY ReminderIsRow DEF RowsGrow, CTypeInv, Typed

LEMMA LinksOnlyMove ==
  ASSUME CTypeInv, NEW p \in Payments, NEW new, status' = [status EXCEPT ![Link(p)] = new] \/ UNCHANGED status
  PROVE  RowsGrow
BY ReminderIsRow DEF RowsGrow, CTypeInv, Typed

LEMMA MintReminderStep ==
  ASSUME CTypeInv, MintInv, NEW w \in Workers, ReminderStep(w)
  PROVE  MintInv'
<1>1. /\ Typed(Positions, OutcomeKinds) /\ Wide(Positions)
      /\ DOMAIN status = Rows /\ DOMAIN wk = Workers
  BY PositionsWide DEF CTypeInv, Typed
<1>2. LinksGoOut
  BY <1>1, ReminderStepLinks DEF LinksStay, LinkOut, LinksGoOut
<1>3. Grounded(wk[w])
  BY DEF MintInv
<1>4. ASSUME UNCHANGED status PROVE RowsGrow
  BY <1>4 DEF RowsGrow
<1>5. ASSUME RowsGrow, NEW x, Goto(w, x), Grounded(x)' PROVE MintInv'
  BY <1>2, <1>5, MintKept
<1>6. ASSUME RowsGrow, Done(w) PROVE MintInv'
  BY <1>2, <1>6, MintDone
<1>7. ASSUME NEW x, x.pc \in {"judged", "fetch", "notify"}, x.row \in Reminders, status[x.row] # "absent",
             RowsGrow
      PROVE  Grounded(x)'
  BY <1>7 DEF Grounded, RowsGrow
<1>8. CASE ScheduleReminder(w)
  <2>1. wk[w].pc = "remind" /\ wk[w] \in RemindPos
    BY <1>1, <1>8, PositionAt DEF ScheduleReminder, At, Typed
  <2>2. wk[w].link \in Payments /\ LinkOut(wk[w].link)
    BY <1>3, <2>1 DEF Grounded
  <2>3. RowsGrow
    <3>1. CASE UNCHANGED <<status, at, done>>
      BY <1>4, <3>1
    <3>2. CASE ~UNCHANGED <<status, at, done>>
      <4> DEFINE s == <<wk[w].link, wk[w].n>>
      <4>1. /\ s \in Reminders /\ Payment(s) = wk[w].link
            /\ status' = [status EXCEPT ![s] = MintedStatus(wk[w].link)]
        BY <1>1, <1>8, <3>2, MintedRow
      <4>2. MintedStatus(wk[w].link) # "absent"
        BY DEF MintedStatus
      <4> HIDE DEF s
      <4> QED
        BY <1>1, <2>2, <4>1, <4>2, ReminderIsRow DEF RowsGrow
    <3> QED
      BY <3>1, <3>2
  <2>4. CASE Done(w)
    BY <1>6, <2>3, <2>4
  <2>5. CASE Goto(w, [wk[w] EXCEPT !.n = wk[w].n + 1])
    <3>1. PICK x : Goto(w, x) /\ x.pc = "remind" /\ x.link = wk[w].link
      BY <2>1, <2>5 DEF RemindPos
    <3>2. PICK p \in Payments : p = wk[w].link /\ LinkOut(p)
      BY <2>2
    <3>3. LinkOut(p)'
      BY <1>2, <3>2 DEF LinksGoOut
    <3>4. Grounded(x)'
      BY <3>1, <3>2, <3>3 DEF Grounded
    <3> QED
      BY <1>5, <2>3, <3>1, <3>4
  <2> QED
    BY <1>8, <2>4, <2>5 DEF ScheduleReminder
<1>9. CASE SettleReminder(w)
  <2>1. wk[w].pc = "judged" /\ wk[w].row \in Reminders /\ status[wk[w].row] # "absent" /\ wk[w].verdict \in Verdicts
    BY <1>1, <1>3, <1>9, RowInHand DEF SettleReminder, At, Grounded
  <2>2. RowsGrow
    <3>1. PICK new : new # "absent" /\ (status' = [status EXCEPT ![wk[w].row] = new] \/ UNCHANGED status)
      BY <1>9, <2>1 DEF SettleReminder, Commit, Verdicts
    <3> QED
      BY <2>1, <3>1, RowGrows
  <2> QED
    BY <1>6, <1>9, <2>2 DEF SettleReminder
<1>10. CASE ClaimReminder(w)
  <2>1. wk[w].pc = "judged" /\ wk[w].row \in Reminders /\ status[wk[w].row] # "absent"
    BY <1>3, <1>10 DEF ClaimReminder, At, Grounded
  <2>2. RowsGrow
    BY <1>10, <2>1, RowGrows DEF ClaimReminder, Commit
  <2>3. CASE Done(w)
    BY <1>6, <2>2, <2>3
  <2>4. CASE Goto(w, Called(wk[w].row, wk[w].now))
    <3>1. PICK x : Goto(w, x) /\ x.pc = "fetch" /\ x.row = wk[w].row
      BY <2>4 DEF Called
    <3> QED
      BY <1>5, <1>7, <2>1, <2>2, <3>1
  <2> QED
    BY <1>10, <2>3, <2>4 DEF ClaimReminder, Called
<1>11. CASE FetchLink(w)
  <2>1. wk[w].row \in Reminders /\ status[wk[w].row] # "absent" /\ wk[w] \in CallPos
    BY <1>1, <1>3, <1>11, PositionAt DEF FetchLink, At, Grounded, Typed
  <2>2. RowsGrow
    BY <1>11, <2>1, RowGrows DEF FetchLink, Commit
  <2>3. CASE Done(w)
    BY <1>6, <2>2, <2>3
  <2>4. CASE \/ Goto(w, [wk[w] EXCEPT !.pc = "notify"])
             \/ Goto(w, [wk[w] EXCEPT !.pc = "notify", !.blind = TRUE])
    <3>1. PICK x : Goto(w, x) /\ x.pc = "notify" /\ x.row = wk[w].row
      <4> DEFINE answered == [wk[w] EXCEPT !.pc = "notify"]
                 silent == [wk[w] EXCEPT !.pc = "notify", !.blind = TRUE]
      <4>1. /\ answered.pc = "notify" /\ answered.row = wk[w].row
            /\ silent.pc = "notify" /\ silent.row = wk[w].row
        BY <2>1 DEF CallPos
      <4>2. Goto(w, answered) \/ Goto(w, silent)
        BY <2>4
      <4> HIDE DEF answered, silent
      <4> QED
        BY <4>1, <4>2
    <3> QED
      BY <1>5, <1>7, <2>1, <2>2, <3>1
  <2> QED
    BY <1>11, <2>3, <2>4 DEF FetchLink
<1>12. CASE NotifyLink(w)
  <2>1. wk[w].row \in Reminders /\ status[wk[w].row] # "absent" /\ wk[w] \in CallPos /\ wk[w].pc = "notify"
    BY <1>1, <1>3, <1>12, PositionAt DEF NotifyLink, At, Grounded, Typed
  <2>2. PICK x : Goto(w, x) /\ x.pc = "notify" /\ x.row = wk[w].row
    <3> DEFINE k == NextMedium(w)
               y == wk[w]
               asked == [y EXCEPT !.left = y.left \ {k}]
    <3>1. asked \in CallPos /\ asked.pc = "notify" /\ asked.row = wk[w].row
      BY <2>1 DEF CallPos
    <3>2. Goto(w, asked) \/ Goto(w, [asked EXCEPT !.got = TRUE])
      BY <1>12 DEF NotifyLink, NextMedium
    <3>3. LET x == [asked EXCEPT !.got = TRUE] IN x.pc = "notify" /\ x.row = wk[w].row
      BY <3>1 DEF CallPos
    <3> HIDE DEF asked
    <3> QED
      BY <3>1, <3>2, <3>3
  <2>3. RowsGrow
    BY <1>4, <1>12 DEF NotifyLink, rows
  <2> QED
    BY <1>5, <1>7, <2>1, <2>2, <2>3
<1>13. CASE FinishReminder(w)
  <2>1. wk[w].row \in Reminders /\ status[wk[w].row] # "absent"
    BY <1>3, <1>13 DEF FinishReminder, At, Grounded
  <2>2. RowsGrow
    <3>1. PICK new \in {"sent", "failed"} : status' = [status EXCEPT ![wk[w].row] = new]
      BY <1>13 DEF FinishReminder, Commit
    <3> QED
      BY <2>1, <3>1, RowGrows
  <2> QED
    BY <1>6, <1>13, <2>2 DEF FinishReminder
<1>14. CASE VoidReminders(w)
  <2>1. RowsGrow
    BY <1>14, ReminderIsRow DEF VoidReminders, RowsGrow, PendingReminders
  <2>2. CASE Done(w)
    BY <1>6, <2>1, <2>2
  <2>3. CASE \E pc \in {"withdraw", "stop"} : Goto(w, [pc |-> pc, link |-> wk[w].link])
    <3>1. PICK x : Goto(w, x) /\ x.pc \in {"withdraw", "stop"}
      BY <2>3
    <3> QED
      BY <1>5, <2>1, <3>1 DEF Grounded
  <2>4. NextStop(wk[w].link) \in {"withdraw", "stop", "none"}
    BY DEF NextStop
  <2> QED
    BY <1>14, <2>2, <2>3, <2>4 DEF VoidReminders
<1>15. ASSUME NEW r \in Reminders, BeginReminder(w, r) PROVE MintInv'
  <2>1. status[r] # "absent" /\ RowsGrow
    BY <1>4, <1>15 DEF BeginReminder, rows
  <2>2. PICK x : Goto(w, x) /\ x.pc = "judged" /\ x.row = r
    BY <1>15 DEF BeginReminder
  <2> QED
    BY <1>5, <1>7, <2>1, <2>2
<1>16. ASSUME NEW r \in Reminders, RecoverReminder(w, r) PROVE MintInv'
  <2>1. status[r] # "absent"
    BY <1>16 DEF RecoverReminder, DueExecuting
  <2>2. RowsGrow
    BY <1>16, <2>1, RowGrows DEF RecoverReminder
  <2> QED
    BY <1>2, <1>16, <2>2, MintSame DEF RecoverReminder
<1> QED
  BY <1>8, <1>9, <1>10, <1>11, <1>12, <1>13, <1>14, <1>15, <1>16 DEF ReminderStep

LEMMA MintLinkStep ==
  ASSUME CTypeInv, MintInv, NEW w \in Workers,
         LinkWork(w) \/ \E p \in Payments : SweepLink(w, p) \/ ScheduleLink(w, p)
  PROVE  MintInv'
<1>1. ASSUME NEW p \in Payments, NEW new, status' = [status EXCEPT ![Link(p)] = new],
             LinkOut(p) => new \notin {"absent", "pending"}
      PROVE  LinksGoOut /\ RowsGrow
  <2>1. /\ status'[Link(p)] = new
        /\ \A q \in Payments \ {p} : status'[Link(q)] = status[Link(q)]
    BY <1>1, LinkMoves DEF CTypeInv, Typed
  <2>2. LinksGoOut
    BY <1>1, <2>1 DEF LinksGoOut, LinkOut
  <2> QED
    BY <1>1, <2>2, LinksOnlyMove
<1>2. ASSUME UNCHANGED status PROVE LinksGoOut /\ RowsGrow
  BY <1>2 DEF LinksGoOut, LinkOut, RowsGrow
<1>3. CASE LinkWork(w)
  <2>1. PICK p \in Payments : LinkWorkOf(w, p)
    BY <1>3, LinkWorkIs, PositionsWide DEF CTypeInv
  <2>2. LinksGoOut /\ RowsGrow
    BY <1>1, <1>2, <2>1 DEF LinkWorkOf
  <2>3. PICK x : Goto(w, x) /\ x.pc \in LinkPcs \cup {"void", "idle"}
    BY <2>1 DEF LinkWorkOf
  <2>4. Grounded(x)'
    BY <2>3 DEF Grounded, LinkPcs, StopPcs
  <2> QED
    BY <2>2, <2>3, <2>4, MintKept
<1>4. ASSUME NEW p \in Payments, SweepLink(w, p) PROVE MintInv'
  <2> DEFINE x == [pc |-> "remind", link |-> p, n |-> 1]
  <2>1. ExecuteLink(w, p, x) /\ DOMAIN status = Rows
    BY <1>4 DEF SweepLink, CTypeInv, Typed
  <2>2. PICK new \in {"no_action", "shadow", "sent", "failed"} : status' = [status EXCEPT ![Link(p)] = new]
    BY <2>1 DEF ExecuteLink, Commit
  <2>3. LinksGoOut /\ RowsGrow
    BY <1>1, <2>2
  <2>4. LinkOut(p)'
    BY <2>1, <2>2, LinkIsRow DEF LinkOut
  <2>5. Grounded(x)'
    BY <2>4 DEF Grounded
  <2> QED
    BY <2>1, <2>3, <2>5, MintKept, MintSame DEF ExecuteLink
<1>5. ASSUME NEW p \in Payments, ScheduleLink(w, p) PROVE MintInv'
  <2>1. LinksGoOut /\ RowsGrow
    BY <1>1, <1>5 DEF ScheduleLink, LinkOut
  <2> QED
    BY <1>5, <2>1, MintSame DEF ScheduleLink
<1> QED
  BY <1>3, <1>4, <1>5

LEMMA MintStep ==
  ASSUME CTypeInv, MintInv, [CNext]_cvars
  PROVE  MintInv'
<1>1. ASSUME UNCHANGED status PROVE LinksGoOut /\ RowsGrow
  BY <1>1 DEF LinksGoOut, LinkOut, RowsGrow
<1>2. ASSUME NEW w \in Workers, Sweep(w) \/ Work(w) \/ Event(w) PROVE MintInv'
  BY <1>2, MintReminderStep, MintLinkStep DEF Sweep, Work, Event, SweepReminder, ReminderStep, LinkWork
<1>3. ASSUME NEW w \in Workers, CrashWorker(w) PROVE MintInv'
  BY <1>1, <1>3, MintDone DEF CrashWorker, rows
<1>4. ASSUME UNCHANGED <<status, wk>> PROVE MintInv'
  BY <1>1, <1>4, MintSame
<1>5. ASSUME Tick \/ (\E p \in Payments : PayLink(p)) \/ UNCHANGED cvars PROVE MintInv'
  BY <1>4, <1>5 DEF Tick, PayLink, rows, cvars
<1> QED
  BY <1>2, <1>3, <1>5 DEF CNext


-----------------------------------------------------------------------------
(* The guards hold until the worker is done with the row.                   *)

LEMMA ReadyKept ==
  ASSUME CTypeInv, NEW r \in Reminders, Ready(r), UNCHANGED <<clock, orderPaid, outcome, done>>,
         \A p \in Payments : status'[Link(p)] = status[Link(p)],
         \A q \in Rows : status'[q] \in Contacted <=> status[q] \in Contacted
  PROVE  Ready(r)'
<1>1. Payment(r) \in Payments
  BY ReminderIsRow
<1>2. LinkGone(Payment(r))' <=> LinkGone(Payment(r))
  BY <1>1 DEF LinkGone, Ended
<1>3. ContactRows(Payment(r))' = ContactRows(Payment(r))
  BY DEF ContactRows
<1>4. SendsTo(Payment(r), clock)' = SendsTo(Payment(r), clock)
  BY <1>3 DEF SendsTo, ContactSends
<1> QED
  BY <1>2, <1>4 DEF Ready

(* With one process a step of w leaves nobody else to disturb. *)
LEMMA GuardMoved ==
  ASSUME CTypeInv, OneProcess, NEW w \in Workers, NEW x, Goto(w, x), Guarded(x)'
  PROVE  GuardInv'
<1> SUFFICES ASSUME NEW v \in Workers PROVE Guarded(wk[v])'
  BY DEF GuardInv
<1>1. v = w
  BY DEF OneProcess
<1>2. wk'[v] = x
  BY <1>1 DEF Goto, CTypeInv, Typed
<1> QED
  BY <1>2

Quiet(x) == x.pc \notin {"judged", "fetch", "notify"}

LEMMA QuietIsGuarded == ASSUME NEW x, Quiet(x) PROVE Guarded(x)'
BY DEF Quiet, Guarded

LEMMA GuardQuiet ==
  ASSUME CTypeInv, OneProcess, NEW w \in Workers, NEW x, Goto(w, x), Quiet(x)
  PROVE  GuardInv'
BY GuardMoved, QuietIsGuarded

LEMMA GuardDone ==
  ASSUME CTypeInv, OneProcess, NEW w \in Workers, Done(w)
  PROVE  GuardInv'
BY GuardQuiet DEF Done, Quiet, Idle

LEMMA GuardIdle ==
  ASSUME CTypeInv, OneProcess, NEW w \in Workers, ~Busy(w), UNCHANGED wk
  PROVE  GuardInv'
<1>1. \A v \in Workers : wk'[v] = Idle
  BY DEF OneProcess, Busy
<1> QED
  BY <1>1 DEF GuardInv, Guarded, Idle

LEMMA GuardReminderStep ==
  ASSUME CTypeInv, GuardInv, OneProcess, NEW w \in Workers, ReminderStep(w)
  PROVE  GuardInv'
<1>1. /\ Typed(Positions, OutcomeKinds) /\ Wide(Positions)
      /\ DOMAIN status = Rows /\ DOMAIN wk = Workers
  BY PositionsWide DEF CTypeInv, Typed
<1>2. LinksStay
  BY <1>1, ReminderStepLinks
<1>3. Guarded(wk[w])
  BY DEF GuardInv
<1>4. ASSUME NEW x, Goto(w, x), Quiet(x) PROVE GuardInv'
  BY <1>4, GuardQuiet
<1>5. CASE Done(w)
  BY <1>5, GuardDone
<1>6. CASE ScheduleReminder(w)
  <2>1. [wk[w] EXCEPT !.n = wk[w].n + 1].pc = "remind"
    BY <1>1, <1>6, PositionAt DEF ScheduleReminder, At, Typed, RemindPos
  <2> QED
    BY <1>4, <1>5, <1>6, <2>1 DEF ScheduleReminder, Quiet
<1>7. CASE ClaimReminder(w)
  <2> DEFINE r == wk[w].row
  <2>1. wk[w].pc = "judged" /\ r \in Reminders /\ r \in Rows /\ Payment(r) \in Payments
    BY <1>1, <1>7, RowInHand, ReminderIsRow DEF ClaimReminder, At
  <2>2. wk[w].now = clock /\ Ready(r)
    BY <1>3, <1>7, <2>1 DEF Guarded, ClaimReminder
  <2>3. CASE status[r] = "pending"
    <3>1. Commit(r, "executing", clock) /\ Goto(w, Called(r, clock))
      BY <1>7, <2>2, <2>3 DEF ClaimReminder, Called
    <3>2. status' = [status EXCEPT ![r] = "executing"] /\ done' = done
      <4>1. done' = [done EXCEPT ![r] = @]
        BY <3>1 DEF Commit
      <4> QED
        BY <1>1, <3>1, <4>1 DEF Commit, Typed
    <3>3. PICK s \in Reminders : s = r
      BY <2>1
    <3>4. Ready(s)'
      BY <1>1, <1>2, <2>1, <2>2, <2>3, <3>2, <3>3, ReadyKept DEF LinksStay, Contacted
    <3>5. status'[s] = "executing"
      BY <1>1, <2>1, <3>2, <3>3
    <3>6. ClosedAtRazorpay(Payment(s))' <=> ClosedAtRazorpay(Payment(s))
      BY <1>2, <3>2 DEF LinksStay, ClosedAtRazorpay, LinkExpiry
    <3>7. PICK x : /\ Goto(w, x) /\ x.pc = "fetch" /\ x.row = s /\ x.now = clock
                   /\ x.open = ~ClosedAtRazorpay(Payment(s))
      BY <3>1, <3>3 DEF Called
    <3>8. Guarded(x)'
      BY <1>2, <3>4, <3>5, <3>6, <3>7 DEF Guarded, LinksStay
    <3> QED
      BY <3>7, <3>8, GuardMoved
  <2>4. CASE status[r] # "pending"
    BY <1>5, <1>7, <2>4 DEF ClaimReminder
  <2> QED
    BY <2>3, <2>4
<1>8. CASE FetchLink(w)
  <2>1. wk[w].pc = "fetch" /\ wk[w] \in CallPos
    BY <1>1, <1>8, PositionAt DEF FetchLink, At, Typed
  <2>2. PICK s \in Reminders : s = wk[w].row
    BY <2>1 DEF CallPos
  <2>3. /\ wk[w].now = clock /\ Ready(s) /\ status[s] = "executing"
        /\ wk[w].open \/ ClosedAtRazorpay(Payment(s))
    BY <1>3, <2>1, <2>2 DEF Guarded
  <2>4. ASSUME NEW x, Goto(w, x), UNCHANGED <<status, done>>, x.pc = "notify", x.row = s, x.now = clock,
               x.open \/ x.blind
        PROVE  GuardInv'
    <3>1. Ready(s)'
      BY <1>2, <2>3, <2>4, ReadyKept DEF LinksStay
    <3>2. Guarded(x)'
      BY <1>2, <2>3, <2>4, <3>1 DEF Guarded, LinksStay
    <3> QED
      BY <2>4, <3>2, GuardMoved
  <2>5. CASE /\ ~FetchSaysClosed(Payment(s)) /\ Goto(w, [wk[w] EXCEPT !.pc = "notify"])
             /\ UNCHANGED <<status, done>>
    <3> DEFINE answered == [wk[w] EXCEPT !.pc = "notify"]
    <3>1. answered.pc = "notify" /\ answered.row = s /\ answered.now = clock /\ answered.open
      BY <2>1, <2>2, <2>3, <2>5 DEF CallPos, FetchSaysClosed
    <3> HIDE DEF answered
    <3>2. Goto(w, answered)
      BY <2>5 DEF answered
    <3> QED
      BY <2>4, <2>5, <3>1, <3>2
  <2>6. CASE /\ Goto(w, [wk[w] EXCEPT !.pc = "notify", !.blind = TRUE])
             /\ UNCHANGED <<status, done>>
    <3> DEFINE silent == [wk[w] EXCEPT !.pc = "notify", !.blind = TRUE]
    <3>1. silent.pc = "notify" /\ silent.row = s /\ silent.now = clock /\ silent.blind
      BY <2>1, <2>2, <2>3 DEF CallPos
    <3> HIDE DEF silent
    <3>2. Goto(w, silent)
      BY <2>6 DEF silent
    <3> QED
      BY <2>4, <2>6, <3>1, <3>2
  <2> QED
    BY <1>5, <1>8, <2>2, <2>5, <2>6 DEF FetchLink
<1>9. CASE NotifyLink(w)
  <2>1. wk[w].pc = "notify" /\ wk[w] \in CallPos
    BY <1>1, <1>9, PositionAt DEF NotifyLink, At, Typed
  <2>2. PICK s \in Reminders : s = wk[w].row
    BY <2>1 DEF CallPos
  <2>3. wk[w].now = clock /\ Ready(s) /\ status[s] = "executing" /\ (wk[w].open \/ wk[w].blind)
    BY <1>3, <2>1, <2>2 DEF Guarded
  <2>4. PICK x : Goto(w, x) /\ x.pc = "notify" /\ x.row = s /\ x.now = clock /\ (x.open \/ x.blind)
    <3> DEFINE k == NextMedium(w)
               y == wk[w]
               asked == [y EXCEPT !.left = y.left \ {k}]
    <3>1. /\ asked \in CallPos /\ asked.pc = "notify" /\ asked.row = s /\ asked.now = clock
          /\ asked.open \/ asked.blind
      BY <2>1, <2>2, <2>3 DEF CallPos
    <3>2. Goto(w, asked) \/ Goto(w, [asked EXCEPT !.got = TRUE])
      BY <1>9 DEF NotifyLink, NextMedium
    <3>3. LET x == [asked EXCEPT !.got = TRUE]
          IN  x.pc = "notify" /\ x.row = s /\ x.now = clock /\ (x.open \/ x.blind)
      BY <3>1 DEF CallPos
    <3> HIDE DEF asked
    <3> QED
      BY <3>1, <3>2, <3>3
  <2>5. Ready(s)'
    BY <1>9, <2>3, ReadyKept DEF NotifyLink, rows
  <2>6. Guarded(x)'
    BY <1>9, <2>3, <2>4, <2>5 DEF Guarded, NotifyLink, rows
  <2> QED
    BY <2>4, <2>6, GuardMoved
<1>10. CASE VoidReminders(w)
  <2>1. NextStop(wk[w].link) \in {"withdraw", "stop", "none"}
    BY DEF NextStop
  <2> QED
    BY <1>4, <1>5, <1>10, <2>1 DEF VoidReminders, Quiet
<1>11. ASSUME NEW r \in Reminders, BeginReminder(w, r) PROVE GuardInv'
  <2>1. PICK x : Goto(w, x) /\ x.pc = "judged" /\ x.row = r /\ x.now = clock /\ x.verdict = Verdict(Payment(r), clock)
    BY <1>11 DEF BeginReminder
  <2>2. Verdict(Payment(r), clock) = "executing" => Ready(r)
    BY DEF Verdict, Ready, CapAllows
  <2>3. Ready(r) => Ready(r)'
    BY <1>11, ReadyKept DEF BeginReminder, rows
  <2>4. Guarded(x)'
    BY <1>11, <2>1, <2>2, <2>3 DEF Guarded, BeginReminder
  <2> QED
    BY <2>1, <2>4, GuardMoved
<1>12. ASSUME NEW r \in Reminders, RecoverReminder(w, r) PROVE GuardInv'
  BY <1>12, GuardIdle DEF RecoverReminder
<1> QED
  BY <1>5, <1>6, <1>7, <1>8, <1>9, <1>10, <1>11, <1>12 DEF ReminderStep, SettleReminder, FinishReminder


LEMMA GuardStep ==
  ASSUME CTypeInv, GuardInv, OneProcess, [CNext]_cvars
  PROVE  GuardInv'
<1>1. ASSUME NEW w \in Workers, NEW p \in Payments, SweepLink(w, p) PROVE GuardInv'
  BY <1>1, GuardIdle, GuardQuiet DEF SweepLink, ExecuteLink, Quiet
<1>2. ASSUME NEW w \in Workers, LinkWork(w) PROVE GuardInv'
  <2>1. \E p \in Payments : LinkWorkOf(w, p)
    BY <1>2, LinkWorkIs, PositionsWide DEF CTypeInv
  <2>2. PICK x : Goto(w, x) /\ x.pc \in LinkPcs \cup {"void", "idle"}
    BY <2>1 DEF LinkWorkOf
  <2>3. Quiet(x)
    BY <2>2 DEF Quiet, LinkPcs, StopPcs
  <2> QED
    BY <2>2, <2>3, GuardQuiet
<1>3. ASSUME NEW w \in Workers, Event(w) PROVE GuardInv'
  <2>1. ASSUME NEW p \in Payments, ScheduleLink(w, p) PROVE GuardInv'
    BY <2>1, GuardIdle DEF ScheduleLink
  <2> QED
    BY <1>2, <1>3, <2>1 DEF Event, LinkWork
<1>4. ASSUME NEW w \in Workers, Sweep(w) \/ Work(w) PROVE GuardInv'
  BY <1>1, <1>2, <1>4, GuardReminderStep DEF Sweep, Work, SweepReminder, ReminderStep, LinkWork
<1>5. ASSUME NEW w \in Workers, CrashWorker(w) PROVE GuardInv'
  BY <1>5, GuardDone DEF CrashWorker
<1>6. ASSUME Tick PROVE GuardInv'
  BY <1>6 DEF Tick, Busy, GuardInv, Guarded, Idle
<1>7. ASSUME NEW p \in Payments, PayLink(p) PROVE GuardInv'
  <2> SUFFICES ASSUME NEW w \in Workers PROVE Guarded(wk[w])'
    BY DEF GuardInv
  <2>1. PICK x \in Positions : x = wk[w] /\ wk'[w] = x
    BY <1>7 DEF PayLink, CTypeInv, Typed
  <2>2. Guarded(x)
    BY <2>1 DEF GuardInv
  <2>3. UNCHANGED <<clock, status, done, outcome, orderPaid>> /\ x.pc \in {"judged", "fetch", "notify"} => x.row \in Reminders
    BY <1>7, <2>1, RowInHand, PositionsWide DEF PayLink, rows, CTypeInv
  <2>4. x.pc \in {"judged", "fetch", "notify"} /\ Ready(x.row) => Ready(x.row)'
    BY <1>7, <2>3, ReadyKept DEF PayLink, rows
  <2>5. \A q \in Payments : ClosedAtRazorpay(q) => ClosedAtRazorpay(q)'
    BY <1>7 DEF PayLink, rows, ClosedAtRazorpay, LinkExpiry, CTypeInv, Typed
  <2>6. Guarded(x)'
    BY <1>7, <2>2, <2>3, <2>4, <2>5, ReminderIsRow DEF Guarded, PayLink, rows
  <2> QED
    BY <2>1, <2>6
<1>8. ASSUME UNCHANGED cvars PROVE GuardInv'
  BY <1>8 DEF cvars, GuardInv, Guarded, Ready, LinkGone, Ended, SendsTo, ContactRows, ClosedAtRazorpay, LinkExpiry
<1> QED
  BY <1>3, <1>4, <1>5, <1>6, <1>7, <1>8 DEF CNext

-----------------------------------------------------------------------------
(* The hours of the reminders. *)

LEMMA TimelyKept ==
  ASSUME CTypeInv, NEW r \in Reminders, Timely(r), at'[r] = at[r], clock' \in Nat, clock <= clock',
         done'[Link(Payment(r))] = done[Link(Payment(r))]
  PROVE  Timely(r)'
<1>1. at[r] \in Nat /\ clock \in Nat /\ at[r] \in Int
  BY ReminderIsRow DEF CTypeInv, Typed
<1>2. NextAllowedSend(clock) <= NextAllowedSend(clock')
  BY <1>1, AllowedSendIsMonotone
<1>3. NextAllowedSend(clock) \in Nat /\ NextAllowedSend(clock') \in Nat
  BY <1>1, AllowedSend
<1>4. NextAllowedSend(clock)' = NextAllowedSend(clock')
  BY DEF NextAllowedSend, WithinQuietHours, Hour, Day
<1>5. WithinQuietHours(at[r])' <=> WithinQuietHours(at[r])
  BY DEF WithinQuietHours, Hour
<1>6. LinkExpiry(Payment(r))' = LinkExpiry(Payment(r))
  BY DEF LinkExpiry
<1>7. at[r] <= NextAllowedSend(clock) => at[r] <= NextAllowedSend(clock')
  BY <1>1, <1>2, <1>3
<1> QED
  BY <1>4, <1>5, <1>6, <1>7 DEF Timely

(* A row a step leaves as it is, but for its claim or the recovery of it. *)
RowStays(r) ==
  /\ at'[r] = at[r] /\ done'[r] = done[r]
  /\ \/ status'[r] = status[r]
     \/ {status[r], status'[r]} \subseteq {"pending", "executing"}

LEMMA RowKept ==
  ASSUME CTypeInv, TimeInv, clock' \in Nat, clock <= clock', NEW r \in Reminders, RowStays(r),
         status[r] \in {"pending", "executing"} =>
           done'[Link(Payment(r))] = done[Link(Payment(r))]
  PROVE  OnTime(r)'
<1>1. status'[r] \in {"pending", "executing"} => Timely(r)'
  BY TimelyKept DEF TimeInv, OnTime, RowStays
<1>2. status'[r] = "sent" => ~WithinQuietHours(done'[r])
  BY DEF TimeInv, OnTime, RowStays
<1> QED
  BY <1>1, <1>2 DEF OnTime, WithinQuietHours, Hour

LEMMA RowClosed ==
  ASSUME NEW r, status'[r] \notin {"pending", "executing", "sent"}
  PROVE  OnTime(r)'
BY DEF OnTime

(* A step on row s alone that leaves the links alone. *)
LEMMA TimeByRow ==
  ASSUME CTypeInv, TimeInv, LinksStay, NEW s \in Reminders, OnTime(s)',
         \A r \in Reminders \ {s} : RowStays(r)
  PROVE  TimeInv'
<1> SUFFICES ASSUME NEW r \in Reminders PROVE OnTime(r)'
  BY DEF TimeInv
<1>1. CASE r = s
  BY <1>1
<1>2. CASE r # s
  <2>1. done'[Link(Payment(r))] = done[Link(Payment(r))] /\ clock' = clock /\ clock \in Nat
    BY ReminderIsRow DEF LinksStay, CTypeInv, Typed
  <2> QED
    BY <1>2, <2>1, RowKept
<1> QED
  BY <1>1, <1>2

LEMMA CommitOnTime ==
  ASSUME CTypeInv, TimeInv, LinksStay, NEW s \in Reminders, NEW new, NEW when, Commit(s, new, when),
         UNCHANGED at, OnTime(s)'
  PROVE  TimeInv'
<1>1. \A r \in Reminders \ {s} : RowStays(r)
  BY ReminderIsRow DEF Commit, RowStays, CTypeInv, Typed
<1> QED
  BY <1>1, TimeByRow

LEMMA TimeReminderStep ==
  ASSUME CTypeInv, MintInv, TimeInv, GuardInv, NEW w \in Workers, ReminderStep(w)
  PROVE  TimeInv'
<1>1. /\ Typed(Positions, OutcomeKinds) /\ Wide(Positions)
      /\ DOMAIN status = Rows /\ DOMAIN at = Rows /\ DOMAIN done = Rows
      /\ clock \in Nat /\ clock <= clock
  BY PositionsWide DEF CTypeInv, Typed
<1>2. LinksStay /\ clock' = clock
  BY <1>1, ReminderStepLinks DEF LinksStay
<1>3. Guarded(wk[w])
  BY DEF GuardInv
<1>4. ASSUME UNCHANGED <<status, at, done>> PROVE TimeInv'
  <2>1. \A r \in Reminders : RowStays(r) /\ done'[Link(Payment(r))] = done[Link(Payment(r))]
    BY <1>4 DEF RowStays
  <2>2. \A r \in Reminders : OnTime(r)'
    BY <1>1, <1>2, <2>1, RowKept
  <2> QED
    BY <2>2 DEF TimeInv
<1>5. CASE ScheduleReminder(w)
  <2>1. CASE UNCHANGED <<status, at, done>>
    BY <1>4, <2>1
  <2>2. CASE ~UNCHANGED <<status, at, done>>
    <3> DEFINE p == wk[w].link
               n == wk[w].n
    <3>0. PICK q \in Payments : q = p
      BY <1>1, <1>5, <2>2, MintedRow
    <3>1. PICK k \in 1..Len(Offsets(q)) : k = n
      BY <1>1, <1>5, <2>2, <3>0, MintedRow
    <3>2. PICK s \in Reminders : s = <<q, k>> /\ Payment(s) = q
      BY ReminderOf
    <3>3. /\ WithinExpiry(q, k)
          /\ status' = [status EXCEPT ![s] = MintedStatus(q)]
          /\ at' = [at EXCEPT ![s] = IF ~CapAllows(q, clock) THEN clock ELSE ReminderTime(q, k)]
          /\ done' = [done EXCEPT ![s] = IF MintedStatus(q) = "shadow" THEN clock ELSE 0]
      BY <1>1, <1>5, <2>2, <3>0, <3>1, <3>2, MintedRow
    <3> HIDE DEF p, n
    <3>4. \A r \in Reminders \ {s} : RowStays(r)
      BY <1>1, <3>3, ReminderIsRow DEF RowStays
    <3>5. OnTime(s)'
      <4>1. CASE MintedStatus(q) # "pending"
        <5>1. status'[s] = MintedStatus(q) /\ MintedStatus(q) \in {"shadow", "human_queue"}
          BY <1>1, <3>3, <4>1, ReminderIsRow DEF MintedStatus
        <5> QED
          BY <5>1, RowClosed
      <4>2. CASE MintedStatus(q) = "pending"
        <5>1. status'[s] = "pending" /\ at'[s] = ReminderTime(q, k)
          BY <1>1, <3>3, <4>2, ReminderIsRow DEF MintedStatus
        <5>2. done[Link(q)] + Offsets(q)[k] \in Nat
          BY <1>1, OffsetsAre, LinkIsRow DEF Typed
        <5>3. ~WithinQuietHours(ReminderTime(q, k))
          BY <5>2, AllowedSend DEF ReminderTime
        <5>4. ReminderTime(q, k) < LinkExpiry(q) /\ LinkExpiry(q)' = LinkExpiry(q)
          BY <1>2, <3>3 DEF WithinExpiry, LinkExpiry, LinksStay
        <5>5. Timely(s)'
          BY <3>2, <5>1, <5>3, <5>4 DEF Timely, WithinQuietHours, Hour
        <5> QED
          BY <5>1, <5>5 DEF OnTime
      <4> QED
        BY <4>1, <4>2
    <3> QED
      BY <1>2, <3>4, <3>5, TimeByRow
  <2> QED
    BY <2>1, <2>2
<1>6. CASE SettleReminder(w)
  <2>1. PICK s \in Reminders : s = wk[w].row
    BY <1>1, <1>6, RowInHand DEF SettleReminder, At
  <2>2. wk[w].pc = "judged" /\ wk[w].now = clock /\ wk[w].verdict \in Verdicts \ {"executing"}
    BY <1>1, <1>3, <1>6, RowInHand DEF SettleReminder, At, Guarded
  <2>3. CASE wk[w].verdict = "pending"
    <3>1. UNCHANGED <<status, done>> /\ at' = [at EXCEPT ![s] = NextAllowedSend(clock)]
      BY <1>6, <2>1, <2>2, <2>3 DEF SettleReminder
    <3>2. at'[s] = NextAllowedSend(clock)
      BY <1>1, <3>1, ReminderIsRow
    <3>3. NextAllowedSend(clock) \in Nat /\ ~WithinQuietHours(NextAllowedSend(clock))
      BY <1>1, AllowedSend
    <3>4. NextAllowedSend(clock)' = NextAllowedSend(clock)
      BY <1>2 DEF NextAllowedSend, WithinQuietHours, Hour, Day
    <3>5. Timely(s)'
      BY <3>2, <3>3, <3>4 DEF Timely, WithinQuietHours, Hour
    <3>6. status'[s] = "sent" => ~WithinQuietHours(done'[s])
      BY <3>1 DEF TimeInv, OnTime
    <3>7. OnTime(s)'
      BY <3>5, <3>6 DEF OnTime, WithinQuietHours, Hour
    <3>8. \A r \in Reminders \ {s} : RowStays(r)
      BY <1>1, <3>1, ReminderIsRow DEF RowStays
    <3> QED
      BY <1>2, <3>7, <3>8, TimeByRow
  <2>4. CASE wk[w].verdict # "pending"
    <3>1. PICK new \in {"no_action", "shadow", "human_queue"} : Commit(s, new, clock) /\ UNCHANGED at
      BY <1>6, <2>1, <2>2, <2>4 DEF SettleReminder, Verdicts
    <3>2. status'[s] = new
      BY <1>1, <3>1, ReminderIsRow DEF Commit
    <3> QED
      BY <1>2, <3>1, <3>2, RowClosed, CommitOnTime
  <2> QED
    BY <2>3, <2>4
<1>7. CASE ClaimReminder(w)
  <2>1. CASE UNCHANGED <<status, done>>
    BY <1>4, <1>7, <2>1 DEF ClaimReminder
  <2>2. CASE ~UNCHANGED <<status, done>>
    <3>1. PICK s \in Reminders : s = wk[w].row
      BY <1>1, <1>7, RowInHand DEF ClaimReminder, At
    <3>2. status[s] = "pending" /\ Commit(s, "executing", wk[w].now) /\ UNCHANGED at
      BY <1>7, <2>2, <3>1 DEF ClaimReminder
    <3>3. RowStays(s)
      BY <1>1, <3>2, ReminderIsRow DEF Commit, RowStays
    <3>4. OnTime(s)'
      BY <1>1, <1>2, <3>3, RowKept, ReminderIsRow DEF LinksStay
    <3> QED
      BY <1>2, <3>2, <3>4, CommitOnTime
  <2> QED
    BY <2>1, <2>2
<1>8. CASE FetchLink(w)
  <2>1. CASE UNCHANGED <<status, done>>
    BY <1>4, <1>8, <2>1 DEF FetchLink
  <2>2. CASE Commit(wk[w].row, "no_action", wk[w].now)
    <3>1. PICK s \in Reminders : s = wk[w].row
      BY <1>1, <1>8, RowInHand DEF FetchLink, At
    <3>2. status'[s] = "no_action" /\ UNCHANGED at
      BY <1>1, <1>8, <2>2, <3>1, ReminderIsRow DEF Commit, FetchLink
    <3> QED
      BY <1>2, <2>2, <3>1, <3>2, RowClosed, CommitOnTime
  <2> QED
    BY <1>8, <2>1, <2>2 DEF FetchLink
<1>9. CASE FinishReminder(w)
  <2>1. PICK s \in Reminders : s = wk[w].row
    BY <1>1, <1>9, RowInHand DEF FinishReminder, At
  <2>2. wk[w].pc = "notify" /\ wk[w].now = clock /\ Ready(s)
    BY <1>3, <1>9, <2>1 DEF FinishReminder, At, Guarded
  <2>3. PICK new \in {"sent", "failed"} : Commit(s, new, clock) /\ UNCHANGED at
    BY <1>9, <2>1, <2>2 DEF FinishReminder
  <2>4. status'[s] = new /\ (new = "sent" => done'[s] = clock)
    BY <1>1, <2>3, ReminderIsRow DEF Commit
  <2>5. OnTime(s)'
    BY <2>2, <2>4 DEF OnTime, Ready, WithinQuietHours, Hour
  <2> QED
    BY <1>2, <2>3, <2>5, CommitOnTime
<1>10. CASE VoidReminders(w)
  <2> SUFFICES ASSUME NEW r \in Reminders PROVE OnTime(r)'
    BY DEF TimeInv
  <2>1. UNCHANGED <<at, done>> /\ (status'[r] = status[r] \/ status'[r] = "no_action")
    BY <1>10, ReminderIsRow DEF VoidReminders
  <2>2. CASE status'[r] = "no_action"
    BY <2>2, RowClosed
  <2>3. CASE status'[r] = status[r]
    <3>1. RowStays(r) /\ done'[Link(Payment(r))] = done[Link(Payment(r))]
      BY <2>1, <2>3 DEF RowStays
    <3> QED
      BY <1>1, <1>2, <3>1, RowKept
  <2> QED
    BY <2>1, <2>2, <2>3
<1>11. ASSUME NEW s \in Reminders, RecoverReminder(w, s) PROVE TimeInv'
  <2>1. \A r \in Reminders \ {s} : RowStays(r)
    BY <1>1, <1>11, ReminderIsRow DEF RecoverReminder, RowStays
  <2>2. CASE status'[s] = "human_queue"
    BY <1>2, <2>1, <2>2, RowClosed, TimeByRow
  <2>3. CASE status'[s] = "pending"
    <3>1. RowStays(s) /\ done'[Link(Payment(s))] = done[Link(Payment(s))]
      BY <1>11, <2>3 DEF RecoverReminder, DueExecuting, RowStays
    <3>2. OnTime(s)'
      BY <1>1, <1>2, <3>1, RowKept
    <3> QED
      BY <1>2, <2>1, <3>2, TimeByRow
  <2>4. status'[s] \in {"pending", "human_queue"}
    BY <1>1, <1>11, ReminderIsRow DEF RecoverReminder
  <2> QED
    BY <2>2, <2>3, <2>4
<1> QED
  BY <1>4, <1>5, <1>6, <1>7, <1>8, <1>9, <1>10, <1>11 DEF ReminderStep, NotifyLink, BeginReminder, rows

(* A step that leaves the reminders alone, and the day a link went out.      *)
LEMMA TimeAside ==
  ASSUME CTypeInv, TimeInv, clock' \in Nat, clock <= clock',
         \A r \in Reminders : status'[r] = status[r] /\ at'[r] = at[r] /\ done'[r] = done[r],
         \A r \in Reminders : status[r] # "absent" =>
                                done'[Link(Payment(r))] = done[Link(Payment(r))]
  PROVE  TimeInv'
BY RowKept DEF TimeInv, RowStays

LEMMA TimeLinkStep ==
  ASSUME CTypeInv, MintInv, TimeInv, NEW w \in Workers,
         LinkWork(w) \/ \E p \in Payments : SweepLink(w, p) \/ ScheduleLink(w, p)
  PROVE  TimeInv'
<1>1. DOMAIN status = Rows /\ DOMAIN at = Rows /\ DOMAIN done = Rows /\ clock \in Nat /\ clock <= clock
  BY DEF CTypeInv, Typed
<1>2. ASSUME NEW p \in Payments, NEW new, NEW t, clock' = clock,
             status' = [status EXCEPT ![Link(p)] = new] \/ UNCHANGED status,
             at' = [at EXCEPT ![Link(p)] = t] \/ UNCHANGED at,
             ~LinkOut(p) \/ UNCHANGED done,
             (\E d : done' = [done EXCEPT ![Link(p)] = d]) \/ UNCHANGED done
      PROVE  TimeInv'
  <2>1. \A r \in Reminders : status'[r] = status[r] /\ at'[r] = at[r] /\ done'[r] = done[r]
    BY <1>1, <1>2, ReminderIsRow
  <2>2. \A r \in Reminders : status[r] # "absent" => done'[Link(Payment(r))] = done[Link(Payment(r))]
    <3> SUFFICES ASSUME NEW r \in Reminders, status[r] # "absent"
                 PROVE  done'[Link(Payment(r))] = done[Link(Payment(r))]
      OBVIOUS
    <3>1. LinkOut(Payment(r)) /\ Payment(r) \in Payments
      BY ReminderIsRow DEF MintInv
    <3>2. CASE Payment(r) = p
      BY <1>2, <3>1, <3>2
    <3>3. CASE Payment(r) # p
      BY <1>1, <1>2, <3>1, <3>3, LinksDiffer, LinkIsRow
    <3> QED
      BY <3>2, <3>3
  <2> QED
    BY <1>1, <1>2, <2>1, <2>2, TimeAside
<1>3. ASSUME NEW p, NEW new, Commit(Link(p), new, clock)
      PROVE  /\ status' = [status EXCEPT ![Link(p)] = new]
             /\ \E d : done' = [done EXCEPT ![Link(p)] = d]
  BY <1>3 DEF Commit
<1>4. CASE LinkWork(w)
  <2>1. PICK p \in Payments : LinkWorkOf(w, p)
    BY <1>4, LinkWorkIs, PositionsWide DEF CTypeInv
  <2>2. clock' = clock /\ UNCHANGED <<at, done>>
    BY <2>1 DEF LinkWorkOf
  <2>3. (\E new : status' = [status EXCEPT ![Link(p)] = new]) \/ UNCHANGED status
    BY <2>1 DEF LinkWorkOf
  <2> QED
    BY <1>2, <2>2, <2>3
<1>5. ASSUME NEW p \in Payments, SweepLink(w, p) PROVE TimeInv'
  <2>1. status[Link(p)] = "pending" /\ UNCHANGED <<clock, at>> /\ \E new : Commit(Link(p), new, clock)
    BY <1>5 DEF SweepLink, ExecuteLink
  <2> QED
    BY <1>2, <1>3, <2>1 DEF LinkOut
<1>6. ASSUME NEW p \in Payments, ScheduleLink(w, p) PROVE TimeInv'
  BY <1>2, <1>6 DEF ScheduleLink
<1> QED
  BY <1>4, <1>5, <1>6

LEMMA TimeStep ==
  ASSUME CTypeInv, CTypeInv', MintInv, TimeInv, GuardInv, [CNext]_cvars
  PROVE  TimeInv'
<1>1. clock \in Nat /\ clock' \in Nat
  BY DEF CTypeInv, Typed
<1>2. ASSUME clock <= clock', UNCHANGED <<status, at, done>> PROVE TimeInv'
  BY <1>1, <1>2, TimeAside
<1>3. ASSUME NEW w \in Workers, Sweep(w) \/ Work(w) \/ Event(w) PROVE TimeInv'
  BY <1>3, TimeReminderStep, TimeLinkStep DEF Sweep, Work, Event, SweepReminder, ReminderStep, LinkWork
<1>4. CASE Tick
  <2>1. TickHours \in Nat /\ clock' = clock + TickHours
    BY <1>4, CadenceAssumption DEF Tick
  <2> QED
    BY <1>1, <1>2, <1>4, <2>1 DEF Tick, rows
<1>5. ASSUME UNCHANGED <<clock, status, at, done>> PROVE TimeInv'
  BY <1>1, <1>2, <1>5
<1> QED
  BY <1>3, <1>4, <1>5 DEF CNext, PayLink, CrashWorker, rows, cvars

LEMMA CInvStep ==
  ASSUME MonthsGoOn, OneProcess, CInv, [CNext]_cvars
  PROVE  CInv'
<1>1. CTypeInv'
  BY CTypeStep DEF CInv
<1> QED
  BY <1>1, MintStep, TimeStep, GuardStep DEF CInv

LEMMA CInvariant == ASSUME MonthsGoOn, OneProcess PROVE CSpec => []CInv
<1>1. CInv /\ [CNext]_cvars => CInv'
  BY CInvStep
<1>2. CInit => CInv
  BY CInvInit
<1> QED
  BY <1>1, <1>2, PTL DEF CSpec

\* The guards read before the claim still hold at every notify call: the link
\* is open at Razorpay, whatever crashed before.
THEOREM OpenLinksOnly ==
  ASSUME MonthsGoOn, OneProcess
  PROVE  CSpec => []RemindsOpenLinks
BY CInvariant, CInvImplies, PTL

\* Neither the link of a notify call nor its order has a result on record.
THEOREM EndedLinksAreQuiet ==
  ASSUME MonthsGoOn, OneProcess
  PROVE  CSpec => []ClosedLinkIsQuiet
BY CInvariant, CInvImplies, PTL

\* A reminder goes out in an hour a message may go out at, for every class,
\* calendar and grain of the clock, however late the sweep takes it.
THEOREM HoursKept ==
  ASSUME MonthsGoOn, OneProcess
  PROVE  CSpec => []RemindersKeepQuiet
BY CInvariant, CInvImplies, PTL

\* The time a reminder waits for is such an hour too, and within the life of
\* its link unless a late sweep moved it out of the quiet hours, for every expiry.
THEOREM ScheduledInTime ==
  ASSUME MonthsGoOn, OneProcess
  PROVE  CSpec => []ScheduledForOpenLink
BY CInvariant, CInvImplies, PTL


-----------------------------------------------------------------------------
(* The weekly cap. *)

LEMMA RowsAreFinite == ASSUME IsFiniteSet(Payments) PROVE IsFiniteSet(Rows)
<1>1. IsFiniteSet(0..2)
  BY FS_Interval, 0 \in Int, 2 \in Int
<1>2. IsFiniteSet(Payments \X (0..2))
  BY <1>1, FS_Product
<1>3. Rows \in SUBSET (Payments \X (0..2))
  <2> SUFFICES ASSUME NEW r \in Rows PROVE r \in Payments \X (0..2)
    OBVIOUS
  <2>1. CASE r \in Links
    BY <2>1 DEF Links
  <2>2. CASE r \in Reminders
    <3>1. PICK p \in Payments : r \in {p} \X (1..Len(Offsets(p)))
      BY <2>2 DEF Reminders
    <3>2. Len(Offsets(p)) \in 1..2
      BY OffsetsAre
    <3>3. PICK n \in 1..Len(Offsets(p)) : r = <<p, n>>
      BY <3>1
    <3>4. n \in 0..2
      <4>1. \A k \in 1..2 : \A m \in 1..k : m \in 0..2
        BY SMT
      <4> QED
        BY <3>2, <4>1, Zenon
    <3> QED
      BY <3>3, <3>4
  <2> QED
    BY <2>1, <2>2 DEF Rows
<1> QED
  BY <1>2, <1>3, FS_Subset

(* The rows that count against the cap of p. *)
Counted(p, now) == {r \in ContactRows(p) : done[r] > now - Window /\ done[r] <= now}

LEMMA OneMoreContact ==
  ASSUME IsFiniteSet(Payments), CTypeInv, NEW s \in Reminders, NEW p, NEW now,
         status' = [status EXCEPT ![s] = "sent"], \A r \in Rows \ {s} : done'[r] = done[r]
  PROVE  /\ ContactSends(ContactRows(p)', done', now, Window) \in Nat
         /\ SendsTo(p, now) \in Nat
         /\ ContactSends(ContactRows(p)', done', now, Window) <= SendsTo(p, now) + 1
<1> DEFINE After == {r \in ContactRows(p)' : done'[r] > now - Window /\ done'[r] <= now}
<1>1. Counted(p, now) \in SUBSET Rows
  BY DEF Counted, ContactRows
<1>2. IsFiniteSet(Counted(p, now))
  BY <1>1, RowsAreFinite, FS_Subset
<1>3. /\ IsFiniteSet(Counted(p, now) \cup {s})
      /\ Cardinality(Counted(p, now) \cup {s}) \in {Cardinality(Counted(p, now)), Cardinality(Counted(p, now)) + 1}
  BY <1>2, FS_AddElement
<1>4. After \in SUBSET (Counted(p, now) \cup {s})
  <2>1. \A r \in Rows \ {s} : status'[r] = status[r]
    BY DEF CTypeInv, Typed
  <2> QED
    BY <2>1 DEF Counted, ContactRows
<1>5. Cardinality(After) <= Cardinality(Counted(p, now) \cup {s})
  BY <1>3, <1>4, FS_Subset
<1>6. Cardinality(Counted(p, now)) \in Nat /\ Cardinality(After) \in Nat
  BY <1>2, <1>3, <1>4, FS_Subset, FS_CardinalityType
<1>7. Cardinality(After) <= Cardinality(Counted(p, now)) + 1
  BY <1>3, <1>5, <1>6
<1> QED
  BY <1>6, <1>7 DEF SendsTo, ContactSends, Counted

LEMMA SentByFinish ==
  ASSUME CInv, [CNext]_cvars, NEW r \in Reminders, status[r] # "sent", status'[r] = "sent"
  PROVE  \E w \in Workers : FinishReminder(w) /\ wk[w].row = r
<1>1. /\ Typed(Positions, OutcomeKinds) /\ Wide(Positions)
      /\ DOMAIN status = Rows /\ r \in Rows
  BY PositionsWide, ReminderIsRow DEF CInv, CTypeInv, Typed
<1>2. ASSUME NEW s, NEW new, new # "sent", status' = [status EXCEPT ![s] = new] PROVE FALSE
  BY <1>1, <1>2
<1>3. ASSUME NEW p, NEW new, status' = [status EXCEPT ![Link(p)] = new] PROVE FALSE
  BY <1>1, <1>3, ReminderIsRow
<1>4. ASSUME NEW w \in Workers, FinishReminder(w) PROVE wk[w].row = r
  BY <1>1, <1>4 DEF FinishReminder, Commit
<1>5. ASSUME NEW w \in Workers, ScheduleReminder(w) PROVE FALSE
  <2>1. ~UNCHANGED <<status, at, done>>
    OBVIOUS
  <2> DEFINE s == <<wk[w].link, wk[w].n>>
             new == MintedStatus(wk[w].link)
  <2>2. status' = [status EXCEPT ![s] = new]
    BY <1>1, <1>5, <2>1, MintedRow
  <2>3. new # "sent"
    BY DEF MintedStatus
  <2> HIDE DEF s, new
  <2> QED
    BY <1>2, <2>2, <2>3
<1>6. ASSUME NEW w \in Workers, SettleReminder(w) PROVE FALSE
  <2>1. wk[w].verdict \in Verdicts
    BY <1>1, <1>6, RowInHand DEF SettleReminder, At
  <2>2. status' = [status EXCEPT ![wk[w].row] = wk[w].verdict]
    BY <1>6 DEF SettleReminder, Commit
  <2> QED
    BY <1>2, <2>1, <2>2 DEF Verdicts
<1>7. ASSUME NEW w \in Workers, ClaimReminder(w) \/ FetchLink(w) \/ NotifyLink(w) PROVE FALSE
  BY <1>2, <1>7 DEF ClaimReminder, FetchLink, NotifyLink, Commit, rows
<1>8. ASSUME NEW w \in Workers, VoidReminders(w) PROVE FALSE
  BY <1>1, <1>8 DEF VoidReminders
<1>9. ASSUME NEW w \in Workers, LinkWork(w) PROVE FALSE
  <2>1. PICK p \in Payments : LinkWorkOf(w, p)
    BY <1>1, <1>9, LinkWorkIs
  <2> QED
    BY <1>3, <2>1 DEF LinkWorkOf
<1>10. ASSUME NEW w \in Workers, Sweep(w) PROVE FALSE
  <2>1. ASSUME NEW p \in Payments, SweepLink(w, p) PROVE FALSE
    BY <1>3, <2>1 DEF SweepLink, ExecuteLink, Commit
  <2>2. ASSUME NEW s \in Reminders, BeginReminder(w, s) PROVE FALSE
    BY <2>2 DEF BeginReminder, rows
  <2>3. ASSUME NEW s \in Reminders, RecoverReminder(w, s) PROVE FALSE
    BY <1>2, <2>3 DEF RecoverReminder
  <2> QED
    BY <1>10, <2>1, <2>2, <2>3 DEF Sweep, SweepReminder
<1>11. ASSUME NEW w \in Workers, Event(w) PROVE FALSE
  BY <1>3, <1>9, <1>11 DEF Event, ScheduleLink, LinkWork
<1>12. ASSUME Tick \/ (\E p \in Payments : PayLink(p)) \/ (\E w \in Workers : CrashWorker(w)) \/ UNCHANGED cvars
       PROVE  FALSE
  BY <1>12 DEF Tick, PayLink, CrashWorker, rows, cvars
<1>13. PICK w \in Workers : FinishReminder(w)
  BY <1>5, <1>6, <1>7, <1>8, <1>9, <1>10, <1>11, <1>12 DEF CNext, Work, LinkWork
<1> QED
  BY <1>4, <1>13

LEMMA CapStep ==
  ASSUME IsFiniteSet(Payments), CInv, [CNext]_cvars,
         NEW r \in Reminders, status[r] # "sent", status'[r] = "sent"
  PROVE  SendsTo(Payment(r), clock)' <= Limit[Payment(r)]
<1>1. PICK w \in Workers : FinishReminder(w) /\ wk[w].row = r
  BY SentByFinish
<1>2. wk[w].pc = "notify" /\ Guarded(wk[w]) /\ clock' = clock
  BY <1>1 DEF FinishReminder, At, CInv, GuardInv
<1>3. SendsTo(Payment(r), clock) < Limit[Payment(r)]
  BY <1>1, <1>2 DEF Guarded, Ready
<1>4. status' = [status EXCEPT ![r] = "sent"] /\ \A s \in Rows \ {r} : done'[s] = done[s]
  BY <1>1, ReminderIsRow DEF FinishReminder, Commit, CInv, CTypeInv, Typed
<1>5. /\ ContactSends(ContactRows(Payment(r))', done', clock, Window) \in Nat
      /\ SendsTo(Payment(r), clock) \in Nat
      /\ ContactSends(ContactRows(Payment(r))', done', clock, Window) <= SendsTo(Payment(r), clock) + 1
  BY <1>4, OneMoreContact DEF CInv
<1>6. SendsTo(Payment(r), clock)' = ContactSends(ContactRows(Payment(r))', done', clock, Window)
  BY <1>2 DEF SendsTo, ContactSends
<1>7. Limit[Payment(r)] \in Nat
  BY CadenceAssumption, ReminderIsRow
<1> QED
  BY <1>3, <1>5, <1>6, <1>7

\* No reminder takes its customer past the weekly cap, however many payments
\* and reminders share the contact: nothing of that customer goes out between
\* the cap's reading and the commit.
THEOREM CapKept ==
  ASSUME MonthsGoOn, OneProcess, IsFiniteSet(Payments)
  PROVE  CSpec => RemindersWithinCap
<1>1. CInv /\ [CNext]_cvars =>
        [\A r \in Reminders :
           status[r] # "sent" /\ status'[r] = "sent" =>
             SendsTo(Payment(r), clock)' <= Limit[Payment(r)]]_cvars
  BY CapStep
<1> QED
  BY <1>1, CInvariant, PTL DEF CSpec, RemindersWithinCap
=============================================================================
