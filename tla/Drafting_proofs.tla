--------------------------- MODULE Drafting_proofs ---------------------------
(***************************************************************************)
(* Theorems of Drafting, for any number of processes, jobs and recordings, *)
(* and whatever the model writes.                                          *)
(***************************************************************************)
EXTENDS Drafting, SequenceTheorems, TLAPS

Fields == {"channel", "amounts", "links", "says", "script", "size"}
Records == [key : Keys, reply : ModelReplies \ {NoAnswer}]

-----------------------------------------------------------------------------
(* What a recording is worth.  A job that may be asked about has its link.  *)

\* The first answer of this kind is asked for again.
Unfit(j, reply) == reply.stop = "end_turn" /\ ~Acceptable(j, j, reply.text)

Answer(j, reply) ==
  IF reply.stop = "end_turn" /\ Acceptable(j, j, reply.text)
  THEN Drafted(reply.text, "llm") ELSE Drafted(Template(j, j), "template")

\* What a draft of the job ends with that is answered from these replies.
Replayed(replies, j) ==
  LET first == replies[Key(j, NotAsked)]
  IN  Answer(j, IF Unfit(j, first) THEN replies[Key(j, first)] ELSE first)

Uncut(j, nudge) == nudge.source = "llm" \/ Whole(j)

\* The rules of MessageKeepsTheRules before the offer sentence.
Keeps(link, j, nudge) ==
  /\ nudge.source \in {"llm", "template"}
  /\ DOMAIN nudge.message = Fields
  /\ nudge.message.channel = Ask[j].channel
  /\ Uncut(j, nudge) \/ Language(j) = "en" => nudge.message.amounts = {Ask[j].amount}
  /\ Uncut(j, nudge) /\ link # None /\ ~Ask[j].neutral => link \in nudge.message.links
  /\ Ask[j].neutral => nudge.message.links = {}
  /\ nudge.message.says = {}
  /\ (nudge.message.script = "devanagari") = (Language(j) = "hi")

\* The rules of MessageKeepsTheRules, of one message.
Kept(link, j, source, message) ==
  /\ message.channel = Ask[j].channel
  /\ OfferAmounts(j) \subseteq message.amounts
  /\ source = "llm" \/ Whole(j) \/ Language(j) = "en" => message.amounts = {Ask[j].amount} \cup OfferAmounts(j)
  /\ (source = "llm" \/ Whole(j)) /\ link # None /\ ~Ask[j].neutral => link \in message.links
  /\ Ask[j].neutral => message.links = {}
  /\ message.says = {}
  /\ (message.script = "devanagari") = (Language(j) = "hi")

-----------------------------------------------------------------------------
(* The invariant.  What a replay ends with is decided when the file is      *)
(* read, so it follows the file as recordings are added, and each reading.  *)

TapeTyped == tape \in Seq(Records) /\ drafts \in 0..MaxDrafts

VarsTyped ==
  /\ DOMAIN env = Processes /\ \A w \in Processes : env[w] \in Settings[w] \cup {None}
  /\ DOMAIN index = Processes
  /\ \A w \in Processes :
       index[w].loaded \in BOOLEAN /\ (index[w].loaded => index[w].replies \in [Keys -> ModelReplies])
  /\ DOMAIN draft = Processes
  /\ DOMAIN stored = Processes /\ \A w \in Processes : DOMAIN stored[w] = Jobs
  /\ DOMAIN told = Jobs
  /\ DOMAIN expected = Processes

\* A repair is of an answer that did not keep the rules; a replay has it from
\* the file.
AskOK(w, j, rejected) ==
  /\ ~Ask[j].neutral /\ ~env[w].shadow /\ ClientOf(env[w]) # "none"
  /\ rejected # NotAsked => rejected \in ModelReplies /\ Unfit(j, rejected)
  /\ rejected # NotAsked /\ ClientOf(env[w]) = "replay" =>
       index[w].loaded /\ index[w].replies[Key(j, NotAsked)] = rejected

AttachOK(w, j, nudge) ==
  /\ Keeps(LinkOf(w, j), j, nudge)
  /\ ClientOf(env[w]) = "replay" /\ ~Ask[j].neutral /\ ~env[w].shadow =>
       (expected[w][j] = None \/ nudge = expected[w][j])

PositionOK(w) ==
  \/ draft[w] = NoDraft
  \/ \E j \in Jobs, rejected \in ModelReplies \cup {NotAsked} : draft[w] = Asking(j, rejected) /\ AskOK(w, j, rejected)
  \/ \E j \in Jobs : draft[w] = Attaching(j, draft[w].nudge) /\ AttachOK(w, j, draft[w].nudge)

Positions == \A w \in Processes : PositionOK(w)

Recorded == \A j \in Jobs : told[j] # None => Replayed(LoadIndex(tape), j) = told[j]

Read ==
  \A w \in Processes, j \in Jobs :
    index[w].loaded /\ expected[w][j] # None => Replayed(index[w].replies, j) = expected[w][j]

DraftInv == TapeTyped /\ VarsTyped /\ Positions /\ Recorded /\ Read /\ MessageKeepsTheRules

-----------------------------------------------------------------------------
(* The file as an index. *)

LEMMA ReplyKinds ==
  /\ NoAnswer \in ModelReplies /\ Stopped \in ModelReplies
  /\ NotAsked \notin ModelReplies
  /\ \A m \in Messages \cup {None} : Text(m) \in ModelReplies
  /\ \A reply \in ModelReplies : reply.stop = "end_turn" => reply.text \in Messages \cup {None}
  /\ NoAnswer.stop # "end_turn"
<1>1. \A reply \in ModelReplies : reply.stop # "none"
  BY DEF ModelReplies, Text, Stopped, NoAnswer
<1>2. NotAsked.stop = "none"
  BY DEF NotAsked
<1>3. NotAsked \notin ModelReplies
  BY <1>1, <1>2
<1>4. \A reply \in ModelReplies : reply.stop = "end_turn" => reply.text \in Messages \cup {None}
  BY DEF ModelReplies, Text, Stopped, NoAnswer
<1>5. NoAnswer.stop # "end_turn"
  BY DEF NoAnswer
<1> QED
  BY <1>3, <1>4, <1>5 DEF ModelReplies

LEMMA KeyKinds ==
  ASSUME NEW j \in Jobs, NEW rejected \in ModelReplies \cup {NotAsked}
  PROVE  Key(j, rejected) \in Keys /\ Key(j, rejected)[1] = j
  BY DEF Key, Keys

LEMMA IndexTyped ==
  ASSUME NEW file \in Seq(Records)
  PROVE  LoadIndex(file) \in [Keys -> ModelReplies]
<1>1. \A key \in Keys : LastRecord(file, key) # {} =>
        file[CHOOSE i \in LastRecord(file, key) : TRUE].reply \in ModelReplies
  <2> SUFFICES ASSUME NEW key \in Keys, LastRecord(file, key) # {}
               PROVE  file[CHOOSE i \in LastRecord(file, key) : TRUE].reply \in ModelReplies
    OBVIOUS
  <2>1. (CHOOSE i \in LastRecord(file, key) : TRUE) \in LastRecord(file, key)
    OBVIOUS
  <2>2. LastRecord(file, key) \subseteq DOMAIN file
    BY DEF LastRecord
  <2>3. \A i \in DOMAIN file : file[i] \in Records
    OBVIOUS
  <2> QED
    BY <2>1, <2>2, <2>3 DEF Records
<1>2. NoAnswer \in ModelReplies
  BY ReplyKinds
<1> QED
  BY <1>1, <1>2 DEF LoadIndex

(* A record that is appended is the answer of its request from then on, and  *)
(* leaves the answers of the other requests.                                *)
LEMMA IndexAfterAppend ==
  ASSUME NEW file \in Seq(Records), NEW key \in Keys, NEW reply \in ModelReplies \ {NoAnswer}
  PROVE  LoadIndex(Append(file, [key |-> key, reply |-> reply])) = [LoadIndex(file) EXCEPT ![key] = reply]
<1>1. PICK record : record = [key |-> key, reply |-> reply]
  OBVIOUS
<1>2. PICK longer : longer = Append(file, record)
  OBVIOUS
<1>3. record \in Records /\ record.key = key /\ record.reply = reply
  BY <1>1 DEF Records
<1>4. PICK n \in Nat : n = Len(file)
  OBVIOUS
<1>5. DOMAIN file = 1..n /\ DOMAIN longer = 1..(n + 1) /\ longer[n + 1] = record /\ \A i \in 1..n : longer[i] = file[i]
  BY <1>2, <1>3, <1>4
<1>6. LastRecord(longer, key) = {n + 1}
  BY <1>3, <1>5 DEF LastRecord
<1>7. ASSUME NEW other \in Keys, other # key PROVE LastRecord(longer, other) = LastRecord(file, other)
  BY <1>3, <1>5, <1>7 DEF LastRecord
<1>8. LoadIndex(longer)[key] = reply
  BY <1>3, <1>5, <1>6 DEF LoadIndex
<1>9. ASSUME NEW other \in Keys, other # key PROVE LoadIndex(longer)[other] = LoadIndex(file)[other]
  <2>1. CASE LastRecord(file, other) = {}
    BY <1>7, <1>9, <2>1 DEF LoadIndex
  <2>2. CASE LastRecord(file, other) # {}
    <3>1. PICK i : i = CHOOSE k \in LastRecord(file, other) : TRUE
      OBVIOUS
    <3>2. i \in 1..n
      BY <1>5, <2>2, <3>1 DEF LastRecord
    <3>3. LoadIndex(file)[other] = file[i].reply
      BY <2>2, <3>1 DEF LoadIndex
    <3>4. LastRecord(longer, other) = LastRecord(file, other)
      BY <1>7, <1>9
    <3>5. LoadIndex(longer)[other] = longer[i].reply
      BY <2>2, <3>1, <3>4 DEF LoadIndex
    <3> QED
      BY <1>5, <3>2, <3>3, <3>5
  <2> QED
    BY <2>1, <2>2
<1>10. DOMAIN LoadIndex(longer) = Keys /\ DOMAIN LoadIndex(file) = Keys
  BY DEF LoadIndex
<1>11. LoadIndex(longer) = [LoadIndex(file) EXCEPT ![key] = reply]
  <2>1. LoadIndex(longer) = [other \in Keys |-> LoadIndex(longer)[other]]
    BY DEF LoadIndex
  <2>2. [LoadIndex(file) EXCEPT ![key] = reply] =
          [other \in Keys |-> IF other = key THEN reply ELSE LoadIndex(file)[other]]
    BY <1>10
  <2> QED
    BY <1>8, <1>9, <2>1, <2>2
<1> QED
  BY <1>1, <1>2, <1>11

(* What a replay of a job ends with is a matter of the job's requests.       *)
LEMMA ReplayedSame ==
  ASSUME NEW j \in Jobs, NEW one \in [Keys -> ModelReplies], NEW other,
         \A key \in Keys : key[1] = j => one[key] = other[key]
  PROVE  Replayed(one, j) = Replayed(other, j)
<1>1. PICK first : first = one[Key(j, NotAsked)]
  OBVIOUS
<1>2. first \in ModelReplies /\ other[Key(j, NotAsked)] = first
  BY <1>1, KeyKinds
<1>3. one[Key(j, first)] = other[Key(j, first)]
  BY <1>2, KeyKinds
<1> QED
  BY <1>1, <1>2, <1>3 DEF Replayed

-----------------------------------------------------------------------------
(* The rules, on every way a message comes about. *)

LEMMA TemplateKeeps ==
  ASSUME NEW link, NEW j \in Jobs
  PROVE  Keeps(link, j, Drafted(Template(link, j), "template"))
<1>1. PICK message : message = Template(link, j)
  OBVIOUS
<1>2. /\ DOMAIN message = Fields
      /\ message.channel = Ask[j].channel
      /\ message.amounts = IF Whole(j) THEN {Ask[j].amount} ELSE CutAmounts[j]
      /\ message.says = {}
      /\ message.script = Script(Language(j))
  BY <1>1 DEF Template, Fields
<1>3. message.links = IF link # None /\ ~Ask[j].neutral /\ Whole(j) THEN {link} ELSE {}
  BY <1>1 DEF Template
<1>4. (message.script = "devanagari") = (Language(j) = "hi")
  BY <1>2 DEF Script
<1>5. Whole(j) \/ Language(j) = "en" => message.amounts = {Ask[j].amount}
  BY <1>2, CutAssumption
<1> QED
  BY <1>1, <1>2, <1>3, <1>4, <1>5 DEF Keeps, Uncut, Drafted

LEMMA AcceptedKeeps ==
  ASSUME NEW j \in Jobs, ~Ask[j].neutral, NEW message \in Messages \cup {None}, Acceptable(j, j, message)
  PROVE  Keeps(j, j, Drafted(message, "llm"))
<1>1. message \in Messages
  BY DEF Acceptable
<1>2. DOMAIN message = Fields
  BY <1>1, DraftingAssumption DEF Fields
<1> QED
  BY <1>2 DEF Acceptable, Keeps, Uncut, Drafted

LEMMA AnswerKeeps ==
  ASSUME NEW j \in Jobs, ~Ask[j].neutral, NEW reply \in ModelReplies
  PROVE  Keeps(j, j, Answer(j, reply))
<1>1. reply.stop = "end_turn" => reply.text \in Messages \cup {None}
  BY ReplyKinds
<1>2. CASE reply.stop = "end_turn" /\ Acceptable(j, j, reply.text)
  BY <1>1, <1>2, AcceptedKeeps DEF Answer
<1>3. CASE ~(reply.stop = "end_turn" /\ Acceptable(j, j, reply.text))
  BY <1>3, TemplateKeeps DEF Answer
<1> QED
  BY <1>2, <1>3

(* The offer sentence adds the amount of the partial offer, and no other.    *)
LEMMA SuffixedKeeps ==
  ASSUME NEW link, NEW j \in Jobs, NEW nudge, Keeps(link, j, nudge),
         NEW message, message = Suffixed(link, j, nudge)
  PROVE  Kept(link, j, nudge.source, message)
<1>1. PICK old : old = nudge.message
  OBVIOUS
<1>2. PICK more, size : more = old.amounts \cup OfferAmounts(j) /\ size = old.size + OfferSize + 1
  OBVIOUS
<1>3. PICK new : new = [old EXCEPT !.amounts = more, !.size = size]
  OBVIOUS
<1>4. DOMAIN old = Fields
  BY <1>1 DEF Keeps, Kept
<1>5. /\ new.channel = old.channel /\ new.links = old.links /\ new.says = old.says /\ new.script = old.script
      /\ new.amounts = more
  BY <1>3, <1>4 DEF Fields
<1>6. CASE Offered(link, j, nudge.source)
  <2>1. Suffixed(link, j, nudge) = new
    BY <1>1, <1>2, <1>3, <1>6 DEF Suffixed
  <2> QED
    BY <1>1, <1>2, <1>5, <2>1 DEF Keeps, Uncut, Kept
<1>7. CASE ~Offered(link, j, nudge.source)
  <2>1. Suffixed(link, j, nudge) = old
    BY <1>1, <1>7 DEF Suffixed
  <2>2. OfferAmounts(j) = {}
    BY <1>7 DEF Offered, OfferAmounts
  <2> QED
    BY <1>1, <2>1, <2>2 DEF Keeps, Uncut, Kept
<1> QED
  BY <1>6, <1>7

(* An open request has the job's own link, and what an answer makes of it is *)
(* the answer's draft, or the request for a repair.                         *)
LEMMA DraftAfter ==
  ASSUME NEW w, NEW j \in Jobs, NEW rejected, draft[w] = Asking(j, rejected), AskOK(w, j, rejected), NEW reply
  PROVE  /\ LinkOf(w, j) = j
         /\ draft[w].job = j /\ draft[w].rejected = rejected
         /\ NextDraft(w, reply) =
              IF rejected = NotAsked /\ Unfit(j, reply) THEN Asking(j, reply) ELSE Attaching(j, Answer(j, reply))
<1>1. LinkOf(w, j) = j
  BY DEF AskOK, LinkOf
<1>2. draft[w].job = j /\ draft[w].rejected = rejected
  BY DEF Asking
<1> QED
  BY <1>1, <1>2 DEF NextDraft, Unfit, Answer

LEMMA Places ==
  /\ NoDraft.pc = "idle"
  /\ \A j, rejected : Asking(j, rejected).pc = "ask"
  /\ \A j, nudge : Attaching(j, nudge).pc = "attach" /\ Attaching(j, nudge).job = j /\ Attaching(j, nudge).nudge = nudge
  BY DEF NoDraft, Asking, Attaching

\* A process at a request has one of a job it may ask the model about.
LEMMA AtRequest ==
  ASSUME NEW w, PositionOK(w), draft[w].pc = "ask"
  PROVE  \E j \in Jobs, rejected \in ModelReplies \cup {NotAsked} :
           draft[w] = Asking(j, rejected) /\ AskOK(w, j, rejected)
<1>1. draft[w] # NoDraft
  BY Places
<1>2. ASSUME NEW j \in Jobs, draft[w] = Attaching(j, draft[w].nudge) PROVE FALSE
  BY <1>2 DEF Attaching
<1> QED
  BY <1>1, <1>2, Zenon DEF PositionOK

LEMMA AtAttach ==
  ASSUME NEW w, PositionOK(w), draft[w].pc = "attach"
  PROVE  \E j \in Jobs : draft[w] = Attaching(j, draft[w].nudge) /\ AttachOK(w, j, draft[w].nudge)
<1>1. draft[w] # NoDraft
  BY Places
<1>2. ASSUME NEW j \in Jobs, NEW rejected, draft[w] = Asking(j, rejected) PROVE FALSE
  BY <1>2 DEF Asking
<1> QED
  BY <1>1, <1>2, Zenon DEF PositionOK

-----------------------------------------------------------------------------
(* What a step does not touch. *)

LEMMA PositionStays ==
  ASSUME NEW w, PositionOK(w), draft'[w] = draft[w], env'[w] = env[w], index'[w] = index[w], expected'[w] = expected[w]
  PROVE  PositionOK(w)'
<1>1. ASSUME NEW j, NEW rejected, AskOK(w, j, rejected) PROVE AskOK(w, j, rejected)'
  BY <1>1 DEF AskOK
<1>2. ASSUME NEW j, NEW nudge, AttachOK(w, j, nudge) PROVE AttachOK(w, j, nudge)'
  BY <1>2 DEF AttachOK, LinkOf
<1>3. CASE draft[w] = NoDraft
  BY <1>3 DEF PositionOK
<1>4. CASE draft[w].pc = "ask"
  <2>1. PICK j \in Jobs, rejected \in ModelReplies \cup {NotAsked} :
          draft[w] = Asking(j, rejected) /\ AskOK(w, j, rejected)
    BY <1>4, AtRequest
  <2>2. AskOK(w, j, rejected)'
    BY <1>1, <2>1
  <2> QED
    BY <2>1, <2>2 DEF PositionOK
<1>5. CASE draft[w].pc = "attach"
  <2>1. PICK j \in Jobs : draft[w] = Attaching(j, draft[w].nudge) /\ AttachOK(w, j, draft[w].nudge)
    BY <1>5, AtAttach
  <2>2. PICK nudge : nudge = draft[w].nudge
    OBVIOUS
  <2>3. AttachOK(w, j, nudge)'
    BY <1>2, <2>1, <2>2
  <2>4. AttachOK(w, j, draft[w].nudge)'
    BY <2>2, <2>3 DEF AttachOK, LinkOf
  <2> QED
    BY <2>1, <2>4 DEF PositionOK
<1>6. draft[w] = NoDraft \/ draft[w].pc = "ask" \/ draft[w].pc = "attach"
  <2>1. ASSUME NEW j, NEW rejected, draft[w] = Asking(j, rejected) PROVE draft[w].pc = "ask"
    BY <2>1 DEF Asking
  <2>2. ASSUME NEW j, draft[w] = Attaching(j, draft[w].nudge) PROVE draft[w].pc = "attach"
    BY <2>2 DEF Attaching
  <2> QED
    BY <2>1, <2>2, Zenon DEF PositionOK
<1> QED
  BY <1>3, <1>4, <1>5, <1>6

LEMMA OthersStay ==
  ASSUME NEW w \in Processes, Positions, PositionOK(w)',
         \A v \in Processes \ {w} :
           draft'[v] = draft[v] /\ env'[v] = env[v] /\ index'[v] = index[v] /\ expected'[v] = expected[v]
  PROVE  Positions'
<1>1. ASSUME NEW v \in Processes, v # w PROVE PositionOK(v)'
  BY <1>1, PositionStays DEF Positions
<1> QED
  BY <1>1 DEF Positions

LEMMA RulesStay ==
  ASSUME MessageKeepsTheRules, UNCHANGED <<stored, env>>
  PROVE  MessageKeepsTheRules'
  BY DEF MessageKeepsTheRules, LinkOf

-----------------------------------------------------------------------------
(* Starts, and a link to write about. *)

LEMMA StartKeeps ==
  ASSUME DraftInv, NEW w \in Processes, NEW settings \in Settings[w], Start(w, settings)
  PROVE  DraftInv'
<1>1. TapeTyped'
  BY DEF DraftInv, TapeTyped, Start
<1>2. VarsTyped'
  <2>1. Unread.loaded = FALSE
    BY DEF Unread
  <2>2. DOMAIN Nothing = Jobs
    BY DEF Nothing
  <2> QED
    BY <2>1, <2>2 DEF DraftInv, VarsTyped, Start
<1>3. Positions'
  <2>1. draft'[w] = NoDraft
    BY DEF DraftInv, VarsTyped, Start
  <2>2. PositionOK(w)'
    BY <2>1 DEF PositionOK
  <2> QED
    BY <2>2, OthersStay DEF DraftInv, VarsTyped, Start
<1>4. Recorded'
  BY DEF DraftInv, Recorded, Start
<1>5. Read'
  <2>1. index'[w] = Unread /\ Unread.loaded = FALSE
    BY DEF DraftInv, VarsTyped, Start, Unread
  <2>2. \A v \in Processes \ {w} : index'[v] = index[v] /\ expected'[v] = expected[v]
    BY DEF DraftInv, VarsTyped, Start
  <2> QED
    BY <2>1, <2>2 DEF DraftInv, Read
<1>6. MessageKeepsTheRules'
  <2>1. \A j \in Jobs : stored'[w][j] = None
    BY DEF DraftInv, VarsTyped, Start, Nothing
  <2>2. \A v \in Processes \ {w} : stored'[v] = stored[v] /\ env'[v] = env[v]
    BY DEF DraftInv, VarsTyped, Start
  <2> QED
    BY <2>1, <2>2 DEF DraftInv, MessageKeepsTheRules, LinkOf
<1> QED
  BY <1>1, <1>2, <1>3, <1>4, <1>5, <1>6 DEF DraftInv

LEMMA FinishJobKeeps ==
  ASSUME DraftInv, NEW w \in Processes, NEW j \in Jobs, FinishJob(w, j)
  PROVE  DraftInv'
<1>1. TapeTyped'
  BY DraftingAssumption DEF DraftInv, TapeTyped, FinishJob
<1>2. VarsTyped'
  BY DEF DraftInv, VarsTyped, FinishJob
<1>3. Positions'
  <2>1. PICK link : link = LinkOf(w, j)
    OBVIOUS
  <2>2. PICK nudge : nudge = Drafted(Template(link, j), "template")
    OBVIOUS
  <2>3. draft'[w] = IF Ask[j].neutral \/ env[w].shadow \/ ClientOf(env[w]) = "none"
                    THEN Attaching(j, nudge) ELSE Asking(j, NotAsked)
    BY <2>1, <2>2 DEF DraftInv, VarsTyped, FinishJob
  <2>4. CASE Ask[j].neutral \/ env[w].shadow \/ ClientOf(env[w]) = "none"
    <3>1. Keeps(link, j, nudge)
      BY <2>2, TemplateKeeps
    <3>2. env' = env /\ LinkOf(w, j)' = link
      BY <2>1 DEF FinishJob, LinkOf
    <3>3. AttachOK(w, j, nudge)'
      BY <2>4, <3>1, <3>2 DEF AttachOK
    <3>4. draft'[w] = Attaching(j, nudge) /\ draft'[w].nudge = nudge
      BY <2>3, <2>4, Places
    <3>5. AttachOK(w, j, draft[w].nudge)'
      BY <3>3, <3>4 DEF AttachOK, LinkOf
    <3>6. PositionOK(w)'
      BY <3>4, <3>5 DEF PositionOK
    <3> QED
      BY <3>6, OthersStay DEF DraftInv, VarsTyped, FinishJob
  <2>5. CASE ~(Ask[j].neutral \/ env[w].shadow \/ ClientOf(env[w]) = "none")
    <3>1. draft'[w] = Asking(j, NotAsked)
      BY <2>3, <2>5
    <3>2. AskOK(w, j, NotAsked)'
      BY <2>5 DEF AskOK, FinishJob
    <3>3. PositionOK(w)'
      BY <3>1, <3>2 DEF PositionOK
    <3> QED
      BY <3>3, OthersStay DEF DraftInv, VarsTyped, FinishJob
  <2> QED
    BY <2>4, <2>5
<1>4. Recorded' /\ Read'
  BY DEF DraftInv, Recorded, Read, FinishJob
<1>5. MessageKeepsTheRules'
  BY RulesStay DEF DraftInv, FinishJob
<1> QED
  BY <1>1, <1>2, <1>3, <1>4, <1>5 DEF DraftInv

-----------------------------------------------------------------------------
(* An answer. *)

LEMMA AnsweredPosition ==
  ASSUME NEW w, NEW j \in Jobs, NEW rejected \in ModelReplies \cup {NotAsked}, NEW reply \in ModelReplies,
         draft[w] = Asking(j, rejected), AskOK(w, j, rejected),
         draft'[w] = NextDraft(w, reply), env'[w] = env[w],
         NEW replies,
         ClientOf(env[w]) = "replay" =>
           /\ index'[w].loaded /\ index'[w].replies = replies
           /\ replies[Key(j, rejected)] = reply
           /\ rejected # NotAsked => replies[Key(j, NotAsked)] = rejected
           /\ expected'[w][j] # None => Replayed(replies, j) = expected'[w][j]
  PROVE  PositionOK(w)'
<1>1. ~Ask[j].neutral /\ ~env'[w].shadow /\ ClientOf(env'[w]) # "none" /\ ClientOf(env'[w]) = ClientOf(env[w])
  BY DEF AskOK
<1>2. CASE rejected = NotAsked /\ Unfit(j, reply)
  <2>1. draft'[w] = Asking(j, reply)
    BY <1>2, DraftAfter
  <2>2. AskOK(w, j, reply)'
    BY <1>1, <1>2 DEF AskOK
  <2> QED
    BY <2>1, <2>2 DEF PositionOK
<1>3. CASE ~(rejected = NotAsked /\ Unfit(j, reply))
  <2>1. PICK nudge : nudge = Answer(j, reply)
    OBVIOUS
  <2>2. draft'[w] = Attaching(j, nudge) /\ draft'[w].nudge = nudge
    BY <1>3, <2>1, DraftAfter, Places
  <2>3. Keeps(j, j, nudge) /\ LinkOf(w, j)' = j
    BY <1>1, <2>1, AnswerKeeps DEF LinkOf
  <2>4. ClientOf(env[w]) = "replay" => Replayed(replies, j) = nudge
    <3>1. CASE rejected = NotAsked
      BY <1>3, <2>1, <3>1 DEF Replayed
    <3>2. CASE rejected # NotAsked
      BY <2>1, <3>2 DEF Replayed, AskOK
    <3> QED
      BY <3>1, <3>2
  <2>5. AttachOK(w, j, nudge)'
    BY <1>1, <2>3, <2>4 DEF AttachOK
  <2>6. AttachOK(w, j, draft[w].nudge)'
    BY <2>2, <2>5 DEF AttachOK, LinkOf
  <2> QED
    BY <2>2, <2>6 DEF PositionOK
<1> QED
  BY <1>2, <1>3

\* A client that reads no file leaves it, and what is known of it, alone.
LEMMA UnreadAnswerKeeps ==
  ASSUME DraftInv, NEW w \in Processes, NEW reply \in ModelReplies,
         draft[w].pc = "ask", ClientOf(env[w]) # "replay", Continue(w, reply),
         UNCHANGED <<env, index, stored, expected>>, DOMAIN told' = Jobs
  PROVE  Positions' /\ VarsTyped'
<1>1. PICK j \in Jobs, rejected \in ModelReplies \cup {NotAsked} :
        draft[w] = Asking(j, rejected) /\ AskOK(w, j, rejected)
  BY AtRequest DEF DraftInv, Positions
<1>2. draft'[w] = NextDraft(w, reply) /\ DOMAIN draft' = Processes
      /\ \A v \in Processes \ {w} : draft'[v] = draft[v]
  BY DEF DraftInv, VarsTyped, Continue
<1>3. PositionOK(w)'
  <2>1. env'[w] = env[w]
    OBVIOUS
  <2> QED
    BY <1>1, <1>2, <2>1, AnsweredPosition
<1>4. Positions'
  BY <1>2, <1>3, OthersStay DEF DraftInv
<1>5. VarsTyped'
  BY <1>2 DEF DraftInv, VarsTyped
<1> QED
  BY <1>4, <1>5

LEMMA AskPlainKeeps ==
  ASSUME DraftInv, NEW w \in Processes, AskFaulting(w) \/ AskLive(w)
  PROVE  DraftInv'
<1>1. PICK reply \in ModelReplies : Continue(w, reply)
  <2>1. NoAnswer \in ModelReplies /\ Text(None) \in ModelReplies
    BY ReplyKinds
  <2> QED
    BY <2>1 DEF AskFaulting, AskLive
<1>2. draft[w].pc = "ask" /\ ClientOf(env[w]) # "replay"
  BY DEF AskFaulting, AskLive, Asks
<1>3. UNCHANGED <<tape, env, index, stored, drafts, told, expected>>
  BY DEF AskFaulting, AskLive
<1>4. Positions' /\ VarsTyped'
  BY <1>1, <1>2, <1>3, UnreadAnswerKeeps DEF DraftInv, VarsTyped
<1>5. TapeTyped' /\ Recorded' /\ Read'
  BY <1>3 DEF DraftInv, TapeTyped, Recorded, Read
<1>6. MessageKeepsTheRules'
  BY <1>3, RulesStay DEF DraftInv
<1> QED
  BY <1>4, <1>5, <1>6 DEF DraftInv

(* What is recorded of a job is what a replay of it will end with: a first   *)
(* answer begins a new recording, a repair completes the newest one, or that *)
(* of an answer another recording has replaced, which no replay reads.      *)
LEMMA RecordingKept ==
  ASSUME NEW j \in Jobs, NEW rejected \in ModelReplies \cup {NotAsked}, NEW reply \in ModelReplies,
         rejected # NotAsked => Unfit(j, rejected),
         NEW old \in [Keys -> ModelReplies], NEW new \in [Keys -> ModelReplies],
         new[Key(j, rejected)] = reply,
         \A key \in Keys : key # Key(j, rejected) => new[key] = old[key]
  PROVE  /\ \A k \in Jobs : k # j => Replayed(new, k) = Replayed(old, k)
         /\ rejected = NotAsked /\ ~Unfit(j, reply) => Replayed(new, j) = Answer(j, reply)
         /\ rejected # NotAsked /\ old[Key(j, NotAsked)] = rejected => Replayed(new, j) = Answer(j, reply)
         /\ rejected # NotAsked /\ old[Key(j, NotAsked)] # rejected => Replayed(new, j) = Replayed(old, j)
<1>1. Key(j, rejected) \in Keys /\ Key(j, rejected)[1] = j /\ Key(j, NotAsked) \in Keys
  BY KeyKinds
<1>2. new[Key(j, rejected)] = reply /\ \A key \in Keys : key # Key(j, rejected) => new[key] = old[key]
  OBVIOUS
<1>3. ASSUME NEW k \in Jobs, k # j PROVE Replayed(new, k) = Replayed(old, k)
  <2>1. \A key \in Keys : key[1] = k => new[key] = old[key]
    BY <1>1, <1>2, <1>3
  <2> QED
    BY <2>1, ReplayedSame
<1>4. CASE rejected = NotAsked
  BY <1>2, <1>3, <1>4 DEF Replayed
<1>5. CASE rejected # NotAsked
  <2>1. Key(j, NotAsked) # Key(j, rejected)
    BY <1>5 DEF Key
  <2>2. PICK first : first = old[Key(j, NotAsked)]
    OBVIOUS
  <2>3. new[Key(j, NotAsked)] = first /\ first \in ModelReplies
    BY <1>1, <1>2, <2>1, <2>2
  <2>4. CASE first = rejected
    BY <1>2, <1>3, <1>5, <2>2, <2>3, <2>4 DEF Replayed
  <2>5. CASE first # rejected
    <3>1. Key(j, first) # Key(j, rejected) /\ Key(j, first) \in Keys
      BY <2>3, <2>5, KeyKinds DEF Key
    <3>2. new[Key(j, first)] = old[Key(j, first)]
      BY <1>2, <3>1
    <3>3. Replayed(new, j) = Replayed(old, j)
      BY <2>2, <2>3, <3>2 DEF Replayed
    <3> QED
      BY <1>3, <1>5, <2>2, <2>5, <3>3
  <2> QED
    BY <1>5, <2>2, <2>4, <2>5
<1> QED
  BY <1>3, <1>4, <1>5

LEMMA AskRecordingKeeps ==
  ASSUME DraftInv, NEW w \in Processes, AskRecording(w)
  PROVE  DraftInv'
<1>1. draft[w].pc = "ask" /\ ClientOf(env[w]) = "record" /\ UNCHANGED <<env, index, stored, drafts, expected>>
  BY DEF AskRecording, Asks
<1>2. PICK j \in Jobs, rejected \in ModelReplies \cup {NotAsked} :
        draft[w] = Asking(j, rejected) /\ AskOK(w, j, rejected)
  BY <1>1, AtRequest DEF DraftInv, Positions
<1>3. draft[w].job = j /\ draft[w].rejected = rejected
  BY <1>2, DraftAfter
<1>4. PICK reply \in ModelReplies :
        LET next == NextDraft(w, reply)
            outcome == IF next.pc = "attach" THEN next.nudge ELSE None
        IN  /\ Continue(w, reply)
            /\ tape' = IF reply = NoAnswer THEN tape ELSE Append(tape, [key |-> Key(j, rejected), reply |-> reply])
            /\ told' = IF reply = NoAnswer \/ ~Latest(w) THEN told ELSE [told EXCEPT ![j] = outcome]
  BY <1>3 DEF AskRecording
<1>5. PICK next : next = NextDraft(w, reply)
  OBVIOUS
<1>6. PICK outcome : outcome = IF next.pc = "attach" THEN next.nudge ELSE None
  OBVIOUS
<1>7. PICK old : old = LoadIndex(tape)
  OBVIOUS
<1>8. old \in [Keys -> ModelReplies] /\ tape \in Seq(Records)
  BY <1>7, IndexTyped DEF DraftInv, TapeTyped
<1>9. Positions' /\ VarsTyped'
  <2>1. DOMAIN told' = Jobs
    BY <1>4 DEF DraftInv, VarsTyped
  <2> QED
    BY <1>1, <1>4, <2>1, UnreadAnswerKeeps
<1>10. Key(j, rejected) \in Keys /\ (rejected # NotAsked => Unfit(j, rejected))
  BY <1>2, KeyKinds DEF AskOK
<1>11. TapeTyped'
  <2>1. reply # NoAnswer => [key |-> Key(j, rejected), reply |-> reply] \in Records
    BY <1>10 DEF Records
  <2> QED
    BY <1>1, <1>4, <1>8, <2>1 DEF DraftInv, TapeTyped
<1>12. Recorded'
  <2>1. CASE reply = NoAnswer
    BY <1>4, <2>1 DEF DraftInv, Recorded
  <2>2. CASE reply # NoAnswer
    <3>1. PICK new : new = LoadIndex(tape')
      OBVIOUS
    <3>2. new = [old EXCEPT ![Key(j, rejected)] = reply]
      BY <1>4, <1>7, <1>8, <1>10, <2>2, <3>1, IndexAfterAppend
    <3>3. /\ new \in [Keys -> ModelReplies] /\ new[Key(j, rejected)] = reply
          /\ \A key \in Keys : key # Key(j, rejected) => new[key] = old[key]
      BY <1>8, <1>10, <3>2
    <3>4. /\ \A k \in Jobs : k # j => Replayed(new, k) = Replayed(old, k)
          /\ rejected = NotAsked /\ ~Unfit(j, reply) => Replayed(new, j) = Answer(j, reply)
          /\ rejected # NotAsked /\ old[Key(j, NotAsked)] = rejected => Replayed(new, j) = Answer(j, reply)
          /\ rejected # NotAsked /\ old[Key(j, NotAsked)] # rejected => Replayed(new, j) = Replayed(old, j)
      BY <1>8, <1>10, <3>3, RecordingKept
    <3>5. Latest(w) <=> rejected = NotAsked \/ old[Key(j, NotAsked)] = rejected
      BY <1>3, <1>7 DEF Latest
    <3>6. next = IF rejected = NotAsked /\ Unfit(j, reply) THEN Asking(j, reply) ELSE Attaching(j, Answer(j, reply))
      BY <1>2, <1>5, DraftAfter
    <3>7. outcome = IF rejected = NotAsked /\ Unfit(j, reply) THEN None ELSE Answer(j, reply)
      BY <1>6, <3>6, Places
    <3>8. told' = IF Latest(w) THEN [told EXCEPT ![j] = outcome] ELSE told
      BY <1>4, <1>5, <1>6, <2>2
    <3>9. \A k \in Jobs : told[k] # None => Replayed(old, k) = told[k]
      BY <1>7 DEF DraftInv, Recorded
    <3>10. ASSUME NEW k \in Jobs, told'[k] # None PROVE Replayed(new, k) = told'[k]
      <4>1. CASE k # j
        BY <3>4, <3>8, <3>9, <3>10, <4>1 DEF DraftInv, VarsTyped
      <4>2. CASE k = j /\ Latest(w)
        <5>1. told'[k] = outcome
          BY <3>8, <4>2 DEF DraftInv, VarsTyped
        <5> QED
          BY <3>4, <3>5, <3>7, <3>10, <4>2, <5>1
      <4>3. CASE k = j /\ ~Latest(w)
        BY <3>4, <3>5, <3>8, <3>9, <3>10, <4>3
      <4> QED
        BY <4>1, <4>2, <4>3
    <3> QED
      BY <3>1, <3>10 DEF Recorded
  <2> QED
    BY <2>1, <2>2
<1>13. Read'
  BY <1>1 DEF DraftInv, Read
<1>14. MessageKeepsTheRules'
  BY <1>1, RulesStay DEF DraftInv
<1> QED
  BY <1>9, <1>11, <1>12, <1>13, <1>14 DEF DraftInv

LEMMA AskReplayingKeeps ==
  ASSUME DraftInv, NEW w \in Processes, AskReplaying(w)
  PROVE  DraftInv'
<1>1. draft[w].pc = "ask" /\ ClientOf(env[w]) = "replay" /\ UNCHANGED <<tape, env, stored, drafts, told>>
  BY DEF AskReplaying, Asks
<1>2. PICK j \in Jobs, rejected \in ModelReplies \cup {NotAsked} :
        draft[w] = Asking(j, rejected) /\ AskOK(w, j, rejected)
  BY <1>1, AtRequest DEF DraftInv, Positions
<1>3. draft[w].job = j /\ draft[w].rejected = rejected
  BY <1>2, DraftAfter
<1>4. PICK replies : replies = IF index[w].loaded THEN index[w].replies ELSE LoadIndex(tape)
  OBVIOUS
<1>5. PICK reply : reply = replies[Key(j, rejected)]
  OBVIOUS
<1>6. replies \in [Keys -> ModelReplies]
  BY <1>4, IndexTyped DEF DraftInv, TapeTyped, VarsTyped
<1>7. reply \in ModelReplies
  BY <1>5, <1>6, KeyKinds
<1>8. /\ index' = [index EXCEPT ![w] = [loaded |-> TRUE, replies |-> replies]]
      /\ expected' = [expected EXCEPT ![w] = IF index[w].loaded THEN expected[w] ELSE told]
      /\ draft' = [draft EXCEPT ![w] = NextDraft(w, reply)]
  BY <1>3, <1>4, <1>5 DEF AskReplaying, Continue
<1>9. /\ DOMAIN index' = Processes /\ index'[w].loaded = TRUE /\ index'[w].replies = replies
      /\ DOMAIN expected' = Processes /\ expected'[w] = IF index[w].loaded THEN expected[w] ELSE told
      /\ DOMAIN draft' = Processes /\ draft'[w] = NextDraft(w, reply)
  BY <1>8 DEF DraftInv, VarsTyped
<1>10. \A v \in Processes \ {w} : index'[v] = index[v] /\ expected'[v] = expected[v] /\ draft'[v] = draft[v]
  BY <1>8 DEF DraftInv, VarsTyped
<1>11. \A k \in Jobs : expected'[w][k] # None => Replayed(replies, k) = expected'[w][k]
  <2>1. CASE index[w].loaded
    BY <1>4, <1>9, <2>1 DEF DraftInv, Read
  <2>2. CASE ~index[w].loaded
    BY <1>4, <1>9, <2>2 DEF DraftInv, Recorded
  <2> QED
    BY <2>1, <2>2
<1>12. Positions'
  <2>1. rejected # NotAsked => replies[Key(j, NotAsked)] = rejected
    BY <1>1, <1>2, <1>4 DEF AskOK
  <2>2. env'[w] = env[w]
    BY <1>1
  <2>3. PositionOK(w)'
    BY <1>2, <1>5, <1>7, <1>9, <1>11, <2>1, <2>2, AnsweredPosition
  <2> QED
    BY <1>1, <1>10, <2>3, OthersStay DEF DraftInv
<1>13. VarsTyped'
  BY <1>1, <1>6, <1>9, <1>10 DEF DraftInv, VarsTyped
<1>14. TapeTyped' /\ Recorded'
  BY <1>1 DEF DraftInv, TapeTyped, Recorded
<1>15. Read'
  <2>1. ASSUME NEW v \in Processes, NEW k \in Jobs, index'[v].loaded, expected'[v][k] # None
        PROVE  Replayed(index'[v].replies, k) = expected'[v][k]
    <3>1. CASE v = w
      BY <1>9, <1>11, <2>1, <3>1
    <3>2. CASE v # w
      BY <1>10, <2>1, <3>2 DEF DraftInv, Read
    <3> QED
      BY <3>1, <3>2
  <2> QED
    BY <2>1 DEF Read
<1>16. MessageKeepsTheRules'
  BY <1>1, RulesStay DEF DraftInv
<1> QED
  BY <1>12, <1>13, <1>14, <1>15, <1>16 DEF DraftInv

-----------------------------------------------------------------------------
(* The message is stored. *)

LEMMA AttachNudgeKeeps ==
  ASSUME DraftInv, NEW w \in Processes, AttachNudge(w)
  PROVE  DraftInv'
<1>1. draft[w].pc = "attach" /\ UNCHANGED <<tape, env, index, drafts, told, expected>>
  BY DEF AttachNudge
<1>2. PICK j \in Jobs : draft[w] = Attaching(j, draft[w].nudge) /\ AttachOK(w, j, draft[w].nudge)
  BY <1>1, AtAttach DEF DraftInv, Positions
<1>3. PICK nudge : nudge = draft[w].nudge
  OBVIOUS
<1>4. draft[w].job = j
  BY <1>2, Places
<1>5. PICK link : link = LinkOf(w, j)
  OBVIOUS
<1>6. PICK message : message = Suffixed(link, j, nudge)
  OBVIOUS
<1>7. stored' = [stored EXCEPT ![w][j] = Drafted(message, nudge.source)] /\ draft' = [draft EXCEPT ![w] = NoDraft]
  BY <1>3, <1>4, <1>5, <1>6 DEF AttachNudge
<1>8. draft'[w] = NoDraft /\ DOMAIN draft' = Processes /\ \A v \in Processes \ {w} : draft'[v] = draft[v]
  BY <1>7 DEF DraftInv, VarsTyped
<1>9. /\ DOMAIN stored' = Processes /\ \A v \in Processes : DOMAIN stored'[v] = Jobs
      /\ stored'[w][j] = Drafted(message, nudge.source)
      /\ \A v \in Processes, k \in Jobs : v # w \/ k # j => stored'[v][k] = stored[v][k]
  BY <1>7 DEF DraftInv, VarsTyped
<1>10. TapeTyped' /\ VarsTyped' /\ Recorded' /\ Read'
  BY <1>1, <1>8, <1>9 DEF DraftInv, TapeTyped, VarsTyped, Recorded, Read
<1>11. Positions'
  <2>1. PositionOK(w)'
    BY <1>8 DEF PositionOK
  <2> QED
    BY <1>1, <1>8, <2>1, OthersStay DEF DraftInv
<1>12. MessageKeepsTheRules'
  <2>1. \A v \in Processes, k \in Jobs : LinkOf(v, k)' = LinkOf(v, k)
    BY <1>1 DEF LinkOf
  <2>2. Keeps(link, j, nudge)
    BY <1>2, <1>3, <1>5 DEF AttachOK
  <2>3. Kept(link, j, nudge.source, message)
    BY <1>6, <2>2, SuffixedKeeps
  <2>4. stored'[w][j].message = message /\ stored'[w][j].source = nudge.source /\ LinkOf(w, j)' = link
    BY <1>5, <1>9, <2>1 DEF Drafted
  <2>5. ASSUME NEW v \in Processes, NEW k \in Jobs, stored'[v][k] # None
        PROVE  Kept(LinkOf(v, k), k, stored[v][k].source, stored[v][k].message)'
    <3>1. CASE v = w /\ k = j
      BY <2>3, <2>4, <3>1 DEF Kept
    <3>2. CASE v # w \/ k # j
      BY <1>9, <2>1, <2>5, <3>2 DEF DraftInv, MessageKeepsTheRules, Kept
    <3> QED
      BY <3>1, <3>2
  <2> QED
    BY <2>5 DEF MessageKeepsTheRules, Kept
<1> QED
  BY <1>10, <1>11, <1>12 DEF DraftInv

-----------------------------------------------------------------------------
(* The theorems. *)

LEMMA DraftInvariant == DSpec => []DraftInv
<1>1. DInit => DraftInv
  <2> SUFFICES ASSUME DInit PROVE DraftInv
    OBVIOUS
  <2>1. TapeTyped
    BY DraftingAssumption DEF DInit, TapeTyped
  <2>2. VarsTyped
    BY DEF DInit, VarsTyped, Unread, Nothing
  <2>3. Positions
    BY DEF DInit, Positions, PositionOK
  <2>4. Recorded /\ Read
    BY DEF DInit, Recorded, Read, Nothing
  <2>5. MessageKeepsTheRules
    BY DEF DInit, MessageKeepsTheRules, Nothing
  <2> QED
    BY <2>1, <2>2, <2>3, <2>4, <2>5 DEF DraftInv
<1>2. DraftInv /\ [DNext]_dvars => DraftInv'
  <2> SUFFICES ASSUME DraftInv, [DNext]_dvars PROVE DraftInv'
    OBVIOUS
  <2>1. CASE DNext
    <3>1. PICK w \in Processes :
            \/ DStep(w)
            \/ \E settings \in Settings[w] : Start(w, settings)
            \/ \E j \in Jobs : FinishJob(w, j)
      BY <2>1 DEF DNext
    <3>2. CASE DStep(w)
      BY <3>2, AskPlainKeeps, AskRecordingKeeps, AskReplayingKeeps, AttachNudgeKeeps DEF DStep
    <3>3. CASE \E settings \in Settings[w] : Start(w, settings)
      BY <3>3, StartKeeps
    <3>4. CASE \E j \in Jobs : FinishJob(w, j)
      BY <3>4, FinishJobKeeps
    <3> QED
      BY <3>1, <3>2, <3>3, <3>4
  <2>2. CASE UNCHANGED dvars
    <3>1. Positions'
      BY <2>2, PositionStays DEF DraftInv, Positions, dvars
    <3>2. MessageKeepsTheRules'
      BY <2>2, RulesStay DEF DraftInv, dvars
    <3> QED
      BY <2>2, <3>1, <3>2 DEF DraftInv, dvars, TapeTyped, VarsTyped, Recorded, Read
  <2> QED
    BY <2>1, <2>2
<1> QED
  BY <1>1, <1>2, PTL DEF DSpec

\* A request is open only in a process with a client to ask and about a job the
\* customer may be told of, and what is about to be stored is a draft, of the
\* model or of the template (draft_nudge of llm.py).
THEOREM DraftingTypeCorrect == DSpec => []DraftingTypeOK
<1>1. DraftInv => DraftingTypeOK
  <2> SUFFICES ASSUME DraftInv PROVE DraftingTypeOK
    OBVIOUS
  <2>1. \A i \in DOMAIN tape : tape[i].key[1] \in Jobs /\ tape[i].reply \in ModelReplies \ {NoAnswer}
    <3> SUFFICES ASSUME NEW i \in DOMAIN tape
                 PROVE  tape[i].key[1] \in Jobs /\ tape[i].reply \in ModelReplies \ {NoAnswer}
      OBVIOUS
    <3>1. tape[i] \in Records
      BY DEF DraftInv, TapeTyped
    <3>2. tape[i].key \in Keys /\ tape[i].reply \in ModelReplies \ {NoAnswer}
      BY <3>1 DEF Records
    <3> QED
      BY <3>2 DEF Keys
  <2>2. ASSUME NEW w \in Processes
        PROVE  /\ draft[w].pc \in {"idle", "ask", "attach"}
               /\ draft[w].pc = "ask" => ClientOf(env[w]) # "none" /\ ~Ask[draft[w].job].neutral
               /\ draft[w].pc = "attach" => draft[w].nudge.source \in {"llm", "template"}
    <3>1. PositionOK(w)
      BY DEF DraftInv, Positions
    <3>2. CASE draft[w].pc = "ask"
      <4>1. PICK j \in Jobs, rejected \in ModelReplies \cup {NotAsked} :
              draft[w] = Asking(j, rejected) /\ AskOK(w, j, rejected)
        BY <3>1, <3>2, AtRequest
      <4>2. draft[w].job = j
        BY <4>1 DEF Asking
      <4> QED
        BY <3>2, <4>1, <4>2 DEF AskOK
    <3>3. CASE draft[w].pc = "attach"
      BY <3>1, <3>3, AtAttach DEF AttachOK, Keeps
    <3>4. draft[w].pc \in {"idle", "ask", "attach"}
      <4>1. ASSUME NEW j, NEW rejected, draft[w] = Asking(j, rejected) PROVE draft[w].pc = "ask"
        BY <4>1 DEF Asking
      <4>2. ASSUME NEW j, draft[w] = Attaching(j, draft[w].nudge) PROVE draft[w].pc = "attach"
        BY <4>2 DEF Attaching
      <4> QED
        BY <3>1, <4>1, <4>2, Places DEF PositionOK
    <3> QED
      BY <3>2, <3>3, <3>4
  <2> QED
    BY <2>1, <2>2 DEF DraftInv, TapeTyped, VarsTyped, DraftingTypeOK
<1> QED
  BY <1>1, DraftInvariant, PTL

\* Whatever the model or the file answered to the first call and to the repair,
\* the stored message keeps the rules (_validate_nudge of llm.py,
\* nudge_templates.py, nudge_suffix of offers.py).
THEOREM MessagesKeepTheRules == DSpec => []MessageKeepsTheRules
  BY DraftInvariant, PTL DEF DraftInv

\* Whoever recorded what and in between, a replay drafts what the last complete
\* recording ended with (CassetteLLM of llm_cassette.py).
THEOREM ReplaysRepeat == DSpec => []ReplayRepeats
<1>1. DraftInv => ReplayRepeats
  <2> SUFFICES ASSUME DraftInv, NEW w \in Processes, draft[w].pc = "attach", ClientOf(env[w]) = "replay",
                      ~Ask[draft[w].job].neutral, ~env[w].shadow
               PROVE  expected[w][draft[w].job] = None \/ draft[w].nudge = expected[w][draft[w].job]
    BY DEF ReplayRepeats
  <2>1. PICK j \in Jobs : draft[w] = Attaching(j, draft[w].nudge) /\ AttachOK(w, j, draft[w].nudge)
    BY AtAttach DEF DraftInv, Positions
  <2>2. draft[w].job = j
    BY <2>1, Places
  <2> QED
    BY <2>1, <2>2 DEF AttachOK
<1> QED
  BY <1>1, DraftInvariant, PTL
=============================================================================
