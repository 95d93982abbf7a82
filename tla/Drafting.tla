------------------------------ MODULE Drafting ------------------------------
(***************************************************************************)
(* The message of a link that went out: the draft of app/llm.py (one call,  *)
(* one repair, then the template of app/nudge_templates.py), the offer      *)
(* sentence and the store of attach_nudge (app/pipeline.py), and the        *)
(* cassette file processes record and replay (app/llm_cassette.py).         *)
(*                                                                         *)
(* A message is what the rules look at: its channel, the amounts and links  *)
(* in it, the forbidden things it says, its script and its length.  A       *)
(* process drafts for a database of its own; the cassette file is shared.   *)
(* A step is one call to the client, or the commit of the message.          *)
(***************************************************************************)
EXTENDS Naturals, Sequences

CONSTANTS
  None,
  Processes,
  Jobs,        (* link jobs that were sent, or would have been              *)
  Ask,         (* what the caller knows of each job: AskFields              *)
  Sizes,       (* the lengths of each job's three SMS templates             *)
  CutAmounts,  (* the amounts left of the shortest when it is cut           *)
  OfferSize,   (* the length of an offer sentence                           *)
  Messages,    (* the messages a model may write                            *)
  Settings,    (* the environments each process may be started with         *)
  MaxDrafts    (* bound on the drafts begun, by all processes together      *)

Languages == {"en", "hi", "hinglish"}
Modes == {"off", "record", "replay"}
Faults == {"timeout", "bad_json", "no_model"}

AskFields ==
  [channel : {"sms", "email"}, amount : Nat, partial : Nat, neutral : BOOLEAN,
   customer : Languages \cup {None}, merchant : Languages \cup {None},
   offer : {"none", "partial", "rail_upi"}]

ASSUME DraftingAssumption ==
  /\ Ask \in [Jobs -> AskFields]
  /\ \A j \in Jobs : Ask[j].partial <= Ask[j].amount
  /\ Sizes \in [Jobs -> [1..3 -> Nat]]
  /\ CutAmounts \in [Jobs -> SUBSET Nat]
  /\ {OfferSize, MaxDrafts} \subseteq Nat
  /\ \A w \in Processes :
       Settings[w] \subseteq [mode : Modes, key : BOOLEAN, fault : Faults \cup {None}, shadow : BOOLEAN]
  /\ \A m \in Messages :
       DOMAIN m = {"channel", "amounts", "links", "says", "script", "size"} /\ m.size \in Nat

VARIABLES
  tape,    (* the cassette file: [key, reply], in file order                *)
  env,     (* the settings of each process, None before its first start     *)
  index,   (* what it has loaded of the file for replay                     *)
  draft,   (* the draft it is at                                            *)
  stored,  (* the message of each job, with its source                      *)
  drafts,
  told,    (* observation: what the last recording of each job ended with,  *)
           (* None when a call of it was not answered                       *)
  expected (* observation: told, as of the moment a process loaded the file *)

dvars == <<tape, env, index, draft, stored, drafts, told, expected>>

-----------------------------------------------------------------------------
(* What a call may come back with, and the file.                            *)

\* A text, None when it is not the JSON asked for; a refusal or a truncated
\* text; an exception.
Text(message) == [stop |-> "end_turn", text |-> message]
Stopped == [stop |-> "refusal", text |-> None]
NoAnswer == [stop |-> "raised", text |-> None]
ModelReplies == {Text(m) : m \in Messages \cup {None}} \cup {Stopped, NoAnswer}

\* What a first call quotes; a repair quotes the answer that was rejected.
NotAsked == [stop |-> "none", text |-> None]
Key(j, rejected) == <<j, rejected>>
Keys == Jobs \X ({NotAsked} \cup ModelReplies)

LastRecord(file, key) ==
  {i \in DOMAIN file : file[i].key = key /\ \A k \in DOMAIN file : k > i => file[k].key # key}

\* broken: the first record of a request is kept
FirstRecord(file) ==
  [key \in Keys |->
     LET first == {i \in DOMAIN file : file[i].key = key /\ \A k \in DOMAIN file : k < i => file[k].key # key}
     IN  IF first = {} THEN NoAnswer ELSE file[CHOOSE i \in first : TRUE].reply]

\* The file as an index: the last record of a request wins.  A request that is
\* not in it is refused without a call.
LoadIndex(file) ==
  [key \in Keys |->
     IF LastRecord(file, key) = {} THEN NoAnswer ELSE file[CHOOSE i \in LastRecord(file, key) : TRUE].reply]

Unread == [loaded |-> FALSE, replies |-> <<>>]

-----------------------------------------------------------------------------
NoDraft == [pc |-> "idle"]
Asking(j, rejected) == [pc |-> "ask", job |-> j, rejected |-> rejected]
Attaching(j, nudge) == [pc |-> "attach", job |-> j, nudge |-> nudge]
Nothing == [j \in Jobs |-> None]

DInit ==
  /\ tape = <<>>
  /\ env = [w \in Processes |-> None]
  /\ index = [w \in Processes |-> Unread]
  /\ draft = [w \in Processes |-> NoDraft]
  /\ stored = [w \in Processes |-> Nothing]
  /\ drafts = 0
  /\ told = Nothing
  /\ expected = [w \in Processes |-> Nothing]

\* A process starts, on a new database, and any draft it was at is lost.
Start(w, settings) ==
  /\ env' = [env EXCEPT ![w] = settings]
  /\ index' = [index EXCEPT ![w] = Unread]
  /\ draft' = [draft EXCEPT ![w] = NoDraft]
  /\ stored' = [stored EXCEPT ![w] = Nothing]
  /\ expected' = [expected EXCEPT ![w] = Nothing]
  /\ UNCHANGED <<tape, drafts, told>>

-----------------------------------------------------------------------------
(* Languages, lengths and the template. *)

\* The customer's own, then the merchant's, then the default.
Language(j) ==
  IF Ask[j].customer # None THEN Ask[j].customer
  ELSE IF Ask[j].merchant # None THEN Ask[j].merchant ELSE "en"

\* The script a language is written in; "unicode" is anything else that does
\* not fit Latin-1, such as a rupee sign.
Script(language) == IF language = "hi" THEN "devanagari" ELSE "latin"
SmsLimit(script) == IF script = "latin" THEN 300 ELSE 200

\* The link of a job: the one Razorpay holds; none was created in shadow mode.
LinkOf(w, j) == IF env[w].shadow THEN None ELSE j

\* The first of the three texts within the limit, the last one cut to it.  A
\* cut loses the link, which ends the text.  The English text begins with the
\* amount; in the others the order id comes first, and a long one leaves none
\* of it, or its first digits.
Fits(j) == \E i \in 1..3 : Sizes[j][i] <= SmsLimit(Script(Language(j)))
Whole(j) == Ask[j].channel = "email" \/ Fits(j)

ASSUME CutAssumption == \A j \in Jobs : Language(j) = "en" => CutAmounts[j] = {Ask[j].amount}

Template(link, j) ==
  LET script == Script(Language(j))
      limit == SmsLimit(script)
      fitting == {i \in 1..3 : Sizes[j][i] <= limit}
      size == IF Ask[j].channel = "email" THEN Sizes[j][1]
              ELSE IF ~Fits(j) THEN limit
              ELSE Sizes[j][CHOOSE i \in fitting : \A k \in fitting : i <= k]
  IN  [channel |-> Ask[j].channel,
       amounts |-> IF Whole(j) THEN {Ask[j].amount} ELSE CutAmounts[j],
       links |-> IF link # None /\ ~Ask[j].neutral /\ Whole(j) THEN {link} ELSE {},
       says |-> {}, script |-> script, size |-> size]

Drafted(message, source) == [message |-> message, source |-> source]

-----------------------------------------------------------------------------
(* The client of a process: get_client, FaultingLLM, CassetteLLM. *)

\* A fault comes before a key, replay needs none, and recording needs one.
ClientOf(settings) ==
  IF settings.fault = "no_model" THEN "none"
  ELSE IF settings.fault # None THEN settings.fault
  ELSE IF settings.mode = "replay" THEN "replay"
  ELSE IF ~settings.key THEN "none"
  ELSE IF settings.mode = "record" THEN "record" ELSE "live"

-----------------------------------------------------------------------------
(* The rules an answer must keep. *)

Acceptable(link, j, message) ==
  /\ message # None
  /\ message.channel = Ask[j].channel
  /\ message.amounts = {Ask[j].amount}
  /\ link # None => link \in message.links
  /\ message.channel = "sms" => message.size <= SmsLimit(message.script)
  /\ message.says = {}
  /\ (message.script = "devanagari") = (Language(j) = "hi")

-----------------------------------------------------------------------------
(* draft_nudge. *)

\* broken: what the customer may be told is left to the prompt
FinishJobAnyClass(w, j) ==
  /\ env[w] # None
  /\ drafts < MaxDrafts
  /\ draft[w].pc = "idle"
  /\ stored[w][j] = None
  /\ draft' = [draft EXCEPT ![w] =
       IF env[w].shadow \/ ClientOf(env[w]) = "none"
       THEN Attaching(j, Drafted(Template(LinkOf(w, j), j), "template"))
       ELSE Asking(j, NotAsked)]
  /\ drafts' = drafts + 1
  /\ UNCHANGED <<tape, env, index, stored, told, expected>>

\* A sent link without a message; a neutral one, a shadow one and one with no
\* client to ask never reach a model.
FinishJob(w, j) ==
  /\ env[w] # None
  /\ drafts < MaxDrafts
  /\ draft[w].pc = "idle"
  /\ stored[w][j] = None
  /\ draft' = [draft EXCEPT ![w] =
       IF Ask[j].neutral \/ env[w].shadow \/ ClientOf(env[w]) = "none"
       THEN Attaching(j, Drafted(Template(LinkOf(w, j), j), "template"))
       ELSE Asking(j, NotAsked)]
  /\ drafts' = drafts + 1
  /\ UNCHANGED <<tape, env, index, stored, told, expected>>

\* broken: the answer to a repair is taken as it is
NextDraftTrusting(w, reply) ==
  LET j == draft[w].job
      link == LinkOf(w, j)
      first == draft[w].rejected = NotAsked
  IN  IF reply.stop = "end_turn" /\ (Acceptable(link, j, reply.text) \/ (~first /\ reply.text # None))
      THEN Attaching(j, Drafted(reply.text, "llm"))
      ELSE IF reply.stop = "end_turn" /\ first THEN Asking(j, reply)
      ELSE Attaching(j, Drafted(Template(link, j), "template"))

\* An answer that keeps the rules is the draft; the first that does not is
\* asked for again; anything else ends in the template.
NextDraft(w, reply) ==
  LET j == draft[w].job
      link == LinkOf(w, j)
  IN  IF reply.stop = "end_turn" /\ Acceptable(link, j, reply.text)
      THEN Attaching(j, Drafted(reply.text, "llm"))
      ELSE IF reply.stop = "end_turn" /\ draft[w].rejected = NotAsked THEN Asking(j, reply)
      ELSE Attaching(j, Drafted(Template(link, j), "template"))

Asks(w, client) == draft[w].pc = "ask" /\ ClientOf(env[w]) = client
Continue(w, reply) == draft' = [draft EXCEPT ![w] = NextDraft(w, reply)]

\* An injected fault answers every call alike; the hallucinated class is for
\* the classifier, and an answer without the schema's fields here.
AskFaulting(w) ==
  /\ Asks(w, "timeout") \/ Asks(w, "bad_json")
  /\ Continue(w, IF env[w].fault = "timeout" THEN NoAnswer ELSE Text(None))
  /\ UNCHANGED <<tape, env, index, stored, drafts, told, expected>>

AskLive(w) ==
  /\ Asks(w, "live")
  /\ \E reply \in ModelReplies : Continue(w, reply)
  /\ UNCHANGED <<tape, env, index, stored, drafts, told, expected>>

\* Whether no other recording of the job has been answered since this one.
Latest(w) ==
  LET j == draft[w].job IN
  draft[w].rejected = NotAsked \/ LoadIndex(tape)[Key(j, NotAsked)] = draft[w].rejected

\* The answer is appended to the file before the caller looks at it; a call
\* that raises is not recorded.
AskRecording(w) ==
  LET j == draft[w].job IN
  /\ Asks(w, "record")
  /\ \E reply \in ModelReplies :
       LET next == NextDraft(w, reply)
           outcome == IF next.pc = "attach" THEN next.nudge ELSE None
       IN  /\ Continue(w, reply)
           /\ tape' = IF reply = NoAnswer THEN tape
                      ELSE Append(tape, [key |-> Key(j, draft[w].rejected), reply |-> reply])
           /\ told' = IF reply = NoAnswer \/ ~Latest(w) THEN told ELSE [told EXCEPT ![j] = outcome]
  /\ UNCHANGED <<env, index, stored, drafts, expected>>

\* The file is read at the first request and never again.
AskReplaying(w) ==
  LET replies == IF index[w].loaded THEN index[w].replies ELSE LoadIndex(tape) IN
  /\ Asks(w, "replay")
  /\ index' = [index EXCEPT ![w] = [loaded |-> TRUE, replies |-> replies]]
  /\ expected' = [expected EXCEPT ![w] = IF index[w].loaded THEN @ ELSE told]
  /\ Continue(w, replies[Key(draft[w].job, draft[w].rejected)])
  /\ UNCHANGED <<tape, env, stored, drafts, told>>

-----------------------------------------------------------------------------
(* attach_nudge: the offer sentence, and the commit. *)

\* Whether there is one: partial payments on either path, the rail on a link
\* with the template only.
Offered(link, j, source) ==
  \/ Ask[j].offer = "partial"
  \/ Ask[j].offer = "rail_upi" /\ source = "template" /\ link # None

OfferAmounts(j) == IF Ask[j].offer = "partial" THEN {Ask[j].partial} ELSE {}

\* After the rules have been looked at.
Suffixed(link, j, nudge) ==
  IF ~Offered(link, j, nudge.source) THEN nudge.message
  ELSE [nudge.message EXCEPT !.amounts = @ \cup OfferAmounts(j), !.size = @ + OfferSize + 1]

AttachNudge(w) ==
  LET j == draft[w].job
      nudge == draft[w].nudge
  IN
  /\ draft[w].pc = "attach"
  /\ stored' = [stored EXCEPT ![w][j] = Drafted(Suffixed(LinkOf(w, j), j, nudge), nudge.source)]
  /\ draft' = [draft EXCEPT ![w] = NoDraft]
  /\ UNCHANGED <<tape, env, index, drafts, told, expected>>

-----------------------------------------------------------------------------
DStep(w) == AskFaulting(w) \/ AskLive(w) \/ AskRecording(w) \/ AskReplaying(w) \/ AttachNudge(w)

DNext ==
  \E w \in Processes :
    \/ DStep(w)
    \/ \E settings \in Settings[w] : Start(w, settings)
    \/ \E j \in Jobs : FinishJob(w, j)

DSpec == DInit /\ [][DNext]_dvars

-----------------------------------------------------------------------------
(* Properties. *)

(* The positions of a draft: a request is only open with a client to ask,    *)
(* and a message is there to be stored.                                      *)
DraftingTypeOK ==
  /\ \A i \in DOMAIN tape : tape[i].key[1] \in Jobs /\ tape[i].reply \in ModelReplies \ {NoAnswer}
  /\ drafts \in 0..MaxDrafts
  /\ \A w \in Processes :
       /\ env[w] \in Settings[w] \cup {None}
       /\ draft[w].pc \in {"idle", "ask", "attach"}
       /\ draft[w].pc = "ask" => ClientOf(env[w]) # "none" /\ ~Ask[draft[w].job].neutral
       /\ draft[w].pc = "attach" => draft[w].nudge.source \in {"llm", "template"}

(* docs/llm.md, content rules, and docs/offers.md: whatever the model or the *)
(* file answered, the stored message always names the minimum of the job's   *)
(* own partial offer; beside it the job's amount and no other, unless it is  *)
(* a Hindi or Hinglish template that had to be cut; its link when it has one *)
(* to give and was not cut; nothing forbidden; and the script of the         *)
(* customer's language, on either path.  (Its length is not among them: the  *)
(* offer sentence comes after the limit.)                                    *)
MessageKeepsTheRules ==
  \A w \in Processes : \A j \in Jobs : stored[w][j] # None =>
    LET message == stored[w][j].message
        uncut == stored[w][j].source = "llm" \/ Whole(j)
    IN
    /\ message.channel = Ask[j].channel
    /\ OfferAmounts(j) \subseteq message.amounts
    /\ uncut \/ Language(j) = "en" => message.amounts = {Ask[j].amount} \cup OfferAmounts(j)
    /\ uncut /\ LinkOf(w, j) # None /\ ~Ask[j].neutral => LinkOf(w, j) \in message.links
    /\ Ask[j].neutral => message.links = {}
    /\ message.says = {}
    /\ (message.script = "devanagari") = (Language(j) = "hi")

(* app/llm_cassette.py: a replay of the same event is an exact hit.  What a  *)
(* replay drafts is what the last recording ended with, when every call of   *)
(* it had been answered by the time the file was read: across recordings of  *)
(* the same job that were rejected and repaired differently, or cut short.   *)
ReplayRepeats ==
  \A w \in Processes :
    (draft[w].pc = "attach" /\ ClientOf(env[w]) = "replay" /\ ~Ask[draft[w].job].neutral /\ ~env[w].shadow)
      => (expected[w][draft[w].job] = None \/ draft[w].nudge = expected[w][draft[w].job])
=============================================================================
