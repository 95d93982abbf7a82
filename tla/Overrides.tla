------------------------------ MODULE Overrides ------------------------------
(***************************************************************************)
(* The merchant override files, app/merchants.py: who writes them, and what *)
(* each process has read of them.  A file holds the policy and, per write,  *)
(* what the class held before, so that the write can be undone.            *)
(*                                                                         *)
(* A write reads the file, changes what it read and replaces the file: two *)
(* steps here, with no lock between them.  Every process reads the files   *)
(* when it starts and after its own writes, and never otherwise.           *)
(***************************************************************************)
EXTENDS Insights, Sequences, FiniteSets

CONSTANTS
  Merchants,
  Processes,
  Clerks,       (* threads and commands that apply and roll back            *)
  Host,         (* the process of each clerk                                *)
  Tuned,        (* classes with evidence to tune                            *)
  Evidence,     (* rates the reports may show, bucket by bucket             *)
  Thresholds,   (* --min-samples of a report                                *)
  HandEdits,    (* [file, class, override, disabled, humanAll] a person may
                   type into a file                                         *)
  MaxEdits,     (* bound on the hand edits                                  *)
  MaxWrites     (* bound on the writes and rollbacks begun                  *)

Default == "all"
Files == Merchants \cup {Default}

ASSUME OverridesAssumption ==
  /\ Default \notin Merchants
  /\ Host \in [Clerks -> Processes]
  /\ Tuned \subseteq FailureClasses
  /\ Evidence \subseteq [BucketNames -> [n : Nat, k : Nat]]
  /\ Thresholds \subseteq Nat
  /\ \A edit \in HandEdits :
       /\ edit.file \in Files /\ edit.class \in FailureClasses
       /\ ValidOverride(edit.class, edit.override)
       /\ edit.disabled \subseteq Disableable /\ edit.humanAll \in BOOLEAN
  /\ MaxEdits \in Nat /\ MaxWrites \in Nat

VARIABLES
  files,     (* what each file holds                                        *)
  registry,  (* what each process last read of the files                    *)
  draft,     (* the file a clerk read and is about to replace               *)
  begun,     (* writes and rollbacks begun                                  *)
  granted,   (* observation: <<file, class, delay>> written with evidence   *)
  byHand     (* observation: hand edits made                                *)

fvars == <<files, registry, draft, begun, granted, byHand>>

NoDraft == [kind |-> "none"]
Read == [f \in Files |-> files[f].policy]

FInit ==
  /\ files = [f \in Files |-> [policy |-> EmptyPolicy, history |-> <<>>]]
  /\ registry = [p \in Processes |-> [f \in Files |-> EmptyPolicy]]
  /\ draft = [c \in Clerks |-> NoDraft]
  /\ begun = 0
  /\ granted = {}
  /\ byHand = {}

\* What a process knows of a merchant: its file over the default.
OverridesFor(process, merchant) == MergedOver(registry[process][merchant], registry[process][Default])

-----------------------------------------------------------------------------
(* write_override, called with an insights proposal. *)

Delaying(minutes) == [Unset EXCEPT !.delay = minutes]

\* The report is computed anew; a proposal short of samples is refused, and
\* so is a change that acts sooner than the table without them.
Allowed(proposal) ==
  /\ HasEvidence(proposal.n)
  /\ LessConservative(proposal.class, Delaying(BucketDelay[proposal.to])) # {} => HasEvidence(proposal.n)

\* What a report of each evidence lets a person apply.
Reported ==
  [class \in Tuned |-> [rates \in Evidence |-> [min \in Thresholds |->
     {proposal \in Proposals(class, rates, min) : Allowed(proposal)}]]]

BeginApply(c, f) ==
  /\ draft[c] = NoDraft
  /\ begun < MaxWrites
  /\ begun' = begun + 1
  /\ \E class \in Tuned, rates \in Evidence, min \in Thresholds :
       \E proposal \in Reported[class][rates][min] :
         /\ draft' = [draft EXCEPT ![c] =
              [kind |-> "apply", file |-> f, class |-> class, seen |-> files[f],
               fields |-> Delaying(BucketDelay[proposal.to]),
               backed |-> Enough(rates[proposal.from], MIN_SAMPLES) /\ Enough(rates[proposal.to], MIN_SAMPLES)]]
  /\ UNCHANGED <<files, registry, granted, byHand>>

\* The file with one class's entry and its trail replaced.
WithEntry(content, class, override, history) ==
  [policy |-> [content.policy EXCEPT !.classes[class] = override], history |-> history]

Written(d) ==
  LET previous == d.seen.policy.classes[d.class] IN
  WithEntry(d.seen, d.class, LayerFields(d.fields, previous),
            Append(d.seen.history, [class |-> d.class, fields |-> d.fields, previous |-> previous]))

\* The file is replaced at once and read back with all the others.
Replace(c, f, content) ==
  /\ files' = [files EXCEPT ![f] = content]
  /\ registry' = [registry EXCEPT ![Host[c]] = [g \in Files |-> IF g = f THEN content.policy ELSE Read[g]]]
  /\ draft' = [draft EXCEPT ![c] = NoDraft]

CommitApply(c) ==
  /\ draft[c].kind = "apply"
  /\ LET d == draft[c] IN
     /\ IF ValidPolicy(Written(d).policy)
        THEN Replace(c, d.file, Written(d))
        ELSE draft' = [draft EXCEPT ![c] = NoDraft] /\ UNCHANGED <<files, registry>>
     /\ granted' = IF d.backed
                   THEN granted \cup {<<d.file, d.class, d.fields.delay>>}
                   ELSE granted
  /\ UNCHANGED <<begun, byHand>>

-----------------------------------------------------------------------------
(* rollback_override. *)

WritesOf(history, class) == {i \in DOMAIN history : history[i].class = class}

\* broken: the oldest write of the class is undone
Undone(history, class) == CHOOSE i \in WritesOf(history, class) : \A j \in WritesOf(history, class) : i <= j

\* The most recent write of the class.
LastWrite(history, class) == CHOOSE i \in WritesOf(history, class) : \A j \in WritesOf(history, class) : j <= i

Without(history, i) == SubSeq(history, 1, i - 1) \o SubSeq(history, i + 1, Len(history))

BeginRollback(c, f, class) ==
  /\ draft[c] = NoDraft
  /\ begun < MaxWrites
  /\ begun' = begun + 1
  /\ WritesOf(files[f].history, class) # {}
  /\ draft' = [draft EXCEPT ![c] = [kind |-> "rollback", file |-> f, class |-> class, seen |-> files[f]]]
  /\ UNCHANGED <<files, registry, granted, byHand>>

CommitRollback(c) ==
  /\ draft[c].kind = "rollback"
  /\ LET d == draft[c]
         last == LastWrite(d.seen.history, d.class)
     IN  Replace(c, d.file, WithEntry(d.seen, d.class, d.seen.history[last].previous,
                                      Without(d.seen.history, last)))
  /\ UNCHANGED <<begun, granted, byHand>>

-----------------------------------------------------------------------------
(* The files change outside the program too, and processes start again. *)

HandEdit ==
  /\ Cardinality(byHand) < MaxEdits
  /\ \E edit \in HandEdits \ byHand :
       /\ files' = [files EXCEPT ![edit.file].policy =
            [@ EXCEPT !.classes[edit.class] = edit.override,
                      !.disabled = edit.disabled, !.humanAll = edit.humanAll]]
       /\ byHand' = byHand \cup {edit}
  /\ UNCHANGED <<registry, draft, begun, granted>>

\* A process starts again: it reads every file, its clerks start over.
ReadFiles(process) ==
  /\ registry' = [registry EXCEPT ![process] = Read]
  /\ draft' = [c \in Clerks |-> IF Host[c] = process THEN NoDraft ELSE draft[c]]
  /\ UNCHANGED <<files, begun, granted, byHand>>

Clerk(c) ==
  \/ \E f \in Files : BeginApply(c, f)
  \/ CommitApply(c)
  \/ \E f \in Files, class \in Tuned : BeginRollback(c, f, class)
  \/ CommitRollback(c)

-----------------------------------------------------------------------------
(* Properties. *)

EditedByHand(f, class) == \E edit \in byHand : edit.file = f /\ edit.class = class

\* The trail of a file nobody edited by hand undoes: the entry is what its last
\* write of the class made of the entry before, and the first write found none,
\* whatever was written, lost and rolled back by clerks that take no lock.
TrailUndoes ==
  \A f \in Files, class \in FailureClasses :
    LET history == files[f].history
        writes == WritesOf(history, class)
        result(i) == LayerFields(history[i].fields, history[i].previous)
    IN  ~EditedByHand(f, class) =>
          /\ files[f].policy.classes[class] =
               IF writes = {} THEN Unset ELSE result(LastWrite(history, class))
          /\ \A i \in writes :
               history[i].previous =
                 IF \E j \in writes : j < i
                 THEN result(LastWrite(SubSeq(history, 1, i - 1), class)) ELSE Unset
=============================================================================
