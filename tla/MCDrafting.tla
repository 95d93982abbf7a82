----------------------------- MODULE MCDrafting -----------------------------
(* Drafting on a small instance. *)
EXTENDS Drafting, TLC

CONSTANTS j1, j2, j3, w1, w2

\* A repeat failer offered a partial payment, a Hindi customer of an English
\* merchant with an absurd order id, and a class the customer is told nothing of.
MCAsk == [j \in Jobs |->
  CASE j = j1 -> [channel |-> "sms", amount |-> 5, partial |-> 2, neutral |-> FALSE,
                  customer |-> None, merchant |-> None, offer |-> "partial"]
    [] j = j2 -> [channel |-> "sms", amount |-> 5, partial |-> 5, neutral |-> FALSE,
                  customer |-> "hi", merchant |-> "en", offer |-> "rail_upi"]
    [] j = j3 -> [channel |-> "email", amount |-> 5, partial |-> 5, neutral |-> TRUE,
                  customer |-> None, merchant |-> "hinglish", offer |-> "none"]]

MCSizes == [j \in Jobs |-> IF j = j2 THEN <<260, 240, 210>> ELSE <<310, 280, 250>>]

\* The order id of j2 fills its text before the amount.
MCCutAmounts == [j \in Jobs |-> IF j = j2 THEN {} ELSE {5}]

Message(link, amounts, says, script, size) ==
  [channel |-> "sms", amounts |-> amounts, links |-> {link}, says |-> says, script |-> script, size |-> size]

\* Good ones in two scripts, and one that names another amount.
MCMessages ==
  {Message(j1, {5}, {}, "latin", 290), Message(j2, {5}, {}, "devanagari", 190),
   Message(j1, {5, 4}, {}, "unicode", 190)}

Run(mode, fault, shadow) == [mode |-> mode, key |-> TRUE, fault |-> fault, shadow |-> shadow]
\* One process drafts with the model or records it, the other drafts offline.
MCSettings == [w \in Processes |->
  IF w = w1 THEN {Run("off", None, FALSE), Run("record", None, FALSE)}
  ELSE {Run("replay", None, FALSE), Run("replay", "bad_json", FALSE), Run("off", "no_model", TRUE)}]
=============================================================================
