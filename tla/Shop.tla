-------------------------------- MODULE Shop --------------------------------
(***************************************************************************)
(* Promo codes (module Promo) and the dialogues that buy, extend and top   *)
(* up (module Dialogue), side by side: a dialogue knows of a code only     *)
(* what percent it takes off.                                              *)
(***************************************************************************)
EXTENDS Promo

CONSTANTS Tariffs, Durations, TariffOf, Price, Extendable, Percents, Amounts, Messages, Jobs

VARIABLES st, data, chat, newest, jobs, bill

D == INSTANCE Dialogue

ASSUME ShopAssumption == D!DialogueAssumption

dvars == <<st, data, chat, newest, jobs, bill>>

ShopInit == Init /\ D!Init

\* Each of the two moves by itself.
PromoCodes(action) == action /\ UNCHANGED dvars
Dialogues(action)  == action /\ UNCHANGED vars

ShopNext == PromoCodes(Next) \/ Dialogues(D!Next)

ShopSpec == ShopInit /\ [][ShopNext]_<<vars, dvars>>

-----------------------------------------------------------------------------
\* Types of codes and of dialogues; a dialogue carries discount codes only.
Types == TypeOK /\ D!TypeOK

\* The newest payment screen keeps its word: the dialogue holds what it shows, and who
\* pays there is charged for that, at its price or less.
NewestScreenPays == D!NewestScreenPays

\* "so the bot UI matches what's actually charged": the price on the message
\* whose button is pressed is the price charged.
ShownIsCharged == D!ShownIsCharged
=============================================================================
