------------------------------- MODULE MCShop -------------------------------
(***************************************************************************)
(* Promo codes and dialogues explored one after the other: they share no   *)
(* state, so `part` is chosen at the start and says which of them moves.   *)
(* The dialogues are explored with all messages and one waiting handler    *)
(* ("chat"), and with one message, which `part` names, and two waiting     *)
(* handlers.                                                               *)
(***************************************************************************)
EXTENDS Shop, TLC

CONSTANTS u1, u2, credit, rebate, r1, r2, r3, t1, t2, d1, d2, m1, m2, j1, j2

VARIABLE part

\* The discount code is personal.
MCOwner == [c \in Codes |-> IF c = rebate THEN {u1} ELSE {u1, u2}]

\* Two tariffs with a duration each.
MCTariffOf == [x \in Durations |-> IF x = d1 THEN t1 ELSE t2]
MCPrice    == [x \in Durations |-> IF x = d1 THEN 200 ELSE 300]

mcvars == <<part, vars, dvars>>

\* Messages are alike, and so are handlers.
Alike == Permutations(Messages) \cup Permutations(Jobs)

MCInit == part \in {"codes", "chat"} \cup Messages /\ ShopInit

MCNext ==
    /\ \/ part = "codes" /\ PromoCodes(Next)
       \/ /\ part # "codes" /\ Dialogues(D!Next)
          /\ part = "chat" => Cardinality({j \in Jobs : jobs'[j] # D!Idle}) <= 1
          /\ part \in Messages => \A m \in Messages \ {part} : chat'[m] = D!Blank
    /\ UNCHANGED part

MCSpec == MCInit /\ [][MCNext]_mcvars
=============================================================================
