---------------------------- MODULE MCMessaging ----------------------------
(***************************************************************************)
(* Tickets and a broadcast explored one after the other: they share no     *)
(* state, so `part` is chosen at the start and says which of them moves.   *)
(* Tickets are explored with one handler at work, first without deleted    *)
(* topics ("alone"), then with them but without mirrored messages          *)
(* ("gone"); and with two handlers, without bans, deleted topics and       *)
(* mirrored messages, where each step is a handler's ("together").  A      *)
(* broadcast sees MaxCalls requests and restarts in all.                   *)
(***************************************************************************)
EXTENDS Messaging, FiniteSets, TLC

CONSTANTS u1, u2, h1, h2, a1

VARIABLE part

mcvars == <<part, vars, bvars>>

\* Neither the users of tickets, nor handlers, jobs or authors are told apart.
\* (Authors are users and workers are handlers here: the two parts do not meet.)
Alike == Permutations(Users) \cup Permutations(Jobs)

MCInit ==
    /\ part \in {"alone", "gone", "together", "broadcast"} /\ MessagingInit
    /\ photo = IF part = "broadcast" THEN 1 ELSE 0  \* a broadcast with a photo

MCNext ==
    /\ \/ part = "broadcast" /\ Broadcasts(B!Next) /\ calls' + deaths' <= MaxCalls
       \/ /\ part # "broadcast" /\ Tickets(Next)
          /\ part # "together" => Cardinality({j \in Jobs : job'[j] # Idle}) <= 1
          /\ part = "alone" => UNCHANGED gone
          /\ part = "gone" => UNCHANGED board
          /\ part = "together" => job' # job /\ UNCHANGED <<wizard, banned, gone, board>>
    /\ UNCHANGED part

MCSpec == MCInit /\ [][MCNext]_mcvars
=============================================================================
