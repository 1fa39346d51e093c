------------------------------ MODULE Dialogue ------------------------------
(***************************************************************************)
(* The bot's dialogues about money (bot/app/handlers): buying a tariff     *)
(* (catalog.py, purchase.py), extending a subscription (profile.py),       *)
(* topping up (topup.py) and entering a code (promo.py), for one user.     *)
(*                                                                         *)
(* What is under way is kept in Redis: a state and some data.  The user's  *)
(* chat holds several messages whose buttons all stay alive: a button      *)
(* press edits its message, a typed text is answered with a new one.       *)
(* Updates are handled concurrently; a handler that waits for the backend  *)
(* is a job which reads the data before and writes it after.  Between two  *)
(* waits a handler is one step.                                            *)
(***************************************************************************)
EXTENDS Integers

CONSTANTS Tariffs, Durations,
          TariffOf,   \* duration -> its tariff
          Price,      \* duration -> kopecks
          Extendable, \* durations of the tariff of the user's subscription
          Percents,   \* discounts of the codes the user knows
          Amounts,    \* what the user may top up
          Messages,   \* messages of the chat the user can still reach: a bound
          Jobs        \* handlers that may wait for the backend at once: a bound

DialogueAssumption ==
    /\ TariffOf \in [Durations -> Tariffs] /\ Price \in [Durations -> Nat]
    /\ Extendable \subseteq Durations
    /\ Percents \subseteq 1..100 /\ Amounts \subseteq Nat

VARIABLES st,      \* state of the dialogue: PurchaseStates, ExtendStates, ...
          data,    \* tariff_id, duration_id, promo_percent, amount_kopecks
          chat,    \* message -> the screen it shows
          newest,  \* the last screen that offers to pay, while its method is asked for
          jobs,    \* handlers that wait for the backend
          bill     \* what the last step made the backend charge

vars == <<st, data, chat, newest, jobs, bill>>

None == "none"
Items == Tariffs \cup Durations \cup {None}
States == {None, "promo", "method", "awaiting", "ext_promo", "ext_method",
           "ext_awaiting", "amount", "topup_method", "input"}

Screen(k, item, price) == [k |-> k, item |-> item, price |-> price]
Blank == Screen("blank", None, 0)
Menu  == Screen("menu", None, 0)

Empty  == [tariff |-> None, dur |-> None, pct |-> 0, amount |-> 0]
Idle   == [h |-> "idle", m |-> None, seen |-> Blank, last |-> FALSE, data |-> Empty]
NoBill == [seen |-> Blank, last |-> FALSE, item |-> None, price |-> 0]

\* The buttons of a screen, by the name of their callback.
Buttons ==
    [menu      |-> {"catalog", "profile", "promo"},
     catalog   |-> {"tariff", "main_menu"},
     durations |-> {"duration", "catalog"},
     prompt    |-> {"promo_skip", "duration_back"},
     retry     |-> {"promo_retry", "promo_skip", "duration_back"},
     pay       |-> {"pay", "pay_back"},
     invoice   |-> {"pay_cancel"},
     done      |-> {"main_menu"},
     profile   |-> {"sub", "catalog", "topup", "main_menu"},
     sub       |-> {"extend", "profile"},
     extlist   |-> {"ext_duration", "sub"},
     extprompt |-> {"ext_promo_skip", "extend"},
     extpay    |-> {"ext_pay", "ext_promo_skip"},
     amount    |-> {"profile"},
     topup     |-> {"topup_pay", "profile"},
     blank     |-> {}]

Has(m, b) == b \in Buttons[chat[m].k]

\* apply_discount and compute_discounted_price: rounded down, alike.
Discounted(p, pct) == (p * (100 - pct)) \div 100

Init ==
    /\ st = None /\ data = Empty
    /\ chat = [m \in Messages |-> Blank]
    /\ newest = Blank
    /\ jobs = [j \in Jobs |-> Idle]
    /\ bill = NoBill

-----------------------------------------------------------------------------
\* safe_edit_or_answer, safe_edit_or_send_media: the message is edited.  What a
\* screen offers counts until the dialogue leaves its state.
Show(m, s) ==
    /\ chat' = [chat EXCEPT ![m] = s]
    /\ newest' = IF s.k \in {"pay", "topup"} THEN s ELSE IF st' = st THEN newest ELSE Blank

\* A new message; the user loses sight of some other one.
Answer(s) == \E m \in Messages : Show(m, s)

Put(to, d) == st' = to /\ data' = d
Clear      == Put(None, Empty)
Stay       == UNCHANGED <<st, data>>

\* A handler starts to wait; it remembers the message pressed and what it read.  The
\* screen that was pressed to pay, and whether it was the newest, is history.
Begin(j, h, m, d) ==
    /\ jobs[j] = Idle
    /\ jobs' = [jobs EXCEPT ![j] =
                  [h |-> h, m |-> m, data |-> d,
                   seen |-> IF h \in {"pay", "ext_pay", "topup_pay"} THEN chat[m] ELSE Blank,
                   last |-> h \in {"pay", "topup_pay"} /\ chat[m] = newest]]
    /\ UNCHANGED <<st, data, chat, newest>> /\ bill' = NoBill

Runs(j, h) == jobs[j].h = h
End(j)     == jobs' = [jobs EXCEPT ![j] = Idle]
Silent     == bill' = NoBill
Instant    == UNCHANGED jobs /\ Silent

-----------------------------------------------------------------------------
\* /start and the screens that leave the dialogue alone.
Look(m, k) ==
    /\ k = "sub" => Has(m, "sub")
    /\ Stay /\ Show(m, Screen(k, None, 0)) /\ Instant

\* The backend cannot be reached: an answer without buttons.
Catalog == Screen("catalog", None, 0)
OpenCatalog(m) ==
    /\ Has(m, "catalog") \/ Has(m, "pay_cancel")
    /\ Clear /\ Instant
    /\ \E s \in {Catalog, Blank} : Show(m, s)

OpenProfile(m) ==
    /\ Has(m, "profile")
    /\ Clear /\ Instant
    /\ \E s \in {Screen("profile", None, 0), Blank} : Show(m, s)

PickTariff(m, t) ==
    /\ Has(m, "tariff")
    /\ Put(st, [data EXCEPT !.tariff = t]) /\ Instant
    /\ Show(m, Screen("durations", t, 0))

PickDuration(m, d) ==
    /\ Has(m, "duration") /\ chat[m].item = TariffOf[d]
    /\ Put("promo", [data EXCEPT !.tariff = TariffOf[d], !.dur = d]) /\ Instant
    /\ Show(m, Screen("prompt", None, 0))

\* cb_duration_back, cb_pay_back: the tariff stays, and so does all the rest.
Back(m) ==
    /\ Has(m, "duration_back") \/ Has(m, "pay_back")
    /\ IF data.tariff = None
       THEN Clear /\ Show(m, Catalog)
       ELSE Put(None, data) /\ Show(m, Screen("durations", data.tariff, 0))
    /\ Instant

Retry(m) ==
    /\ Has(m, "promo_retry") /\ st = "promo"
    /\ Stay /\ Show(m, Screen("prompt", None, 0)) /\ Instant

-----------------------------------------------------------------------------
\* cb_promo_skip reads what is bought, fetches tariffs and balance, ...
SkipBegin(j, m) ==
    /\ Has(m, "promo_skip") /\ st = "promo"
    /\ Begin(j, "skip", m, data)

\* Mutant: what was read is not written back with the price.
SkipLoose(j) ==
    /\ Runs(j, "skip")
    /\ LET d == jobs[j].data IN
       \/ /\ Put("method", [data EXCEPT !.amount = Price[d.dur]])
          /\ Show(jobs[j].m, Screen("pay", d.dur, Price[d.dur]))
       \/ Stay /\ Show(jobs[j].m, Blank)
    /\ End(j) /\ Silent

\* ... and writes it back with the price; a code typed before is not forgotten.
Skip(j) ==
    /\ Runs(j, "skip")
    /\ LET d == jobs[j].data IN
       \/ /\ Put("method", [data EXCEPT !.tariff = d.tariff, !.dur = d.dur,
                                        !.amount = Price[d.dur]])
          /\ Show(jobs[j].m, Screen("pay", d.dur, Price[d.dur]))
       \/ Stay /\ Show(jobs[j].m, Blank)
    /\ End(j) /\ Silent

\* msg_promo_input sends the code.
CodeBegin(j, m) == st = "promo" /\ Begin(j, "code", m, Empty)

\* It is refused or unknown, it credits the balance, or it is a discount and
\* what is bought is read now; tariffs and balance are fetched.
CodeAnswered(j, pct) ==
    /\ Runs(j, "code") /\ Silent
    /\ \/ Stay /\ Answer(Screen("retry", None, 0)) /\ End(j)
       \/ Clear /\ Answer(Screen("done", None, 0)) /\ End(j)
       \/ Stay /\ Answer(Blank) /\ End(j)
       \/ /\ data.tariff # None /\ data.dur # None
          /\ jobs' = [jobs EXCEPT ![j].h = "priced", ![j].data = [data EXCEPT !.pct = pct]]
          /\ UNCHANGED <<st, data, chat, newest>>

\* The discount is written with all that was read, and shown.
Priced(j) ==
    /\ Runs(j, "priced")
    /\ LET d == jobs[j].data IN
       \/ /\ Put("method", [data EXCEPT !.tariff = d.tariff, !.dur = d.dur, !.pct = d.pct,
                                        !.amount = Price[d.dur]])
          /\ Answer(Screen("pay", d.dur, Discounted(Price[d.dur], d.pct)))
       \/ Stay /\ Answer(Blank)
    /\ End(j) /\ Silent

\* cb_pay reads the data at once; its button says nothing of what is bought.
PayBegin(j, m) ==
    /\ Has(m, "pay") /\ st = "method"
    /\ Begin(j, "pay", m, data)

\* The backend charges its own price less the code's percent.
Charge(j, item, price) ==
    bill' = [seen |-> jobs[j].seen, last |-> jobs[j].last, item |-> item, price |-> price]

Paid(d) == Discounted(Price[d.dur], d.pct)

\* From the balance: the key at once and the dialogue ends; at a gateway: the
\* invoice.  Or it is charged and the answer is lost.  A refusal charges nothing.
Pay(j) ==
    /\ Runs(j, "pay")
    /\ LET d == jobs[j].data IN
       \/ /\ TariffOf[d.dur] = d.tariff /\ Charge(j, d.dur, Paid(d))
          /\ \/ Clear /\ Show(jobs[j].m, Screen("done", None, 0))
             \/ Put("awaiting", data) /\ Show(jobs[j].m, Screen("invoice", None, Paid(d)))
             \/ Stay /\ Show(jobs[j].m, Blank)
       \/ Silent /\ Stay /\ \E s \in {Catalog, Blank} : Show(jobs[j].m, s)
    /\ End(j)

-----------------------------------------------------------------------------
\* cb_extend asks for the subscription; then everything else is forgotten.
ExtendBegin(j, m) == Has(m, "extend") /\ Begin(j, "extend", m, Empty)

Extend(j) ==
    /\ Runs(j, "extend")
    /\ \/ Clear /\ Show(jobs[j].m, Screen("extlist", None, 0))
       \/ Stay /\ Show(jobs[j].m, Blank)
    /\ End(j) /\ Silent

ExtDuration(m, d) ==
    /\ Has(m, "ext_duration") /\ d \in Extendable
    /\ Put("ext_promo", [data EXCEPT !.dur = d]) /\ Instant
    /\ Show(m, Screen("extprompt", d, 0))

\* cb_ext_promo_skip: its button says which duration; a code is forgotten.
ExtSkipBegin(j, m) ==
    /\ Has(m, "ext_promo_skip")
    /\ Begin(j, "ext_skip", m, [Empty EXCEPT !.dur = chat[m].item])

ExtSkip(j) ==
    /\ Runs(j, "ext_skip")
    /\ LET d == jobs[j].data.dur IN
       \/ /\ Put("ext_method", [data EXCEPT !.dur = d, !.pct = 0])
          /\ Show(jobs[j].m, Screen("extpay", d, Price[d]))
       \/ Stay /\ Show(jobs[j].m, Blank)
    /\ End(j) /\ Silent

\* msg_ext_promo_input reads the duration and sends the code.
ExtCodeBegin(j, m) == st = "ext_promo" /\ Begin(j, "ext_code", m, data)

\* A refusal brings the buttons of the purchase.  The percent is written before
\* the price is fetched.
ExtCodeAnswered(j, pct) ==
    /\ Runs(j, "ext_code") /\ Silent
    /\ \/ Stay /\ Answer(Screen("retry", None, 0)) /\ End(j)
       \/ Clear /\ Answer(Screen("done", None, 0)) /\ End(j)
       \/ Stay /\ Answer(Blank) /\ End(j)
       \/ /\ Put("ext_method", [data EXCEPT !.pct = pct])
          /\ jobs' = [jobs EXCEPT ![j].h = "ext_priced", ![j].data.pct = pct]
          /\ newest' = IF st' = st THEN newest ELSE Blank
          /\ UNCHANGED chat

ExtPriced(j) ==
    /\ Runs(j, "ext_priced")
    /\ Stay /\ End(j) /\ Silent
    /\ LET d == jobs[j].data IN
       \E s \in {Screen("extpay", d.dur, Discounted(Price[d.dur], d.pct)), Blank} : Answer(s)

ExtPayBegin(j, m) ==
    /\ Has(m, "ext_pay") /\ st = "ext_method"
    /\ Begin(j, "ext_pay", m, [Empty EXCEPT !.dur = chat[m].item])

\* start_extension sends promo_id, which the backend's schema does not know: the
\* full price.  A refusal ends the dialogue.
ExtPay(j) ==
    /\ Runs(j, "ext_pay")
    /\ LET d == jobs[j].data.dur IN
       \/ /\ Charge(j, d, Price[d])
          /\ \/ Clear /\ Show(jobs[j].m, Screen("done", None, 0))
             \/ Put("ext_awaiting", data) /\ Show(jobs[j].m, Screen("invoice", None, Price[d]))
             \/ Stay /\ Show(jobs[j].m, Blank)
       \/ Silent /\ Clear /\ Show(jobs[j].m, Screen("sub", None, 0))
       \/ Silent /\ Stay /\ Show(jobs[j].m, Blank)
    /\ End(j)

-----------------------------------------------------------------------------
Topup(m) ==
    /\ Has(m, "topup")
    /\ Put("amount", Empty) /\ Instant
    /\ Show(m, Screen("amount", None, 0))

\* msg_topup_amount; what is not an amount is asked for again.
TypeAmount(a) ==
    /\ st = "amount"
    /\ \/ Put("topup_method", [data EXCEPT !.amount = a]) /\ Answer(Screen("topup", None, a))
       \/ Stay /\ Answer(Screen("amount", None, 0))
    /\ Instant

TopupPayBegin(j, m) ==
    /\ Has(m, "topup_pay") /\ st = "topup_method"
    /\ Begin(j, "topup_pay", m, data)

TopupPay(j) ==
    /\ Runs(j, "topup_pay")
    /\ LET a == jobs[j].data.amount IN
       \/ /\ Charge(j, None, a)
          /\ \/ Clear /\ Show(jobs[j].m, Screen("invoice", None, a))
             \/ Stay /\ Show(jobs[j].m, Blank)
       \/ Silent /\ Stay /\ Show(jobs[j].m, Blank)
    /\ End(j)

OpenPromo(m) ==
    /\ Has(m, "promo")
    /\ Put("input", Empty) /\ Instant
    /\ Show(m, Screen("done", None, 0))

\* msg_promo_apply: whatever the code is, the dialogue is over.
SoloBegin(j, m) == st = "input" /\ Begin(j, "solo", m, Empty)

Solo(j) ==
    /\ Runs(j, "solo")
    /\ \/ Clear /\ Answer(Screen("done", None, 0))
       \/ Stay /\ Answer(Blank)
    /\ End(j) /\ Silent

Next ==
    \/ \E m \in Messages :
        \/ \E k \in {"menu", "sub"} : Look(m, k)
        \/ OpenCatalog(m) \/ OpenProfile(m) \/ Back(m) \/ Retry(m) \/ Topup(m) \/ OpenPromo(m)
        \/ \E t \in Tariffs : PickTariff(m, t)
        \/ \E d \in Durations : PickDuration(m, d) \/ ExtDuration(m, d)
    \/ \E a \in Amounts : TypeAmount(a)
    \/ \E j \in Jobs, m \in Messages :
        \/ SkipBegin(j, m) \/ CodeBegin(j, m) \/ PayBegin(j, m) \/ ExtendBegin(j, m)
        \/ ExtSkipBegin(j, m) \/ ExtCodeBegin(j, m) \/ ExtPayBegin(j, m)
        \/ TopupPayBegin(j, m) \/ SoloBegin(j, m)
    \/ \E j \in Jobs :
        \/ Skip(j) \/ Priced(j) \/ Pay(j) \/ Extend(j) \/ ExtSkip(j) \/ ExtPriced(j)
        \/ ExtPay(j) \/ TopupPay(j) \/ Solo(j)
        \/ \E pct \in Percents : CodeAnswered(j, pct) \/ ExtCodeAnswered(j, pct)

Spec == Init /\ [][Next]_vars

-----------------------------------------------------------------------------
DataType == [tariff : Tariffs \cup {None}, dur : Durations \cup {None},
             pct : Percents \cup {0}, amount : Nat]
ScreenType == [k : DOMAIN Buttons, item : Items, price : Nat]

\* Types of the dialogue, the chat and the handlers.
TypeOK ==
    /\ st \in States /\ data \in DataType
    /\ chat \in [Messages -> ScreenType]
    /\ newest \in ScreenType
    /\ \A j \in Jobs : jobs[j].seen \in ScreenType /\ jobs[j].data \in DataType
    /\ \A j \in Jobs : jobs[j].last \in BOOLEAN
    /\ bill \in [seen : ScreenType, last : BOOLEAN, item : Items, price : Nat]

\* While a payment method is asked for, the dialogue holds what the newest screen
\* shows, and paying costs no more than it says; what is topped up is what it asks for.
NewestIsHeld ==
    /\ st = "method" => data.dur = newest.item /\ Paid(data) <= newest.price
    /\ st = "topup_method" => data.amount = newest.price

\* Whoever paid on the newest screen is charged for what it names, at its price or less.
NewestIsCharged == bill.last => bill.item = bill.seen.item /\ bill.price <= bill.seen.price

\* The newest payment screen keeps its word, before and after its button is pressed,
\* whichever handlers waited while the user went on in older messages, and although
\* purchases and top-ups keep their price under one name.
NewestScreenPays == NewestIsHeld /\ NewestIsCharged

\* "so the bot UI matches what's actually charged": the price on the message
\* whose button is pressed is the price charged.
ShownIsCharged == bill # NoBill => bill.price = bill.seen.price
=============================================================================
