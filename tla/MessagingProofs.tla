--------------------------- MODULE MessagingProofs ---------------------------
(***************************************************************************)
(* Proofs about support tickets, for every number of users, admins,        *)
(* handlers, tickets and topics; and what module BroadcastProofs shows,    *)
(* for tickets and a broadcast side by side.                               *)
(*                                                                         *)
(* What a handler read stays true of what it is going to use: the user of  *)
(* a ticket and the owner of a thread are set once.  So an old snapshot    *)
(* may be out of date about open and closed, but not about whose it is.    *)
(***************************************************************************)
EXTENDS Messaging, TLAPS

JobType   == [h : Handlers, user : Person, admin : Admins \cup {None}, id : Ids \cup {0},
              thread : Thread, why : {"none", "create", "mirror"}]
EventType == [kind : {"none", "mirror", "renewed", "lost", "closed", "reply", "ban", "unban"},
              user : Person, thread : Thread]

\* Handlers that carry a ticket of their user, and a thread of their user.
WithTicket == {"enter", "created", "ensure", "save", "attach", "post", "again", "close"}
InThread   == {"save", "attach", "post", "again", "reply", "ask", "ban", "unban"}

\* What a handler r knows of the tickets tk and of the owners ow of the threads.
Fits(r, tk, ow) ==
    /\ r.h \notin {"idle", "aclose"} => r.user \in Users
    /\ r.h \in WithTicket => r.id \in Ids /\ tk[r.id].user = r.user
    /\ r.h \in InThread /\ r.thread # 0 => ow[r.thread] = r.user
    /\ r.h \in {"save", "attach"} => r.thread # 0
    /\ r.h = "ask" => r.admin \in Admins
    /\ r.h = "aclose" => /\ r.id \in Ids /\ tk[r.id].user \in Users
                         /\ r.user # None => r.user = tk[r.id].user
                         /\ r.thread # 0 => ow[r.thread] = tk[r.id].user

JobsFit == \A j \in Jobs : Fits(job[j], ticket, owner)

\* Whom the admins are about to ban.
WizardFits(w, ow) ==
    \A a \in Admins : w[a] # NoWizard =>
        /\ w[a].user \in Users
        /\ w[a].thread # 0 => ow[w[a].thread] = w[a].user

\* Rows, buttons and dialogues are about the user they are kept for.
RowsFit ==
    /\ \A i \in Ids : ticket[i].user = None => ticket[i] = NoTicket
    /\ \A u \in Users : topic[u] # 0 => owner[topic[u]] = u
    /\ \A b \in board : b.thread # 0 => owner[b.thread] = ticket[b.id].user
    /\ \A u \in Users : fsm[u].id # 0 => ticket[fsm[u].id].user = u
    /\ WizardFits(wizard, owner)

\* A topic is saved, or about to be, or known to be one of two.
Saved ==
    \A t \in Topics : owner[t] # None =>
        \/ topic[owner[t]] = t \/ owner[t] \in doubled
        \/ \E j \in Jobs : job[j].h = "save" /\ job[j].user = owner[t] /\ job[j].thread = t

IInv ==
    /\ TypeOK /\ RowsFit /\ JobsFit /\ OneOpenTicket /\ TopicsArePrivate
    /\ DialogueFollowsTicket /\ OneTopic /\ Saved

USE DEF Person, Thread, JobType, EventType

-----------------------------------------------------------------------------
LEMMA Numbers == 0 \notin Ids /\ 0 \notin Topics /\ Ids \subseteq Nat /\ Topics \subseteq Nat
BY TicketAssumption DEF Ids, Topics

LEMMA InitInv == Init => IInv
<1> SUFFICES ASSUME Init PROVE IInv OBVIOUS
<1> USE TicketAssumption, Numbers DEF Init, NoTicket, Out, NoWizard, Idle, Quiet
<1>1. TypeOK BY DEF TypeOK, Handlers
<1>2. RowsFit BY DEF RowsFit, WizardFits
<1>3. JobsFit BY DEF JobsFit, Fits, WithTicket, InThread
<1>4. OneOpenTicket /\ TopicsArePrivate /\ DialogueFollowsTicket
  BY DEF OneOpenTicket, TopicsArePrivate, DialogueFollowsTicket
<1>5. OneTopic /\ Saved BY DEF OneTopic, Saved
<1> QED BY <1>1, <1>2, <1>3, <1>4, <1>5 DEF IInv

\* A handler that was just begun.
LEMMA ForType ==
  ASSUME NEW u \in Person, NEW h \in Handlers, NEW i \in Ids \cup {0}
  PROVE  /\ For(u, h, i) \in JobType
         /\ For(u, h, i).h = h /\ For(u, h, i).user = u /\ For(u, h, i).id = i
         /\ For(u, h, i).thread = 0 /\ For(u, h, i).admin = None
BY DEF For, Idle

\* What a handler knows stays so while users and owners are only set once.
LEMMA FitsStays ==
  ASSUME NEW r, Fits(r, ticket, owner), r \in JobType, TypeOK, TypeOK',
         \A i \in Ids : ticket[i].user \in Users => ticket'[i].user = ticket[i].user,
         \A t \in Topics : owner[t] \in Users => owner'[t] = owner[t]
  PROVE  Fits(r, ticket', owner')
BY TicketAssumption, Numbers DEF Fits, WithTicket, InThread, TypeOK

\* A handler that writes nothing but the bans and what the admins' dialogues hold.
LEMMA JobStep ==
  ASSUME IInv, NEW j \in Jobs, NEW r \in JobType, Fits(r, ticket, owner),
         job' = [job EXCEPT ![j] = r], job[j].h \notin {"clear", "reset", "save"},
         UNCHANGED <<ticket, topic, group, fsm, missed, doubled>>,
         wizard' \in [Admins -> [user : Person, thread : Thread]], WizardFits(wizard', owner),
         banned' \subseteq Users, event' \in EventType, TopicsArePrivate'
  PROVE  IInv'
<1> USE DEF group
<1>1. TypeOK' BY DEF IInv, TypeOK
<1>2. RowsFit' BY DEF IInv, RowsFit
<1>3. JobsFit'
  BY DEF IInv, TypeOK, JobsFit
<1>4. OneOpenTicket' /\ OneTopic' BY DEF IInv, OneOpenTicket, OneTopic
<1>5. DialogueFollowsTicket'
  <2>1. \A k \in Jobs : job[k].h \in {"clear", "reset"} => job'[k] = job[k]
    BY DEF IInv, TypeOK
  <2> QED BY <2>1 DEF IInv, DialogueFollowsTicket
<1>6. Saved'
  <2>1. \A k \in Jobs : job[k].h = "save" => job'[k] = job[k]
    BY DEF IInv, TypeOK
  <2> QED BY <2>1 DEF IInv, Saved
<1> QED BY <1>1, <1>2, <1>3, <1>4, <1>5, <1>6 DEF IInv

\* A handler starts.
LEMMA BeginStep ==
  ASSUME IInv, NEW j \in Jobs, NEW r \in JobType, Begin(j, r), Fits(r, ticket, owner),
         wizard' \in [Admins -> [user : Person, thread : Thread]], WizardFits(wizard', owner)
  PROVE  IInv'
<1>1. job[j].h \notin {"clear", "reset", "save"} BY DEF Begin, Idle
<1>2. event' \in EventType /\ TopicsArePrivate'
  BY DEF Begin, Silent, Quiet, TopicsArePrivate
<1>3. /\ job' = [job EXCEPT ![j] = r] /\ banned' \subseteq Users
      /\ UNCHANGED <<ticket, topic, group, fsm, missed, doubled>>
  BY DEF Begin, Put, rows, IInv, TypeOK
<1> HIDE DEF JobType, EventType
<1> QED BY <1>1, <1>2, <1>3, JobStep

\* A handler sets the dialogue of its user, or somebody else resets it.
LEMMA FsmStep ==
  ASSUME IInv, NEW u \in Users, NEW d \in [st : {"none", "in", "confirm"}, id : Ids \cup {0}],
         fsm' = [fsm EXCEPT ![u] = d],
         d.id # 0 => ticket[d.id].user = u,
         missed' \subseteq Users, missed' \ {u} = missed \ {u},
         d.st # "none" => u \in missed' \/ (d.id # 0 /\ ticket[d.id].open),
         job' \in [Jobs -> JobType], JobsFit',
         \A k \in Jobs : job[k].h = "save" \/ job[k].user # u => job'[k] = job[k],
         UNCHANGED <<rows, group, wizard, doubled>>, Silent
  PROVE  IInv'
<1> USE DEF rows, group
<1>1. TypeOK' BY DEF IInv, TypeOK, Silent, Quiet
<1>2. RowsFit'
  <2>1. \A v \in Users : fsm'[v].id # 0 => ticket'[fsm'[v].id].user = v
    BY DEF IInv, TypeOK, RowsFit
  <2> QED BY <2>1 DEF IInv, RowsFit
<1>3. OneOpenTicket' /\ OneTopic' BY DEF IInv, OneOpenTicket, OneTopic
<1>4. TopicsArePrivate' BY DEF Silent, Quiet, TopicsArePrivate
<1>5. DialogueFollowsTicket'
  <2> SUFFICES ASSUME NEW v \in Users, fsm'[v].st # "none"
               PROVE  \/ fsm'[v].id # 0 /\ ticket'[fsm'[v].id].open
                      \/ v \in missed'
                      \/ \E k \in Jobs : job'[k].h \in {"clear", "reset"} /\ job'[k].user = v
    BY DEF DialogueFollowsTicket
  <2>1. CASE v = u BY <2>1 DEF IInv, TypeOK
  <2>2. CASE v # u
    <3>1. fsm'[v] = fsm[v] /\ (v \in missed => v \in missed')
      BY <2>2 DEF IInv, TypeOK
    <3>2. \A k \in Jobs : job[k].user = v => job'[k] = job[k]
      BY <2>2
    <3> QED BY <3>1, <3>2 DEF IInv, DialogueFollowsTicket
  <2> QED BY <2>1, <2>2
<1>6. Saved'
  <2>1. \A k \in Jobs : job[k].h = "save" => job'[k] = job[k]
    OBVIOUS
  <2> QED BY <2>1 DEF IInv, Saved
<1> QED BY <1>1, <1>2, <1>3, <1>4, <1>5, <1>6 DEF IInv

\* A ticket is closed, and its user's dialogue is to be told, or was not.
LEMMA CloseStep ==
  ASSUME IInv, NEW j \in Jobs, NEW r \in JobType, NEW i \in Ids, NEW u \in Users,
         ticket[i].user = u, ticket' = [ticket EXCEPT ![i].open = FALSE],
         job' = [job EXCEPT ![j] = r], job[j].h \in {"close", "aclose"},
         Fits(r, ticket, owner),
         missed \subseteq missed', missed' \subseteq Users,
         u \in missed' \/ (r.h \in {"clear", "reset"} /\ r.user = u),
         UNCHANGED <<topic, banned, group, fsm, wizard, doubled>>,
         event' \in EventType, TopicsArePrivate'
  PROVE  IInv'
<1> USE DEF group
<1>1. \A k \in Ids : /\ ticket'[k].user = ticket[k].user /\ ticket'[k].thread = ticket[k].thread
                     /\ ticket'[k].open => ticket[k].open
                     /\ k # i => ticket'[k] = ticket[k]
  BY DEF IInv, TypeOK
<1>2. TypeOK'
  <2>1. ticket[i] \in [user : Person, open : BOOLEAN, thread : Thread]
    BY DEF IInv, TypeOK
  <2>2. [ticket[i] EXCEPT !.open = FALSE] \in [user : Person, open : BOOLEAN, thread : Thread]
    BY <2>1
  <2>3. ticket' \in [Ids -> [user : Person, open : BOOLEAN, thread : Thread]]
    BY <2>2 DEF IInv, TypeOK
  <2> QED BY <1>1, <2>3 DEF IInv, TypeOK
<1>3. RowsFit'
  <2>1. \A k \in Ids : ticket'[k].user = None => ticket'[k] = NoTicket
    BY <1>1, TicketAssumption DEF IInv, RowsFit
  <2>2. \A b \in board : ticket'[b.id].user = ticket[b.id].user
    BY <1>1 DEF IInv, TypeOK
  <2>3. \A v \in Users : fsm[v].id # 0 => ticket'[fsm[v].id].user = ticket[fsm[v].id].user
    BY <1>1 DEF IInv, TypeOK
  <2> QED BY <2>1, <2>2, <2>3 DEF IInv, RowsFit
<1>4. JobsFit'
  <2>1. \A k \in Jobs : job'[k] \in JobType /\ Fits(job'[k], ticket, owner)
    BY DEF IInv, TypeOK, JobsFit
  <2> HIDE DEF JobType, EventType
  <2> QED BY <1>1, <1>2, <2>1, FitsStays DEF JobsFit, IInv
<1>5. OneOpenTicket' /\ OneTopic' BY <1>1 DEF IInv, OneOpenTicket, OneTopic
<1>6. DialogueFollowsTicket'
  <2> SUFFICES ASSUME NEW v \in Users, fsm[v].st # "none", v \notin missed'
               PROVE  \/ fsm[v].id # 0 /\ ticket'[fsm[v].id].open
                      \/ \E k \in Jobs : job'[k].h \in {"clear", "reset"} /\ job'[k].user = v
    BY DEF DialogueFollowsTicket
  <2>1. CASE v = u
    <3>1. job'[j] = r BY DEF IInv, TypeOK
    <3> QED BY <2>1, <3>1
  <2>2. CASE v # u
    <3>1. fsm[v].id # 0 => fsm[v].id \in Ids /\ fsm[v].id # i
      BY <2>2 DEF IInv, TypeOK, RowsFit
    <3>2. \A k \in Jobs : job[k].h \in {"clear", "reset"} => job'[k] = job[k]
      BY DEF IInv, TypeOK
    <3> QED BY <1>1, <3>1, <3>2 DEF IInv, DialogueFollowsTicket
  <2> QED BY <2>1, <2>2
<1>7. Saved'
  <2>1. \A k \in Jobs : job[k].h = "save" => job'[k] = job[k]
    BY DEF IInv, TypeOK
  <2> QED BY <2>1 DEF IInv, Saved
<1> QED BY <1>2, <1>3, <1>4, <1>5, <1>6, <1>7 DEF IInv

\* A ticket is opened for a user who has none, under an id nobody has used.
LEMMA InsertStep ==
  ASSUME IInv, NEW j \in Jobs, NEW i \in Ids, NEW u \in Users,
         NEW r \in {For(u, "created", i), Idle},
         OpenOf(u) = {}, NewId(i), job[j].h = "insert",
         ticket' = [ticket EXCEPT ![i] = [NoTicket EXCEPT !.user = u, !.open = TRUE]],
         job' = [job EXCEPT ![j] = r],
         UNCHANGED <<topic, banned, group, fsm, wizard, missed, doubled>>, Silent
  PROVE  IInv'
<1> USE DEF group
<1>1. /\ ticket[i].user = None /\ ticket[i] = NoTicket /\ u # None
      /\ ticket'[i].user = u /\ ticket'[i].thread = 0 /\ ticket'[i].open
      /\ \A k \in Ids : k # i => ticket'[k] = ticket[k]
  BY TicketAssumption DEF IInv, TypeOK, NewId, RowsFit, NoTicket
<1>2. r \in JobType /\ r.h \in {"created", "idle"} /\ (r.h = "created" => r.user = u /\ r.id = i)
  <2>1. Idle \in JobType /\ Idle.h = "idle"
    BY DEF Idle, Handlers
  <2>2. For(u, "created", i) \in JobType
    BY ForType DEF Handlers
  <2>3. /\ For(u, "created", i).h = "created" /\ For(u, "created", i).user = u
        /\ For(u, "created", i).id = i
    BY ForType DEF Handlers
  <2> HIDE DEF JobType
  <2>4. CASE r = Idle BY <2>1, <2>4
  <2>5. CASE r = For(u, "created", i) BY <2>2, <2>3, <2>5
  <2> QED BY <2>4, <2>5
<1>3. TypeOK'
  <2>1. ticket' \in [Ids -> [user : Person, open : BOOLEAN, thread : Thread]]
    BY DEF IInv, TypeOK, NoTicket
  <2>2. \A b \in board : ticket'[b.id].user # None
    BY <1>1 DEF IInv, TypeOK
  <2>3. \A k \in Ids : ticket'[k].thread # 0 => owner[ticket'[k].thread] = ticket'[k].user
    BY <1>1 DEF IInv, TypeOK
  <2>4. job' \in [Jobs -> JobType] /\ event' \in EventType
    BY <1>2 DEF IInv, TypeOK, Silent, Quiet
  <2> QED BY <2>1, <2>2, <2>3, <2>4 DEF IInv, TypeOK
<1>4. RowsFit'
  <2>1. \A k \in Ids : ticket'[k].user = None => ticket'[k] = NoTicket
    BY <1>1 DEF IInv, RowsFit
  <2>2. \A b \in board : b.id # i /\ ticket'[b.id] = ticket[b.id]
    BY <1>1 DEF IInv, TypeOK
  <2>3. \A v \in Users : fsm[v].id # 0 => fsm[v].id # i /\ ticket'[fsm[v].id] = ticket[fsm[v].id]
    BY <1>1, TicketAssumption DEF IInv, TypeOK, RowsFit
  <2> QED BY <2>1, <2>2, <2>3 DEF IInv, RowsFit
<1>5. JobsFit'
  <2>1. \A k \in Jobs : Fits(job[k], ticket', owner')
    <3> SUFFICES ASSUME NEW k \in Jobs PROVE Fits(job[k], ticket', owner')
      OBVIOUS
    <3>1. job[k] \in JobType /\ Fits(job[k], ticket, owner)
      BY DEF IInv, TypeOK, JobsFit
    <3>2. \A m \in Ids : ticket[m].user \in Users => ticket'[m].user = ticket[m].user
      BY <1>1, TicketAssumption
    <3> HIDE DEF JobType, EventType
    <3> QED BY <1>3, <3>1, <3>2, FitsStays DEF IInv
  <2>2. Fits(r, ticket', owner')
    BY <1>1, <1>2 DEF Fits, WithTicket, InThread
  <2>3. \A k \in Jobs : job'[k] = job[k] \/ job'[k] = r
    BY DEF IInv, TypeOK
  <2> QED BY <2>1, <2>2, <2>3 DEF JobsFit
<1>6. OneOpenTicket' BY <1>1 DEF IInv, OneOpenTicket, OpenOf
<1>7. OneTopic' BY DEF IInv, OneTopic
<1>8. TopicsArePrivate' BY DEF Silent, Quiet, TopicsArePrivate
<1>9. DialogueFollowsTicket'
  <2>1. \A k \in Jobs : job[k].h \in {"clear", "reset"} => job'[k] = job[k]
    BY DEF IInv, TypeOK
  <2>2. \A v \in Users : fsm[v].id # 0 /\ ticket[fsm[v].id].open => ticket'[fsm[v].id].open
    BY <1>1 DEF IInv, TypeOK
  <2> QED BY <2>1, <2>2 DEF IInv, DialogueFollowsTicket
<1>10. Saved'
  <2>1. \A k \in Jobs : job[k].h = "save" => job'[k] = job[k]
    BY DEF IInv, TypeOK
  <2> QED BY <2>1 DEF IInv, Saved
<1> QED BY <1>3, <1>4, <1>5, <1>6, <1>7, <1>8, <1>9, <1>10 DEF IInv

\* A ticket is bound to the thread of its user.
LEMMA AttachStep ==
  ASSUME IInv, NEW j \in Jobs, NEW r \in JobType, job[j].h = "attach",
         Fits(r, ticket, owner), job' = [job EXCEPT ![j] = r],
         ticket' = [ticket EXCEPT ![job[j].id].thread = job[j].thread],
         UNCHANGED <<topic, banned, group, fsm, wizard, missed, doubled>>, Silent
  PROVE  IInv'
<1> USE DEF group
<1>1. /\ job[j].id \in Ids /\ job[j].user \in Users /\ ticket[job[j].id].user = job[j].user
      /\ job[j].thread \in Topics /\ owner[job[j].thread] = job[j].user
  BY DEF IInv, TypeOK, JobsFit, Fits, WithTicket, InThread
<1>2. \A k \in Ids : /\ ticket'[k].user = ticket[k].user /\ ticket'[k].open = ticket[k].open
                     /\ k # job[j].id => ticket'[k] = ticket[k]
                     /\ k = job[j].id => ticket'[k].thread = job[j].thread
  BY <1>1 DEF IInv, TypeOK
<1>3. TypeOK'
  <2>1. ticket' \in [Ids -> [user : Person, open : BOOLEAN, thread : Thread]]
    BY <1>1 DEF IInv, TypeOK
  <2>2. \A k \in Ids : ticket'[k].thread # 0 => owner[ticket'[k].thread] = ticket'[k].user
    BY <1>1, <1>2 DEF IInv, TypeOK
  <2>3. job' \in [Jobs -> JobType] /\ event' \in EventType
    BY DEF IInv, TypeOK, Silent, Quiet
  <2> QED BY <1>2, <2>1, <2>2, <2>3 DEF IInv, TypeOK
<1>4. RowsFit'
  <2>1. \A k \in Ids : ticket'[k].user = None => ticket'[k] = NoTicket
    BY <1>1, <1>2, TicketAssumption DEF IInv, RowsFit
  <2>2. \A b \in board : ticket'[b.id].user = ticket[b.id].user
    BY <1>2 DEF IInv, TypeOK
  <2>3. \A v \in Users : fsm[v].id # 0 => ticket'[fsm[v].id].user = ticket[fsm[v].id].user
    BY <1>2 DEF IInv, TypeOK
  <2> QED BY <2>1, <2>2, <2>3 DEF IInv, RowsFit
<1>5. JobsFit'
  <2>1. \A k \in Jobs : job'[k] \in JobType /\ Fits(job'[k], ticket, owner)
    BY DEF IInv, TypeOK, JobsFit
  <2> HIDE DEF JobType, EventType
  <2> QED BY <1>2, <1>3, <2>1, FitsStays DEF JobsFit, IInv
<1>6. OneOpenTicket' /\ OneTopic' BY <1>2 DEF IInv, OneOpenTicket, OneTopic
<1>7. TopicsArePrivate' BY DEF Silent, Quiet, TopicsArePrivate
<1>8. DialogueFollowsTicket'
  <2>1. \A k \in Jobs : job[k].h \in {"clear", "reset"} => job'[k] = job[k]
    BY DEF IInv, TypeOK
  <2>2. \A v \in Users : fsm[v].id # 0 => ticket'[fsm[v].id].open = ticket[fsm[v].id].open
    BY <1>2 DEF IInv, TypeOK
  <2> QED BY <2>1, <2>2 DEF IInv, DialogueFollowsTicket
<1>9. Saved'
  <2>1. \A k \in Jobs : job[k].h = "save" => job'[k] = job[k]
    BY DEF IInv, TypeOK
  <2> QED BY <2>1 DEF IInv, Saved
<1> QED BY <1>3, <1>4, <1>5, <1>6, <1>7, <1>8, <1>9 DEF IInv

\* What is left for a step that writes neither tickets nor dialogues.
LEMMA TopicStep ==
  ASSUME IInv, NEW j \in Jobs, NEW r \in JobType, Fits(r, ticket, owner'),
         job' = [job EXCEPT ![j] = r], job[j].h \in {"ensure", "save"},
         \A t \in Topics : owner[t] \in Users => owner'[t] = owner[t],
         owner' \in [Topics -> Person], topic' \in [Users -> Thread],
         \A u \in Users : topic'[u] # 0 => owner'[topic'[u]] = u,
         doubled' \subseteq Users, event' \in EventType, TopicsArePrivate',
         UNCHANGED <<ticket, banned, gone, board, fsm, wizard, missed>>
  PROVE  /\ TypeOK' /\ RowsFit' /\ JobsFit' /\ OneOpenTicket' /\ TopicsArePrivate'
         /\ DialogueFollowsTicket'
<1>1. TypeOK'
  <2>1. \A i \in Ids : ticket[i].thread # 0 => owner'[ticket[i].thread] = ticket[i].user
    BY TicketAssumption DEF IInv, TypeOK, RowsFit, NoTicket
  <2> QED BY <2>1 DEF IInv, TypeOK
<1>2. RowsFit'
  <2>1. \A b \in board : b.thread # 0 => owner'[b.thread] = ticket[b.id].user
    BY DEF IInv, TypeOK, RowsFit
  <2>2. WizardFits(wizard', owner')
    BY DEF IInv, TypeOK, RowsFit, WizardFits
  <2> QED BY <2>1, <2>2 DEF IInv, RowsFit
<1>3. JobsFit'
  <2>1. \A k \in Jobs : Fits(job[k], ticket', owner')
    <3> SUFFICES ASSUME NEW k \in Jobs PROVE Fits(job[k], ticket', owner')
      OBVIOUS
    <3>1. job[k] \in JobType /\ Fits(job[k], ticket, owner)
      BY DEF IInv, TypeOK, JobsFit
    <3> HIDE DEF JobType, EventType
    <3> QED BY <1>1, <3>1, FitsStays DEF IInv
  <2>2. \A k \in Jobs : job'[k] = job[k] \/ job'[k] = r
    BY DEF IInv, TypeOK
  <2> QED BY <2>1, <2>2 DEF JobsFit
<1>4. OneOpenTicket' BY DEF IInv, OneOpenTicket
<1>5. DialogueFollowsTicket'
  <2>1. \A k \in Jobs : job[k].h \in {"clear", "reset"} => job'[k] = job[k]
    BY DEF IInv, TypeOK
  <2> QED BY <2>1 DEF IInv, DialogueFollowsTicket
<1> QED BY <1>1, <1>2, <1>3, <1>4, <1>5

-----------------------------------------------------------------------------
\* Handlers that begin in a thread, with or without an admin, or with a message.
AtThread(u, h, i, t)    == [For(u, h, i) EXCEPT !.thread = t]
AskedAt(u, h, i, t, a)  == [For(u, h, i) EXCEPT !.admin = a, !.thread = t]
Mirrored(u, h, i, t)    == [For(u, h, i) EXCEPT !.thread = t, !.why = "mirror"]

LEMMA AtThreadType ==
  ASSUME NEW u \in Person, NEW h \in Handlers, NEW i \in Ids \cup {0}, NEW t \in Thread
  PROVE  /\ AtThread(u, h, i, t) \in JobType
         /\ AtThread(u, h, i, t).h = h /\ AtThread(u, h, i, t).user = u
         /\ AtThread(u, h, i, t).id = i /\ AtThread(u, h, i, t).thread = t
BY ForType DEF AtThread, For, Idle

LEMMA AskedAtType ==
  ASSUME NEW u \in Person, NEW h \in Handlers, NEW i \in Ids \cup {0}, NEW t \in Thread,
         NEW a \in Admins
  PROVE  /\ AskedAt(u, h, i, t, a) \in JobType
         /\ AskedAt(u, h, i, t, a).h = h /\ AskedAt(u, h, i, t, a).user = u
         /\ AskedAt(u, h, i, t, a).id = i /\ AskedAt(u, h, i, t, a).thread = t
         /\ AskedAt(u, h, i, t, a).admin = a
BY DEF AskedAt, For, Idle

LEMMA MirroredType ==
  ASSUME NEW u \in Person, NEW h \in Handlers, NEW i \in Ids \cup {0}, NEW t \in Thread
  PROVE  /\ Mirrored(u, h, i, t) \in JobType
         /\ Mirrored(u, h, i, t).h = h /\ Mirrored(u, h, i, t).user = u
         /\ Mirrored(u, h, i, t).id = i /\ Mirrored(u, h, i, t).thread = t
BY DEF Mirrored, For, Idle

\* The newest ticket of a topic is the ticket of the topic's owner.
LEMMA NewestFits ==
  ASSUME TypeOK, NEW t \in Topics, NEW i \in Newest(t)
  PROVE  i \in Ids /\ ticket[i].user \in Users /\ owner[t] = ticket[i].user
BY Numbers DEF Newest, TypeOK

\* A handler starts and no ban is begun or ended.
LEMMA StartStep ==
  ASSUME IInv, NEW j \in Jobs, NEW r \in JobType, Begin(j, r), UNCHANGED wizard,
         Fits(r, ticket, owner)
  PROVE  IInv'
<1>1. /\ wizard' \in [Admins -> [user : Person, thread : Thread]]
      /\ WizardFits(wizard', owner)
  BY DEF IInv, TypeOK, RowsFit
<1> HIDE DEF JobType
<1> QED BY <1>1, BeginStep

LEMMA UserStartsInv ==
  ASSUME IInv, NEW j \in Jobs, NEW u \in Users, UserStarts(j, u)
  PROVE  IInv'
<1> USE Numbers DEF FromUser, FromGroup
<1>1. CASE EnterBegin(j, u)
  <2>1. PICK i \in OpenOf(u) : Begin(j, For(u, "enter", i)) /\ UNCHANGED wizard
    BY <1>1 DEF EnterBegin
  <2>2. i \in Ids /\ ticket[i].user = u BY DEF OpenOf
  <2>3. For(u, "enter", i) \in JobType /\ Fits(For(u, "enter", i), ticket, owner)
    BY <2>2, ForType DEF Handlers, Fits, WithTicket, InThread
  <2> QED BY <2>1, <2>3, StartStep
<1>2. CASE CreateBegin(j, u)
  <2>1. For(u, "insert", 0) \in JobType /\ Fits(For(u, "insert", 0), ticket, owner)
    BY ForType DEF Handlers, Fits, WithTicket, InThread
  <2> QED BY <1>2, <2>1, StartStep DEF CreateBegin
<1>3. CASE MessageBegin(j, u)
  <2>1. CASE Begin(j, For(u, "clear", 0)) /\ UNCHANGED wizard
    <3>1. For(u, "clear", 0) \in JobType /\ Fits(For(u, "clear", 0), ticket, owner)
      BY ForType DEF Handlers, Fits, WithTicket, InThread
    <3> QED BY <2>1, <3>1, StartStep
  <2>2. ASSUME NEW i \in OpenOf(u), UNCHANGED wizard,
               Begin(j, Mirrored(u, "post", i, ticket[i].thread))
        PROVE  IInv'
    <3> DEFINE r == Mirrored(u, "post", i, ticket[i].thread)
    <3>1. /\ i \in Ids /\ ticket[i].user = u /\ ticket[i].thread \in Thread
          /\ ticket[i].thread # 0 => owner[ticket[i].thread] = u
      BY DEF OpenOf, IInv, TypeOK
    <3>2. /\ r \in JobType /\ r.h = "post" /\ r.user = u /\ r.id = i
          /\ r.thread = ticket[i].thread
      <4>1. "post" \in Handlers /\ u \in Person
        BY DEF Handlers
      <4> HIDE DEF JobType, Person, Thread
      <4> QED BY <3>1, <4>1, MirroredType DEF Handlers
    <3>3. Fits(r, ticket, owner)
      BY <3>1, <3>2 DEF Fits, WithTicket, InThread
    <3> HIDE DEF r, JobType
    <3>4. Begin(j, r) BY <2>2 DEF r
    <3> QED BY <2>2, <3>2, <3>3, <3>4, StartStep
  <2> QED BY <1>3, <2>1, <2>2 DEF MessageBegin, Mirrored
<1>4. CASE AskBegin(j, u)
  <2>1. For(u, "confirm", 0) \in JobType /\ Fits(For(u, "confirm", 0), ticket, owner)
    BY ForType DEF Handlers, Fits, WithTicket, InThread
  <2> QED BY <1>4, <2>1, StartStep DEF AskBegin
<1>5. CASE NoBegin(j, u)
  <2>1. For(u, "in", 0) \in JobType /\ Fits(For(u, "in", 0), ticket, owner)
    BY ForType DEF Handlers, Fits, WithTicket, InThread
  <2> QED BY <1>5, <2>1, StartStep DEF NoBegin
<1>6. CASE YesBegin(j, u)
  <2> DEFINE h == IF fsm[u].id = 0 THEN "clear" ELSE "close"
  <2>1. /\ fsm[u].id \in Ids \cup {0} /\ h \in Handlers
        /\ fsm[u].id # 0 => ticket[fsm[u].id].user = u
    BY DEF IInv, TypeOK, RowsFit, Handlers
  <2>2. For(u, h, fsm[u].id) \in JobType /\ Fits(For(u, h, fsm[u].id), ticket, owner)
    <3>1. CASE fsm[u].id = 0
      <4>1. For(u, "clear", 0) \in JobType /\ Fits(For(u, "clear", 0), ticket, owner)
        BY ForType DEF Handlers, Fits, WithTicket, InThread
      <4> HIDE DEF JobType
      <4> QED BY <3>1, <4>1
    <3>2. CASE fsm[u].id # 0
      <4>1. PICK x \in Ids : x = fsm[u].id /\ ticket[x].user = u
        BY <2>1, <3>2
      <4>2. For(u, "close", x) \in JobType /\ Fits(For(u, "close", x), ticket, owner)
        BY <4>1, ForType DEF Handlers, Fits, WithTicket, InThread
      <4>3. h = "close" BY <3>2
      <4> HIDE DEF JobType, h
      <4> QED BY <4>1, <4>2, <4>3
    <3> QED BY <3>1, <3>2
  <2> HIDE DEF JobType
  <2> QED BY <1>6, <2>2, StartStep DEF YesBegin
<1> QED BY <1>1, <1>2, <1>3, <1>4, <1>5, <1>6 DEF UserStarts

LEMMA GroupStartsInv ==
  ASSUME IInv, NEW j \in Jobs, GroupStarts(j)
  PROVE  IInv'
<1> USE Numbers DEF FromGroup
<1>0. TypeOK BY DEF IInv
\* A handler that begins in a topic is about the topic's owner.
<1>1. ASSUME NEW t \in Topics, NEW i \in Newest(t), UNCHANGED wizard,
             NEW h \in {"aclose", "reply", "ban", "unban"},
             Begin(j, AtThread(ticket[i].user, h, i, t))
      PROVE  IInv'
  <2> DEFINE r == AtThread(ticket[i].user, h, i, t)
  <2>1. i \in Ids /\ ticket[i].user \in Users /\ owner[t] = ticket[i].user
    BY <1>0, NewestFits
  <2>2. r \in JobType /\ r.h = h /\ r.user = ticket[i].user /\ r.id = i /\ r.thread = t
    <3>1. h \in Handlers /\ t \in Thread /\ ticket[i].user \in Person /\ i \in Ids \cup {0}
      BY <2>1 DEF Handlers
    <3> QED BY <3>1, AtThreadType DEF Handlers
  <2> HIDE DEF r
  <2>3. Fits(r, ticket, owner)
    BY <2>1, <2>2 DEF Fits, WithTicket, InThread
  <2>4. Begin(j, r) BY <1>1 DEF r
  <2> HIDE DEF JobType
  <2> QED BY <1>1, <2>2, <2>3, <2>4, StartStep
<1>2. ASSUME NEW t \in Topics, CloseBegin(j, t) PROVE IInv'
  BY <1>1, <1>2 DEF CloseBegin, AtThread
<1>3. ASSUME NEW t \in Topics, NEW h \in {"ban", "unban"}, Command(j, t, h) PROVE IInv'
  BY <1>1, <1>3 DEF Command, AtThread
<1>4. ASSUME NEW b \in board, PressClose(j, b) PROVE IInv'
  <2>1. b.thread \in Thread /\ b.id \in Ids /\ ticket[b.id].user \in Users
        /\ (b.thread # 0 => owner[b.thread] = ticket[b.id].user)
    <3> HIDE Numbers
    <3>1. b \in [thread : Thread, id : Ids] /\ ticket[b.id].user # None
      BY <1>0 DEF TypeOK
    <3>2. ticket[b.id].user \in Users BY <1>0, <3>1 DEF TypeOK
    <3> QED BY <3>1, <3>2 DEF IInv, RowsFit
  <2>2. ASSUME NEW i \in Newest(b.thread), b.thread # 0, UNCHANGED wizard,
               Begin(j, AtThread(ticket[i].user, "aclose", i, b.thread))
        PROVE  IInv'
    BY <1>1, <2>1, <2>2
  <2>3. CASE Begin(j, AtThread(None, "aclose", b.id, b.thread)) /\ UNCHANGED wizard
    <3> DEFINE r == AtThread(None, "aclose", b.id, b.thread)
    <3>1. r \in JobType /\ r.h = "aclose" /\ r.user = None /\ r.id = b.id /\ r.thread = b.thread
      <4>1. \A x \in Ids, t \in Thread :
              /\ AtThread(None, "aclose", x, t) \in JobType
              /\ AtThread(None, "aclose", x, t).h = "aclose"
              /\ AtThread(None, "aclose", x, t).user = None
              /\ AtThread(None, "aclose", x, t).id = x /\ AtThread(None, "aclose", x, t).thread = t
        BY AtThreadType DEF Handlers
      <4>2. b.id \in Ids /\ b.thread \in Thread BY <2>1
      <4> HIDE Numbers DEF JobType, Person, Thread
      <4> QED BY <4>1, <4>2
    <3> HIDE DEF r
    <3>2. Fits(r, ticket, owner) BY <2>1, <3>1 DEF Fits, WithTicket, InThread
    <3>3. Begin(j, r) BY <2>3 DEF r
    <3> HIDE DEF JobType
    <3> QED BY <2>3, <3>1, <3>2, <3>3, StartStep
  <2> QED BY <1>4, <2>2, <2>3 DEF PressClose, AtThread
<1>5. ASSUME NEW a \in Admins, Reason(j, a) PROVE IInv'
  <2> DEFINE r == AtThread(wizard[a].user, "ban", 0, wizard[a].thread)
  <2>1. /\ wizard[a].user \in Users /\ wizard[a].thread \in Thread
        /\ wizard[a].thread # 0 => owner[wizard[a].thread] = wizard[a].user
    BY <1>5 DEF Reason, IInv, TypeOK, RowsFit, WizardFits
  <2>2. /\ r \in JobType /\ r.h = "ban" /\ r.user = wizard[a].user
        /\ r.thread = wizard[a].thread
    <3>1. "ban" \in Handlers /\ wizard[a].user \in Person /\ 0 \in Ids \cup {0}
      BY <2>1 DEF Handlers
    <3> HIDE DEF JobType, Person, Thread
    <3> QED BY <2>1, <3>1, AtThreadType DEF Handlers
  <2>5. Begin(j, r) BY <1>5 DEF Reason, AtThread
  <2> HIDE DEF r
  <2>3. Fits(r, ticket, owner) BY <2>1, <2>2 DEF Fits, WithTicket, InThread
  <2>4. /\ wizard' \in [Admins -> [user : Person, thread : Thread]]
        /\ WizardFits(wizard', owner)
    BY <1>5 DEF Reason, IInv, TypeOK, RowsFit, WizardFits, NoWizard
  <2> HIDE DEF JobType
  <2> QED BY <2>2, <2>3, <2>4, <2>5, BeginStep
<1>6. ASSUME NEW a \in Admins, NEW t \in Topics, ReplyBegin(j, a, t) PROVE IInv'
  BY <1>1, <1>6 DEF ReplyBegin, AtThread
<1>7. ASSUME NEW a \in Admins, NEW b \in board, PressBan(j, a, b) PROVE IInv'
  <2>1. b.thread \in Topics BY <1>7 DEF PressBan, IInv, TypeOK
  <2>2. PICK i \in Newest(b.thread) :
          Begin(j, AskedAt(ticket[i].user, "ask", i, b.thread, a)) /\ UNCHANGED wizard
    BY <1>7 DEF PressBan, AskedAt
  <2>3. i \in Ids /\ ticket[i].user \in Users /\ owner[b.thread] = ticket[i].user
    BY <1>0, <2>1, NewestFits
  <2> DEFINE r == AskedAt(ticket[i].user, "ask", i, b.thread, a)
  <2>4. /\ r \in JobType /\ r.h = "ask" /\ r.user = ticket[i].user /\ r.id = i
        /\ r.thread = b.thread /\ r.admin = a
    <3>1. "ask" \in Handlers /\ b.thread \in Thread /\ ticket[i].user \in Person
          /\ i \in Ids \cup {0}
      BY <2>1, <2>3 DEF Handlers
    <3> HIDE DEF JobType, Person, Thread
    <3> QED BY <3>1, AskedAtType DEF Handlers
  <2>5. Begin(j, r) BY <2>2
  <2> HIDE DEF r
  <2>6. Fits(r, ticket, owner)
    BY <2>3, <2>4 DEF Fits, WithTicket, InThread
  <2> HIDE DEF JobType
  <2> QED BY <2>2, <2>4, <2>5, <2>6, StartStep
<1> QED BY <1>2, <1>3, <1>4, <1>5, <1>6, <1>7 DEF GroupStarts

-----------------------------------------------------------------------------
\* A handler that writes nothing at all.
LEMMA QuietStep ==
  ASSUME IInv, NEW j \in Jobs, NEW r \in JobType, Fits(r, ticket, owner),
         job' = [job EXCEPT ![j] = r], job[j].h \notin {"clear", "reset", "save"},
         UNCHANGED <<rows, group, fsm, wizard, missed, doubled>>,
         event' \in EventType, TopicsArePrivate'
  PROVE  IInv'
<1>1. /\ wizard' \in [Admins -> [user : Person, thread : Thread]]
      /\ WizardFits(wizard', owner) /\ banned' \subseteq Users
  BY DEF IInv, TypeOK, RowsFit, rows
<1>2. UNCHANGED <<ticket, topic>> BY DEF rows
<1> HIDE DEF JobType, EventType
<1> QED BY <1>1, <1>2, JobStep

LEMMA IdleFits == Idle \in JobType /\ Idle.h = "idle" /\ Fits(Idle, ticket, owner)
                  /\ Fits(Idle, ticket', owner') /\ Fits(Idle, ticket, owner')
BY DEF Idle, Handlers, Fits, WithTicket, InThread

LEMMA QuietEvent == Silent => event' \in EventType /\ TopicsArePrivate'
BY DEF Silent, Quiet, TopicsArePrivate

\* What the job of j says, as its step begins.
LEMMA JobKnows ==
  ASSUME IInv, NEW j \in Jobs
  PROVE  /\ job[j] \in JobType /\ Fits(job[j], ticket, owner)
         /\ job[j].h \notin {"idle", "aclose"} => job[j].user \in Users
         /\ job[j].h \in WithTicket => job[j].id \in Ids /\ ticket[job[j].id].user = job[j].user
         /\ job[j].h \in InThread /\ job[j].thread # 0 => owner[job[j].thread] = job[j].user
BY DEF IInv, TypeOK, JobsFit, Fits

\* Jobs fit after one of them has moved on, if tickets and owners stay.
LEMMA JobsFitAfter ==
  ASSUME IInv, NEW j \in Jobs, NEW r \in JobType, Fits(r, ticket, owner),
         job' = [job EXCEPT ![j] = r], UNCHANGED <<ticket, owner>>
  PROVE  JobsFit' /\ job' \in [Jobs -> JobType]
BY DEF IInv, TypeOK, JobsFit

LEMMA TopicsInv ==
  ASSUME IInv, NEW j \in Jobs,
         Ensure(j) \/ EnsureFails(j) \/ Save(j) \/ SaveFails(j) \/ Attach(j)
  PROVE  IInv'
<1> USE Numbers, JobKnows, IdleFits, QuietEvent DEF WithTicket, InThread, Put, Step, End
<1>1. CASE Ensure(j)
  <2> DEFINE u == job[j].user
  <2>0. job[j].h = "ensure" /\ u \in Users BY <1>1 DEF Ensure
  <2>1. CASE topic[u] # 0
    <3> DEFINE r == [job[j] EXCEPT !.h = "attach", !.thread = topic[u]]
    <3>1. topic[u] \in Topics /\ owner[topic[u]] = u
      BY <2>0, <2>1 DEF IInv, TypeOK, RowsFit
    <3>2. /\ r \in JobType /\ r.h = "attach" /\ r.user = u /\ r.id = job[j].id
          /\ r.thread = topic[u]
      BY <3>1 DEF Handlers
    <3>3. Fits(r, ticket, owner)
      BY <2>0, <3>1, <3>2 DEF Fits
    <3>4. job' = [job EXCEPT ![j] = r] /\ UNCHANGED <<rows, group, fsm, wizard, missed, doubled>>
      <4> HIDE JobKnows, IdleFits, QuietEvent
      <4>1. job' = [job EXCEPT ![j] = r] /\ UNCHANGED <<owner, doubled>>
        BY <1>1, <2>1 DEF Ensure
      <4>2. UNCHANGED <<rows, gone, board, fsm, wizard, missed>>
        BY <1>1 DEF Ensure
      <4> QED BY <4>1, <4>2 DEF group
    <3>5. event' \in EventType /\ TopicsArePrivate'
      <4> HIDE JobKnows, IdleFits DEF r
      <4>1. Silent \/ Tell("renewed", u, topic[u])
        BY <1>1, <2>1 DEF Ensure
      <4>2. CASE Tell("renewed", u, topic[u])
        BY <2>0, <3>1, <4>2 DEF Tell, TopicsArePrivate
      <4> QED BY <4>1, <4>2
    <3> HIDE DEF r, JobType, EventType
    <3> QED BY <2>0, <3>2, <3>3, <3>4, <3>5, QuietStep
  <2>2. CASE topic[u] = 0
    <3>1. PICK t \in Topics :
            /\ NewTopic(t) /\ owner' = [owner EXCEPT ![t] = u]
            /\ job' = [job EXCEPT ![j] = [job[j] EXCEPT !.h = "save", !.thread = t]]
            /\ doubled' = IF \E k \in Jobs : k # j /\ job[k].h = "save" /\ job[k].user = u
                          THEN doubled \cup {u} ELSE doubled
            /\ Silent /\ UNCHANGED <<rows, gone, board, fsm, wizard, missed>>
      BY <1>1, <2>2 DEF Ensure
    <3> DEFINE r == [job[j] EXCEPT !.h = "save", !.thread = t]
    <3>2. /\ r \in JobType /\ r.h = "save" /\ r.user = u /\ r.id = job[j].id /\ r.thread = t
      BY DEF Handlers
    <3>3. /\ owner[t] = None /\ owner'[t] = u /\ t # 0 /\ u # None
          /\ \A s \in Topics : s # t => owner'[s] = owner[s]
      BY <2>0, <3>1, TicketAssumption DEF NewTopic, IInv, TypeOK
    <3>4. Fits(r, ticket, owner')
      BY <2>0, <3>2, <3>3 DEF Fits
    <3>5. job'[j] = r /\ \A k \in Jobs : k # j => job'[k] = job[k]
      BY <3>1 DEF IInv, TypeOK
    <3>6. /\ TypeOK' /\ RowsFit' /\ JobsFit' /\ OneOpenTicket' /\ TopicsArePrivate'
          /\ DialogueFollowsTicket'
      <4>1. job' = [job EXCEPT ![j] = r] BY <3>1
      <4>2. owner' \in [Topics -> Person] /\ topic' \in [Users -> Thread]
        BY <2>0, <3>1 DEF IInv, TypeOK, rows
      <4>3. \A s \in Topics : owner[s] \in Users => owner'[s] = owner[s]
        BY <3>3, TicketAssumption
      <4>4. \A v \in Users : topic'[v] # 0 => owner'[topic'[v]] = v
        BY <3>1, <3>3, TicketAssumption DEF IInv, TypeOK, RowsFit, rows
      <4>5. doubled' \subseteq Users BY <2>0, <3>1 DEF IInv, TypeOK
      <4>6. UNCHANGED <<ticket, banned, gone, board, fsm, wizard, missed>>
        BY <3>1 DEF rows
      <4>7. event' \in EventType /\ TopicsArePrivate' BY <3>1
      <4> HIDE DEF r, JobType, EventType
      <4> QED BY <2>0, <3>2, <3>4, <4>1, <4>2, <4>3, <4>4, <4>5, <4>6, <4>7, TopicStep
    <3>7. OneTopic'
      <4>1. \A s \in Topics : owner[s] = u => u \in doubled'
        <5> SUFFICES ASSUME NEW s \in Topics, owner[s] = u PROVE u \in doubled'
          OBVIOUS
        <5>1. topic[owner[s]] # s BY <2>2
        <5>2. \/ u \in doubled
              \/ \E k \in Jobs : job[k].h = "save" /\ job[k].user = u
          BY <2>0, <3>3, <5>1 DEF IInv, Saved
        <5> QED BY <2>0, <3>1, <5>2
      <4>2. doubled \subseteq doubled' BY <3>1
      <4> QED BY <3>3, <4>1, <4>2 DEF IInv, OneTopic
    <3>8. Saved'
      <4> SUFFICES ASSUME NEW s \in Topics, owner'[s] # None
                   PROVE  \/ topic'[owner'[s]] = s \/ owner'[s] \in doubled'
                          \/ \E k \in Jobs : /\ job'[k].h = "save" /\ job'[k].user = owner'[s]
                                             /\ job'[k].thread = s
        BY DEF Saved
      <4>1. CASE s = t
        <5> HIDE JobKnows, IdleFits, QuietEvent DEF r
        <5> QED BY <3>2, <3>3, <3>5, <4>1
      <4>2. CASE s # t
        <5>1. owner'[s] = owner[s] /\ topic' = topic /\ doubled \subseteq doubled'
          BY <3>1, <3>3, <4>2 DEF rows
        <5>2. \A k \in Jobs : job[k].h = "save" => job'[k] = job[k]
          BY <2>0, <3>5
        <5> QED BY <5>1, <5>2 DEF IInv, Saved
      <4> QED BY <4>1, <4>2
    <3> QED BY <3>6, <3>7, <3>8 DEF IInv
  <2> QED BY <2>1, <2>2
<1>2. CASE EnsureFails(j)
  <2>1. event' \in EventType /\ TopicsArePrivate'
    BY <1>2 DEF EnsureFails, Fail, Tell, TopicsArePrivate
  <2>2. job[j].h = "ensure" /\ job' = [job EXCEPT ![j] = Idle]
    BY <1>2 DEF EnsureFails, Fail
  <2> HIDE DEF JobType, EventType
  <2> QED BY <1>2, <2>1, <2>2, QuietStep DEF EnsureFails
<1>3. ASSUME job[j].h = "save", NEW r \in JobType, r.h # "save", Fits(r, ticket, owner),
             job' = [job EXCEPT ![j] = r], event' \in EventType, TopicsArePrivate',
             UNCHANGED <<ticket, banned, group, fsm, wizard, missed>>,
             \/ doubled' = doubled \cup {job[j].user} /\ UNCHANGED topic
             \/ topic' = [topic EXCEPT ![job[j].user] = job[j].thread] /\ UNCHANGED doubled
      PROVE  IInv'
  <2> DEFINE u == job[j].user
  <2>1. u \in Users /\ job[j].thread \in Topics /\ owner[job[j].thread] = u
    BY <1>3 DEF Fits
  <2>2. /\ topic' \in [Users -> Thread] /\ doubled' \subseteq Users
        /\ \A v \in Users : topic'[v] # 0 => owner[topic'[v]] = v
        /\ \A v \in Users : v # u => topic'[v] = topic[v]
        /\ topic'[u] = job[j].thread \/ u \in doubled'
        /\ doubled \subseteq doubled'
    <3> HIDE JobKnows, IdleFits, QuietEvent DEF u
    <3>1. topic \in [Users -> Thread] /\ doubled \subseteq Users
          /\ \A v \in Users : topic[v] # 0 => owner[topic[v]] = v
      BY DEF IInv, TypeOK, RowsFit
    <3>2. CASE doubled' = doubled \cup {u} /\ topic' = topic
      BY <2>1, <3>1, <3>2
    <3>3. CASE topic' = [topic EXCEPT ![u] = job[j].thread] /\ doubled' = doubled
      BY <2>1, <3>1, <3>3
    <3> QED BY <1>3, <3>2, <3>3 DEF u
  <2>3. /\ TypeOK' /\ RowsFit' /\ JobsFit' /\ OneOpenTicket' /\ TopicsArePrivate'
        /\ DialogueFollowsTicket'
    <3>1. /\ owner' = owner /\ owner' \in [Topics -> Person]
          /\ UNCHANGED <<ticket, banned, gone, board, fsm, wizard, missed>>
      BY <1>3 DEF IInv, TypeOK, group
    <3> HIDE DEF JobType, EventType, u
    <3> QED BY <1>3, <2>2, <3>1, TopicStep
  <2>4. OneTopic' BY <1>3, <2>2 DEF IInv, OneTopic, group
  <2>5. Saved'
    <3> SUFFICES ASSUME NEW s \in Topics, owner[s] # None, owner[s] \notin doubled',
                        topic'[owner[s]] # s
                 PROVE  \E k \in Jobs : /\ job'[k].h = "save" /\ job'[k].user = owner[s]
                                        /\ job'[k].thread = s
      BY <1>3 DEF Saved, group
    <3>1. owner[s] # u
      <4> HIDE JobKnows, IdleFits, QuietEvent DEF u
      <4>1. SUFFICES ASSUME owner[s] = u PROVE FALSE
        OBVIOUS
      <4>2. s = job[j].thread \/ u \in doubled
        BY <2>1, <4>1, TicketAssumption DEF IInv, OneTopic
      <4> QED BY <2>2, <4>1, <4>2
    <3>2. owner[s] \in Users /\ topic[owner[s]] # s /\ owner[s] \notin doubled
      BY <2>2, <3>1 DEF IInv, TypeOK
    <3>3. PICK k \in Jobs : job[k].h = "save" /\ job[k].user = owner[s] /\ job[k].thread = s
      BY <3>2 DEF IInv, Saved
    <3>4. job'[k] = job[k] BY <1>3, <3>1, <3>3 DEF IInv, TypeOK
    <3> QED BY <3>3, <3>4
  <2> QED BY <2>3, <2>4, <2>5 DEF IInv
<1>4. CASE Save(j)
  <2> DEFINE r == [job[j] EXCEPT !.h = "attach"]
  <2>0. job[j].h = "save" BY <1>4 DEF Save
  <2>1. /\ r \in JobType /\ r.h = "attach" /\ r.user = job[j].user /\ r.id = job[j].id
        /\ r.thread = job[j].thread
    BY DEF Handlers
  <2>2. Fits(r, ticket, owner) BY <2>0, <2>1 DEF Fits
  <2>3. job' = [job EXCEPT ![j] = r] BY <1>4 DEF Save
  <2>4. event' \in EventType /\ TopicsArePrivate' BY <1>4 DEF Save
  <2> HIDE DEF r, JobType, EventType
  <2> QED BY <1>3, <1>4, <2>0, <2>1, <2>2, <2>3, <2>4 DEF Save
<1>5. CASE SaveFails(j)
  <2>1. event' \in EventType /\ TopicsArePrivate'
    BY <1>5 DEF SaveFails, Fail, Tell, TopicsArePrivate
  <2>2. job[j].h = "save" /\ job' = [job EXCEPT ![j] = Idle]
    BY <1>5 DEF SaveFails, Fail
  <2> HIDE DEF JobType, EventType
  <2> QED BY <1>3, <1>5, <2>1, <2>2 DEF SaveFails
<1>6. CASE Attach(j)
  <2> DEFINE r == IF job[j].why = "mirror" THEN [job[j] EXCEPT !.h = "again"] ELSE Idle
  <2>0. job[j].h = "attach" /\ job' = [job EXCEPT ![j] = r] /\ Silent
    BY <1>6 DEF Attach
  <2>1. r \in JobType /\ Fits(r, ticket, owner)
    <3>1. CASE job[j].why = "mirror"
      <4>1. /\ r \in JobType /\ r.h = "again" /\ r.user = job[j].user /\ r.id = job[j].id
            /\ r.thread = job[j].thread
        BY <3>1 DEF Handlers
      <4> HIDE DEF r
      <4> QED BY <2>0, <4>1 DEF Fits
    <3>2. CASE job[j].why # "mirror" BY <3>2
    <3> QED BY <3>1, <3>2
  <2>2. CASE ticket' = [ticket EXCEPT ![job[j].id].thread = job[j].thread]
    <3> HIDE DEF r, JobType
    <3> QED BY <1>6, <2>0, <2>1, <2>2, AttachStep DEF Attach
  <2>3. CASE UNCHANGED ticket
    <3>1. UNCHANGED <<rows, group, fsm, wizard, missed, doubled>>
      BY <1>6, <2>3 DEF Attach, rows
    <3>2. event' \in EventType /\ TopicsArePrivate' BY <2>0
    <3> HIDE DEF r, JobType, EventType
    <3> QED BY <2>0, <2>1, <3>1, <3>2, QuietStep
  <2> QED BY <1>6, <2>2, <2>3 DEF Attach
<1> QED BY <1>1, <1>2, <1>4, <1>5, <1>6

\* Heard says what FsmStep asks of missed.
LEMMA HeardIs ==
  ASSUME IInv, NEW u \in Users, NEW i \in Ids \cup {0}, Heard(u, i)
  PROVE  /\ missed' \subseteq Users /\ missed' \ {u} = missed \ {u}
         /\ u \in missed' \/ (i # 0 /\ ticket[i].open)
BY Numbers DEF Heard, IInv, TypeOK

\* A handler of the user u sets u's dialogue, or clears it, and tells missed.
LEMMA DialogueStep ==
  ASSUME IInv, NEW j \in Jobs, NEW r \in JobType, Fits(r, ticket, owner),
         NEW d \in [st : {"none", "in", "confirm"}, id : Ids \cup {0}],
         job[j].user \in Users, job[j].h # "save",
         job' = [job EXCEPT ![j] = r], fsm' = [fsm EXCEPT ![job[j].user] = d],
         d.id # 0 => ticket[d.id].user = job[j].user,
         missed' \subseteq Users, missed' \ {job[j].user} = missed \ {job[j].user},
         d.st # "none" => job[j].user \in missed' \/ (d.id # 0 /\ ticket[d.id].open),
         UNCHANGED <<rows, group, wizard, doubled>>, Silent
  PROVE  IInv'
<1>1. JobsFit' /\ job' \in [Jobs -> JobType]
  <2>1. UNCHANGED <<ticket, owner>> BY DEF rows, group
  <2> HIDE DEF JobType
  <2> QED BY <2>1, JobsFitAfter
<1>2. \A k \in Jobs : job[k].h = "save" \/ job[k].user # job[j].user => job'[k] = job[k]
  BY DEF IInv, TypeOK
<1> HIDE DEF JobType
<1> QED BY <1>1, <1>2, FsmStep

LEMMA EnsureType ==
  ASSUME NEW q \in JobType
  PROVE  /\ [q EXCEPT !.h = "ensure", !.why = "create"] \in JobType
         /\ [q EXCEPT !.h = "ensure", !.why = "create"].h = "ensure"
         /\ [q EXCEPT !.h = "ensure", !.why = "create"].user = q.user
         /\ [q EXCEPT !.h = "ensure", !.why = "create"].id = q.id
BY DEF Handlers

LEMMA DialoguesInv ==
  ASSUME IInv, NEW j \in Jobs,
         Enter(j) \/ Created(j) \/ SetState(j) \/ Clear(j) \/ Reset(j)
  PROVE  IInv'
<1> USE Numbers DEF Put, Step, End
<1>0. /\ job[j] \in JobType /\ Fits(job[j], ticket, owner) /\ Idle \in JobType
      /\ Fits(Idle, ticket, owner)
      /\ job[j].h \in {"enter", "created", "confirm", "in", "clear", "reset"} => job[j].user \in Users
      /\ job[j].h \in {"enter", "created"} =>
            job[j].id \in Ids /\ ticket[job[j].id].user = job[j].user
  BY JobKnows, IdleFits DEF WithTicket
<1>1. CASE Enter(j)
  <2> DEFINE d == [st |-> "in", id |-> job[j].id]
  <2>1. job[j].h = "enter" /\ job[j].user \in Users /\ job[j].id \in Ids
    BY <1>0, <1>1 DEF Enter
  <2>2. d \in [st : {"none", "in", "confirm"}, id : Ids \cup {0}] BY <2>1
  <2>3. /\ missed' \subseteq Users /\ missed' \ {job[j].user} = missed \ {job[j].user}
        /\ job[j].user \in missed' \/ (job[j].id # 0 /\ ticket[job[j].id].open)
    BY <1>1, <2>1, HeardIs DEF Enter
  <2>4. /\ d.id # 0 => ticket[d.id].user = job[j].user
        /\ d.st # "none" => job[j].user \in missed' \/ (d.id # 0 /\ ticket[d.id].open)
    <3>1. d.st = "in" /\ d.id = job[j].id OBVIOUS
    <3>2. ticket[job[j].id].user = job[j].user BY <1>0, <2>1
    <3> HIDE DEF d
    <3> QED BY <2>3, <3>1, <3>2
  <2>8. job[j].h # "save" /\ UNCHANGED <<rows, group, wizard, doubled>> /\ Silent
    BY <1>1, <2>1 DEF Enter
  <2>5. job' = [job EXCEPT ![j] = Idle] /\ fsm' = [fsm EXCEPT ![job[j].user] = d]
    BY <1>1 DEF Enter
  <2> HIDE DEF d, JobType
  <2> QED BY <1>0, <2>8, <2>1, <2>2, <2>3, <2>4, <2>5, DialogueStep
<1>2. CASE Created(j)
  <2> DEFINE d == [st |-> "in", id |-> job[j].id]
  <2> DEFINE r == [job[j] EXCEPT !.h = "ensure", !.why = "create"]
  <2>1. job[j].h = "created" /\ job[j].user \in Users /\ job[j].id \in Ids
    BY <1>0, <1>2 DEF Created
  <2>2. d \in [st : {"none", "in", "confirm"}, id : Ids \cup {0}] BY <2>1
  <2>3. /\ missed' \subseteq Users /\ missed' \ {job[j].user} = missed \ {job[j].user}
        /\ job[j].user \in missed' \/ (job[j].id # 0 /\ ticket[job[j].id].open)
    BY <1>2, <2>1, HeardIs DEF Created
  <2>4. /\ d.id # 0 => ticket[d.id].user = job[j].user
        /\ d.st # "none" => job[j].user \in missed' \/ (d.id # 0 /\ ticket[d.id].open)
    <3>1. d.st = "in" /\ d.id = job[j].id OBVIOUS
    <3>2. ticket[job[j].id].user = job[j].user BY <1>0, <2>1
    <3> HIDE DEF d
    <3> QED BY <2>3, <3>1, <3>2
  <2>8. job[j].h # "save" /\ UNCHANGED <<rows, group, wizard, doubled>> /\ Silent
    BY <1>2, <2>1 DEF Created
  <2>5. job' = [job EXCEPT ![j] = r] /\ fsm' = [fsm EXCEPT ![job[j].user] = d]
    BY <1>2 DEF Created
  <2>6. r \in JobType /\ r.h = "ensure" /\ r.user = job[j].user /\ r.id = job[j].id
    <3>1. job[j] \in JobType BY <1>0
    <3> QED BY <3>1, EnsureType
  <2> HIDE DEF d, r
  <2>7. Fits(r, ticket, owner) BY <1>0, <2>1, <2>6 DEF Fits, WithTicket, InThread
  <2> HIDE DEF JobType
  <2> QED BY <1>0, <2>8, <2>1, <2>2, <2>3, <2>4, <2>5, <2>6, <2>7, DialogueStep
<1>3. CASE SetState(j)
  <2> DEFINE u == job[j].user
  <2> DEFINE d == [fsm[u] EXCEPT !.st = job[j].h]
  <2>1. job[j].h \in {"confirm", "in"} /\ u \in Users
    BY <1>0, <1>3 DEF SetState
  <2>2. /\ fsm[u] \in [st : {"none", "in", "confirm"}, id : Ids \cup {0}]
        /\ fsm[u].id # 0 => ticket[fsm[u].id].user = u
    BY <2>1 DEF IInv, TypeOK, RowsFit
  <2>3. d \in [st : {"none", "in", "confirm"}, id : Ids \cup {0}] /\ d.id = fsm[u].id
    BY <2>1, <2>2
  <2>4. /\ missed' \subseteq Users /\ missed' \ {u} = missed \ {u}
        /\ u \in missed' \/ (d.id # 0 /\ ticket[d.id].open)
    BY <1>3, <2>1, <2>2, <2>3, HeardIs DEF SetState
  <2>5. job' = [job EXCEPT ![j] = Idle] /\ fsm' = [fsm EXCEPT ![u] = d]
    BY <1>3 DEF SetState
  <2>8. /\ d.id # 0 => ticket[d.id].user = u
        /\ d.st # "none" => u \in missed' \/ (d.id # 0 /\ ticket[d.id].open)
    <3> HIDE DEF d
    <3> QED BY <2>2, <2>3, <2>4
  <2>9. job[j].h # "save" /\ UNCHANGED <<rows, group, wizard, doubled>> /\ Silent
    BY <1>3, <2>1 DEF SetState
  <2> HIDE DEF d, u, JobType
  <2>10. u = job[j].user BY DEF u
  <2> QED BY <1>0, <2>1, <2>3, <2>4, <2>5, <2>8, <2>9, <2>10, DialogueStep
<1>4. Out \in [st : {"none", "in", "confirm"}, id : Ids \cup {0}] /\ Out.st = "none" /\ Out.id = 0
  BY DEF Out
<1>5. CASE Clear(j)
  <2>1. job[j].h = "clear" /\ job[j].user \in Users
    BY <1>0, <1>5 DEF Clear
  <2>2. missed' \subseteq Users /\ missed' \ {job[j].user} = missed \ {job[j].user}
    BY <1>5 DEF Clear, IInv, TypeOK
  <2>3. job' = [job EXCEPT ![j] = Idle] /\ fsm' = [fsm EXCEPT ![job[j].user] = Out]
    BY <1>5 DEF Clear
  <2> HIDE DEF JobType
  <2> QED BY <1>0, <1>4, <1>5, <2>1, <2>2, <2>3, DialogueStep DEF Clear
<1>6. CASE Reset(j)
  <2> DEFINE u == job[j].user
  <2>1. job[j].h = "reset" /\ u \in Users /\ job' = [job EXCEPT ![j] = Idle]
    BY <1>0, <1>6 DEF Reset
  <2>2. CASE fsm' = [fsm EXCEPT ![u] = Out] /\ missed' = missed \ {u}
    <3>1. missed' \subseteq Users /\ missed' \ {u} = missed \ {u}
      BY <2>2 DEF IInv, TypeOK
    <3> HIDE DEF JobType
    <3> QED BY <1>0, <1>4, <1>6, <2>1, <2>2, <3>1, DialogueStep DEF Reset
  <2>3. CASE missed' = missed \cup {u} /\ UNCHANGED fsm
    <3>1. missed' \subseteq Users /\ missed' \ {u} = missed \ {u} /\ u \in missed'
      BY <2>1, <2>3 DEF IInv, TypeOK
    <3>2. /\ fsm[u] \in [st : {"none", "in", "confirm"}, id : Ids \cup {0}]
          /\ fsm[u].id # 0 => ticket[fsm[u].id].user = u
          /\ fsm' = [fsm EXCEPT ![u] = fsm[u]]
      BY <2>1, <2>3 DEF IInv, TypeOK, RowsFit
    <3> HIDE DEF JobType
    <3> QED BY <1>0, <1>6, <2>1, <3>1, <3>2, DialogueStep DEF Reset
  <2> QED BY <1>6, <2>2, <2>3 DEF Reset
<1> QED BY <1>1, <1>2, <1>3, <1>5, <1>6

LEMMA ClosingInv ==
  ASSUME IInv, NEW j \in Jobs, Insert(j) \/ UserClose(j) \/ AdminClose(j)
  PROVE  IInv'
<1> USE Numbers DEF Put, Step, End
<1>0. Idle \in JobType /\ Fits(Idle, ticket, owner) /\ job[j] \in JobType
  BY IdleFits, JobKnows
\* Nothing but the end of the handler.
<1>1. ASSUME job[j].h \in {"insert", "close", "aclose"}, job' = [job EXCEPT ![j] = Idle], Silent,
             UNCHANGED <<rows, group, fsm, wizard, missed, doubled>>
      PROVE  IInv'
  <2>1. event' \in EventType /\ TopicsArePrivate' BY <1>1, QuietEvent
  <2> HIDE DEF JobType, EventType
  <2> QED BY <1>0, <1>1, <2>1, QuietStep
<1>2. CASE Insert(j)
  <2> DEFINE u == job[j].user
  <2>1. job[j].h = "insert" /\ u \in Users
    BY <1>2, JobKnows DEF Insert
  <2>2. CASE End(j) /\ UNCHANGED ticket
    BY <1>1, <1>2, <2>1, <2>2 DEF Insert, rows
  <2>3. CASE OpenOf(u) = {} /\ \E i \in Ids :
               /\ NewId(i)
               /\ ticket' = [ticket EXCEPT ![i] = [NoTicket EXCEPT !.user = u, !.open = TRUE]]
               /\ Put(j, For(u, "created", i)) \/ End(j)
    <3>1. PICK i \in Ids :
               /\ NewId(i)
               /\ ticket' = [ticket EXCEPT ![i] = [NoTicket EXCEPT !.user = u, !.open = TRUE]]
               /\ Put(j, For(u, "created", i)) \/ End(j)
      BY <2>3
    <3>2. PICK r \in {For(u, "created", i), Idle} : job' = [job EXCEPT ![j] = r]
      BY <3>1
    <3>3. UNCHANGED <<topic, banned, group, fsm, wizard, missed, doubled>> /\ Silent
      BY <1>2 DEF Insert
    <3> HIDE DEF u
    <3> QED BY <2>1, <2>3, <3>1, <3>2, <3>3, InsertStep
  <2> QED BY <1>2, <2>2, <2>3 DEF Insert
<1>3. CASE UserClose(j)
  <2> DEFINE u == job[j].user
  <2> DEFINE i == job[j].id
  <2>1. job[j].h = "close" /\ u \in Users /\ i \in Ids /\ ticket[i].user = u
    BY <1>3, JobKnows DEF UserClose, WithTicket
  <2>2. CASE End(j) /\ UNCHANGED <<ticket, missed>>
    BY <1>1, <1>3, <2>1, <2>2 DEF UserClose, rows
  <2>3. ASSUME ticket' = [ticket EXCEPT ![i].open = FALSE], NEW r \in JobType,
               job' = [job EXCEPT ![j] = r], Fits(r, ticket, owner),
               (missed' = missed /\ r.h = "clear" /\ r.user = u) \/ missed' = missed \cup {u}
        PROVE  IInv'
    <3>1. missed \subseteq missed' /\ missed' \subseteq Users
      BY <2>1, <2>3 DEF IInv, TypeOK
    <3>2. u \in missed' \/ (r.h \in {"clear", "reset"} /\ r.user = u)
      BY <2>3
    <3>3. event' \in EventType /\ TopicsArePrivate' BY <1>3, QuietEvent DEF UserClose
    <3>4. UNCHANGED <<topic, banned, group, fsm, wizard, doubled>>
      BY <1>3 DEF UserClose
    <3> HIDE DEF u, i, JobType, EventType
    <3> QED BY <2>1, <2>3, <3>1, <3>2, <3>3, <3>4, CloseStep
  <2>4. CASE ticket' = [ticket EXCEPT ![i].open = FALSE] /\ Step(j, "clear") /\ UNCHANGED missed
    <3> DEFINE r == [job[j] EXCEPT !.h = "clear"]
    <3>1. r \in JobType /\ r.h = "clear" /\ r.user = u
      BY <1>0 DEF Handlers
    <3>2. Fits(r, ticket, owner)
      <4> HIDE DEF r
      <4> QED BY <2>1, <3>1 DEF Fits, WithTicket, InThread
    <3>3. job' = [job EXCEPT ![j] = r] BY <2>4
    <3> HIDE DEF r, u, i, JobType
    <3> QED BY <2>3, <2>4, <3>1, <3>2, <3>3
  <2>5. CASE ticket' = [ticket EXCEPT ![i].open = FALSE] /\ End(j) /\ missed' = missed \cup {u}
    <3> HIDE DEF u, i, JobType
    <3> QED BY <1>0, <2>3, <2>5
  <2> QED BY <1>3, <2>2, <2>4, <2>5 DEF UserClose
<1>4. CASE AdminClose(j)
  <2> DEFINE i == job[j].id
  <2> DEFINE u == ticket[i].user
  <2>1. /\ job[j].h = "aclose" /\ i \in Ids /\ u \in Users
        /\ job[j].user # None => job[j].user = u
        /\ job[j].thread # 0 => owner[job[j].thread] = u
    BY <1>4, JobKnows DEF AdminClose, Fits
  <2>2. CASE End(j) /\ Silent /\ UNCHANGED <<ticket, missed>>
    BY <1>1, <1>4, <2>1, <2>2 DEF AdminClose, rows
  <2>3. ASSUME ticket' = [ticket EXCEPT ![i].open = FALSE], NEW r \in JobType,
               job' = [job EXCEPT ![j] = r], Fits(r, ticket, owner),
               Tell("closed", u, job[j].thread),
               (missed' = missed /\ r.h = "reset" /\ r.user = u) \/ missed' = missed \cup {u}
        PROVE  IInv'
    <3>1. missed \subseteq missed' /\ missed' \subseteq Users
      BY <2>1, <2>3 DEF IInv, TypeOK
    <3>2. u \in missed' \/ (r.h \in {"clear", "reset"} /\ r.user = u)
      BY <2>3
    <3>3. UNCHANGED <<topic, banned, group, fsm, wizard, doubled>>
      BY <1>4 DEF AdminClose
    <3>4. event' \in EventType /\ TopicsArePrivate'
      BY <1>0, <2>1, <2>3, <3>3 DEF Tell, TopicsArePrivate, group
    <3> HIDE DEF u, JobType, EventType
    <3>5. ticket[i].user = u BY DEF u
    <3> HIDE DEF i
    <3> QED BY <2>1, <2>3, <3>1, <3>2, <3>3, <3>4, <3>5, CloseStep
  <2>4. CASE /\ ticket' = [ticket EXCEPT ![i].open = FALSE] /\ Tell("closed", u, job[j].thread)
             /\ job[j].user # None /\ Step(j, "reset") /\ UNCHANGED missed
    <3> DEFINE r == [job[j] EXCEPT !.h = "reset"]
    <3>1. r \in JobType /\ r.h = "reset" /\ r.user = u
      BY <1>0, <2>1, <2>4 DEF Handlers
    <3>2. Fits(r, ticket, owner)
      <4> HIDE DEF r, u
      <4> QED BY <2>1, <3>1 DEF Fits, WithTicket, InThread
    <3>3. job' = [job EXCEPT ![j] = r] BY <2>4
    <3> HIDE DEF r, u, i, JobType
    <3> QED BY <2>3, <2>4, <3>1, <3>2, <3>3
  <2>5. CASE /\ ticket' = [ticket EXCEPT ![i].open = FALSE] /\ Tell("closed", u, job[j].thread)
             /\ End(j) /\ missed' = missed \cup {u}
    <3> HIDE DEF u, i, JobType
    <3> QED BY <1>0, <2>3, <2>5
  <2> QED BY <1>4, <2>2, <2>4, <2>5 DEF AdminClose
<1> QED BY <1>2, <1>3, <1>4

LEMMA MessagesInv ==
  ASSUME IInv, NEW j \in Jobs,
         \/ Post(j) \/ PostAgain(j) \/ PostFails(j)
         \/ Reply(j) \/ AskReason(j) \/ Ban(j)
  PROVE  IInv'
<1> USE Numbers DEF Put, Step, End
<1>0. /\ job[j] \in JobType /\ Fits(job[j], ticket, owner)
      /\ Idle \in JobType /\ Fits(Idle, ticket, owner)
      /\ job[j].h \notin {"idle", "aclose"} => job[j].user \in Users
      /\ job[j].h \in {"post", "again"} =>
            job[j].id \in Ids /\ ticket[job[j].id].user = job[j].user
      /\ job[j].h \in {"post", "again", "reply", "ask", "ban", "unban"} =>
            (job[j].thread # 0 => owner[job[j].thread] = job[j].user)
  BY JobKnows, IdleFits DEF WithTicket, InThread
\* The event is about the handler's user and thread.
<1>1. ASSUME NEW kind \in {"mirror", "lost", "reply", "ban", "unban"}, owner' = owner,
             job[j].h \in {"post", "again", "reply", "ban", "unban"},
             Tell(kind, job[j].user, job[j].thread)
      PROVE  event' \in EventType /\ TopicsArePrivate'
  BY <1>0, <1>1 DEF Tell, TopicsArePrivate
<1>2. CASE Post(j)
  <2>1. /\ job[j].h \in {"post", "again"} /\ job' = [job EXCEPT ![j] = Idle]
        /\ board' = board \cup {[thread |-> job[j].thread, id |-> job[j].id]}
        /\ UNCHANGED <<rows, owner, gone, fsm, wizard, missed, doubled>>
        /\ Tell("mirror", job[j].user, job[j].thread)
    BY <1>2 DEF Post
  <2>2. event' \in EventType /\ TopicsArePrivate' BY <1>1, <2>1
  <2>3. /\ job[j].id \in Ids /\ ticket[job[j].id].user = job[j].user /\ job[j].user \in Users
        /\ job[j].thread \in Thread
        /\ job[j].thread # 0 => owner[job[j].thread] = job[j].user
    BY <1>0, <2>1
  <2>4. JobsFit' /\ job' \in [Jobs -> JobType]
    <3>1. UNCHANGED <<ticket, owner>> BY <2>1 DEF rows
    <3> HIDE DEF JobType
    <3> QED BY <1>0, <2>1, <3>1, JobsFitAfter
  <2>5. TypeOK'
    <3>1. /\ board' \subseteq [thread : Thread, id : Ids]
          /\ \A b \in board' : ticket[b.id].user # None
      BY <2>1, <2>3, TicketAssumption DEF IInv, TypeOK
    <3> QED BY <2>1, <2>2, <2>4, <3>1 DEF IInv, TypeOK, rows
  <2>6. RowsFit'
    <3>1. \A b \in board' : b.thread # 0 => owner[b.thread] = ticket[b.id].user
      BY <2>1, <2>3 DEF IInv, RowsFit
    <3> QED BY <2>1, <3>1 DEF IInv, RowsFit, rows
  <2>7. OneOpenTicket' /\ OneTopic' BY <2>1 DEF IInv, OneOpenTicket, OneTopic, rows
  <2>8. DialogueFollowsTicket'
    <3>1. \A k \in Jobs : job[k].h \in {"clear", "reset"} => job'[k] = job[k]
      BY <2>1 DEF IInv, TypeOK
    <3> QED BY <2>1, <3>1 DEF IInv, DialogueFollowsTicket, rows
  <2>9. Saved'
    <3>1. \A k \in Jobs : job[k].h = "save" => job'[k] = job[k]
      BY <2>1 DEF IInv, TypeOK
    <3> QED BY <2>1, <3>1 DEF IInv, Saved, rows
  <2> QED BY <2>2, <2>4, <2>5, <2>6, <2>7, <2>8, <2>9 DEF IInv
<1>3. CASE PostAgain(j)
  <2> DEFINE r == [job[j] EXCEPT !.h = "ensure"]
  <2>1. job[j].h = "post" /\ job' = [job EXCEPT ![j] = r] BY <1>3 DEF PostAgain
  <2>2. r \in JobType /\ r.h = "ensure" /\ r.user = job[j].user /\ r.id = job[j].id
    BY <1>0 DEF Handlers
  <2> HIDE DEF r
  <2>3. Fits(r, ticket, owner) BY <1>0, <2>1, <2>2 DEF Fits, WithTicket, InThread
  <2>4. event' \in EventType /\ TopicsArePrivate' BY <1>3, QuietEvent DEF PostAgain
  <2>5. UNCHANGED <<rows, group, fsm, wizard, missed, doubled>> BY <1>3 DEF PostAgain
  <2> HIDE DEF JobType, EventType
  <2> QED BY <2>1, <2>2, <2>3, <2>4, <2>5, QuietStep
<1>4. CASE PostFails(j)
  <2>1. job[j].h \in {"post", "again"} /\ job' = [job EXCEPT ![j] = Idle]
        /\ UNCHANGED <<rows, group, fsm, wizard, missed, doubled>>
    BY <1>4 DEF PostFails, Fail
  <2>2. Silent \/ Tell("lost", job[j].user, job[j].thread) BY <1>4 DEF PostFails, Fail
  <2>3. event' \in EventType /\ TopicsArePrivate'
    BY <1>1, <2>1, <2>2, QuietEvent DEF group
  <2> HIDE DEF JobType, EventType
  <2> QED BY <1>0, <2>1, <2>3, QuietStep
<1>5. CASE Reply(j)
  <2>1. job[j].h = "reply" /\ job' = [job EXCEPT ![j] = Idle]
        /\ UNCHANGED <<rows, group, fsm, wizard, missed, doubled>>
    BY <1>5 DEF Reply
  <2>2. Silent \/ Tell("reply", job[j].user, job[j].thread) BY <1>5 DEF Reply
  <2>3. event' \in EventType /\ TopicsArePrivate'
    BY <1>1, <2>1, <2>2, QuietEvent DEF group
  <2> HIDE DEF JobType, EventType
  <2> QED BY <1>0, <2>1, <2>3, QuietStep
<1>6. CASE AskReason(j)
  <2>1. /\ job[j].h = "ask" /\ job' = [job EXCEPT ![j] = Idle] /\ Silent
        /\ wizard' = [wizard EXCEPT ![job[j].admin] =
                        [user |-> job[j].user, thread |-> job[j].thread]]
        /\ UNCHANGED <<rows, group, fsm, missed, doubled>>
    BY <1>6 DEF AskReason
  <2>2. job[j].admin \in Admins /\ job[j].user \in Users /\ job[j].thread \in Thread
        /\ (job[j].thread # 0 => owner[job[j].thread] = job[j].user)
    BY <1>0, <2>1 DEF Fits
  <2>3. /\ wizard' \in [Admins -> [user : Person, thread : Thread]]
        /\ WizardFits(wizard', owner)
    BY <2>1, <2>2 DEF IInv, TypeOK, RowsFit, WizardFits
  <2>4. event' \in EventType /\ TopicsArePrivate' BY <2>1, QuietEvent
  <2>5. banned' \subseteq Users /\ UNCHANGED <<ticket, topic, group, fsm, missed, doubled>>
    BY <2>1 DEF IInv, TypeOK, rows
  <2> HIDE DEF JobType, EventType
  <2> QED BY <1>0, <2>1, <2>3, <2>4, <2>5, JobStep
<1>7. CASE Ban(j)
  <2>1. job[j].h \in {"ban", "unban"} /\ job' = [job EXCEPT ![j] = Idle]
        /\ UNCHANGED <<ticket, topic, group, fsm, wizard, missed, doubled>>
    BY <1>7 DEF Ban
  <2>2. Silent \/ Tell(job[j].h, job[j].user, job[j].thread) BY <1>7 DEF Ban
  <2>3. event' \in EventType /\ TopicsArePrivate'
    BY <1>1, <2>1, <2>2, QuietEvent DEF group
  <2>4. banned' \subseteq Users BY <1>0, <1>7 DEF Ban, IInv, TypeOK
  <2>5. /\ wizard' \in [Admins -> [user : Person, thread : Thread]]
        /\ WizardFits(wizard', owner)
    BY <2>1 DEF IInv, TypeOK, RowsFit
  <2> HIDE DEF JobType, EventType
  <2> QED BY <1>0, <2>1, <2>3, <2>4, <2>5, JobStep
<1> QED BY <1>2, <1>3, <1>4, <1>5, <1>6, <1>7

\* Every step keeps the invariant.
LEMMA StepInv == IInv /\ [Next]_vars => IInv'
<1> SUFFICES ASSUME IInv, [Next]_vars PROVE IInv' OBVIOUS
<1>1. ASSUME NEW j \in Jobs, Goes(j) PROVE IInv'
  BY <1>1, TopicsInv, DialoguesInv, ClosingInv, MessagesInv DEF Goes
<1>2. ASSUME NEW j \in Jobs, GroupStarts(j) PROVE IInv'
  BY <1>2, GroupStartsInv
<1>3. ASSUME NEW j \in Jobs, NEW u \in Users, UserStarts(j, u) PROVE IInv'
  BY <1>3, UserStartsInv
<1>4. ASSUME NEW u \in Users, Leave(u) PROVE IInv'
  <2>1. /\ fsm' = [fsm EXCEPT ![u] = Out] /\ missed' = missed \ {u} /\ Silent
        /\ UNCHANGED <<rows, group, wizard, job, doubled>>
    BY <1>4 DEF Leave
  <2>2. Out \in [st : {"none", "in", "confirm"}, id : Ids \cup {0}] /\ Out.st = "none" /\ Out.id = 0
    BY DEF Out
  <2>3. missed' \subseteq Users /\ missed' \ {u} = missed \ {u} /\ job' \in [Jobs -> JobType]
    BY <2>1 DEF IInv, TypeOK
  <2>4. JobsFit' BY <2>1 DEF IInv, JobsFit, rows, group
  <2> HIDE DEF JobType
  <2> QED BY <2>1, <2>2, <2>3, <2>4, FsmStep
<1>5. ASSUME NEW a \in Admins, CancelBan(a) PROVE IInv'
  <2> USE <1>5 DEF CancelBan, rows, group, Silent, Quiet
  <2>1. TypeOK' BY DEF IInv, TypeOK, NoWizard
  <2>2. RowsFit' BY DEF IInv, TypeOK, RowsFit, WizardFits
  <2>3. JobsFit' BY DEF IInv, JobsFit
  <2>4. OneOpenTicket' /\ TopicsArePrivate' /\ DialogueFollowsTicket' /\ OneTopic' /\ Saved'
    BY DEF IInv, OneOpenTicket, TopicsArePrivate, DialogueFollowsTicket, OneTopic, Saved
  <2> QED BY <2>1, <2>2, <2>3, <2>4 DEF IInv
<1>6. ASSUME NEW t \in Topics, Delete(t) PROVE IInv'
  <2> USE <1>6 DEF Delete, rows, Silent, Quiet
  <2>1. TypeOK' BY DEF IInv, TypeOK
  <2>2. RowsFit' /\ JobsFit' BY DEF IInv, RowsFit, JobsFit
  <2>3. OneOpenTicket' /\ TopicsArePrivate' /\ DialogueFollowsTicket' /\ OneTopic' /\ Saved'
    BY DEF IInv, OneOpenTicket, TopicsArePrivate, DialogueFollowsTicket, OneTopic, Saved
  <2> QED BY <2>1, <2>2, <2>3 DEF IInv
<1>7. CASE UNCHANGED vars
  <2> USE <1>7 DEF vars, rows, group
  <2>1. TypeOK' BY DEF IInv, TypeOK
  <2>2. RowsFit' /\ JobsFit' BY DEF IInv, RowsFit, JobsFit
  <2>3. OneOpenTicket' /\ TopicsArePrivate' /\ DialogueFollowsTicket' /\ OneTopic' /\ Saved'
    BY DEF IInv, OneOpenTicket, TopicsArePrivate, DialogueFollowsTicket, OneTopic, Saved
  <2> QED BY <2>1, <2>2, <2>3 DEF IInv
<1> QED BY <1>1, <1>2, <1>3, <1>4, <1>5, <1>6, <1>7 DEF Next

LEMMA Invariance == Spec => []IInv
BY InitInv, StepInv, PTL DEF Spec

-----------------------------------------------------------------------------
\* Tickets, threads, buttons, dialogues and handlers keep their types, and a ticket
\* is bound only to a topic made for its user.
THEOREM TypeCorrect == Spec => []TypeOK
<1>1. IInv => TypeOK BY DEF IInv
<1> QED BY <1>1, Invariance, PTL

\* However many requests of a user race, one of his tickets is open at most.
THEOREM OneOpenTicketEach == Spec => []OneOpenTicket
<1>1. IInv => OneOpenTicket BY DEF IInv
<1> QED BY <1>1, Invariance, PTL

\* Whatever is mirrored, answered, closed or banned in a topic is about the topic's
\* owner, whatever the handlers had read before.
THEOREM NobodyElsesTopic == Spec => []TopicsArePrivate
<1>1. IInv => TopicsArePrivate BY DEF IInv
<1> QED BY <1>1, Invariance, PTL

\* A dialogue is about an open ticket, or about to be cleared, or was not told.
THEOREM DialogueIsCurrent == Spec => []DialogueFollowsTicket
<1>1. IInv => DialogueFollowsTicket BY DEF IInv
<1> QED BY <1>1, Invariance, PTL

\* A second topic of a user has one of two causes: a topic that was not saved, or
\* two handlers that made one together.
THEOREM OneTopicEach == Spec => []OneTopic
<1>1. IInv => OneTopic BY DEF IInv
<1> QED BY <1>1, Invariance, PTL

-----------------------------------------------------------------------------
(***************************************************************************)
(* Broadcasts, and the two side by side.                                   *)
(***************************************************************************)
BP == INSTANCE BroadcastProofs WITH Users <- Recipients, Jobs <- Workers, Admins <- Authors,
                                    job <- work

\* B and BP are instances of the same definitions.
LEMMA SameBroadcasts ==
    /\ B!BroadcastAssumption <=> BP!BroadcastAssumption
    /\ B!Init <=> BP!Init
    /\ B!Next <=> BP!Next
    /\ bvars' = bvars => BP!vars' = BP!vars
<1>1. B!BroadcastAssumption <=> BP!BroadcastAssumption
  BY DEF B!BroadcastAssumption, BP!BroadcastAssumption, B!IsFiniteSet, BP!IsFiniteSet
<1>2. B!Init <=> BP!Init
  BY DEF B!Init, B!Nothing, B!Resting, B!Callers,
         BP!Init, BP!Nothing, BP!Resting, BP!Callers
<1>3. B!Next <=> BP!Next
  BY DEF B!Next, B!Endpoint, B!Work, B!Load, B!CommitCancel, B!CommitSend, B!CommitText,
         B!CommitPhoto, B!CommitSchedule, B!Drop, B!Pick, B!Passes, B!FlagExpires,
         B!EnqueueFails, B!Enqueue, B!Start, B!SeeFlag, B!Fetch, B!Record, B!Finalize,
         B!Send, B!Die, B!GiveUp, B!Allowed, B!Written, B!Stale, B!InHand, B!Turn, B!Put,
         B!Front, B!NextOf, B!Pending, B!After, B!Unrecorded, B!Running, B!Callers, B!Ops,
         B!Editable, B!Nothing, B!Resting, B!Cardinality, B!row, B!counts, B!toll,
         B!ghosts,
         BP!Next, BP!Endpoint, BP!Work, BP!Load, BP!CommitCancel, BP!CommitSend,
         BP!CommitText, BP!CommitPhoto, BP!CommitSchedule, BP!Drop, BP!Pick, BP!Passes,
         BP!FlagExpires, BP!EnqueueFails, BP!Enqueue, BP!Start, BP!SeeFlag, BP!Fetch,
         BP!Record, BP!Finalize, BP!Send, BP!Die, BP!GiveUp, BP!Allowed, BP!Written,
         BP!Stale, BP!InHand, BP!Turn, BP!Put, BP!Front, BP!NextOf, BP!Pending, BP!After,
         BP!Unrecorded, BP!Running, BP!Callers, BP!Ops, BP!Editable, BP!Nothing,
         BP!Resting, BP!Cardinality, BP!row, BP!counts, BP!toll, BP!ghosts
<1>4. bvars' = bvars => BP!vars' = BP!vars
  BY DEF bvars, BP!vars, BP!row, BP!counts, BP!toll, BP!ghosts
<1> QED BY <1>1, <1>2, <1>3, <1>4

\* Each of the two behaves as if it were alone.
LEMMA SideBySide == MessagingSpec => Spec /\ BP!Spec
<1>1. MessagingInit => Init /\ BP!Init BY SameBroadcasts DEF MessagingInit
<1>2. [MessagingNext]_<<vars, bvars>> => [Next]_vars /\ [BP!Next]_(BP!vars)
  BY SameBroadcasts DEF MessagingNext, Tickets, Broadcasts
<1> QED BY <1>1, <1>2, PTL DEF MessagingSpec, Spec, BP!Spec

\* Tickets and broadcasts have their types.
THEOREM MessagingTypes == MessagingSpec => []Types
<1>1. BP!Spec => []BP!TypeOK BY SameBroadcasts, MessagingAssumption, BP!TypeCorrect
<1>2. TypeOK /\ BP!TypeOK => Types
  BY DEF Types, B!TypeOK, B!Editable, B!Callers, B!Ops, BP!TypeOK, BP!Editable, BP!Callers, BP!Ops
<1> QED BY <1>1, <1>2, SideBySide, TypeCorrect, PTL

\* However requests, the cron and jobs interleave: one job at most sends a broadcast
\* and none while it may be edited, unless an edit met a status it had not loaded;
\* and what is being sent has a job or lost it for good.
THEOREM OneJobWhileSending == MessagingSpec => []JobFollowsStatus
<1>1. BP!Spec => []BP!JobFollowsStatus
  BY SameBroadcasts, MessagingAssumption, BP!OneJobWhileSending
<1>2. BP!JobFollowsStatus => JobFollowsStatus
  BY DEF JobFollowsStatus, B!JobFollowsStatus, B!OneRunner, B!SendingHasRunner, B!Runners,
         B!Editable, B!Callers, BP!JobFollowsStatus, BP!OneRunner, BP!SendingHasRunner,
         BP!Runners, BP!Editable, BP!Callers
<1> QED BY <1>1, <1>2, SideBySide, PTL

\* A recipient gets the message once, except for crashes between sending and
\* recording, and overlapping jobs.
THEOREM SentOnce == MessagingSpec => []NoDoubleSend
<1>1. BP!Spec => []BP!NoDoubleSend BY SameBroadcasts, MessagingAssumption, BP!SentOnce
<1>2. BP!NoDoubleSend => NoDoubleSend BY DEF NoDoubleSend, B!NoDoubleSend, BP!NoDoubleSend
<1> QED BY <1>1, <1>2, SideBySide, PTL

\* The counters are the numbers of recipients sent and failed, and what is done has
\* been tried for all.
THEOREM HonestRecords == MessagingSpec => []RecordsAreTrue
<1>1. BP!Spec => []BP!RecordsAreTrue BY SameBroadcasts, MessagingAssumption, BP!HonestRecords
<1>2. BP!RecordsAreTrue => RecordsAreTrue
  BY DEF RecordsAreTrue, B!RecordsAreTrue, B!CountersMatchRows, B!DoneMeansAll, B!Count,
         B!Pending, B!Cardinality, BP!RecordsAreTrue, BP!CountersMatchRows, BP!DoneMeansAll,
         BP!Count, BP!Pending, BP!Cardinality
<1> QED BY <1>1, <1>2, SideBySide, PTL

\* Nobody gets a text that is not the row's, and the cached photo is the last one.
THEOREM LatestContent == MessagingSpec => []ContentIsCurrent
<1>1. BP!Spec => []BP!ContentIsCurrent
  BY SameBroadcasts, MessagingAssumption, BP!LatestContent
<1>2. BP!ContentIsCurrent => ContentIsCurrent
  BY DEF ContentIsCurrent, B!ContentIsCurrent, B!OneText, B!PhotoIsCurrent, B!InHand,
         BP!ContentIsCurrent, BP!OneText, BP!PhotoIsCurrent, BP!InHand
<1> QED BY <1>1, <1>2, SideBySide, PTL
=============================================================================
