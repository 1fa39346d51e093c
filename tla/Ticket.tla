------------------------------- MODULE Ticket -------------------------------
(***************************************************************************)
(* Support tickets: the user's side of the bot (bot/app/handlers/          *)
(* support.py), the admins' side in the topics of the support group        *)
(* (support_admin.py, services/support_topic_helper.py) and the rows       *)
(* behind them (backend/app/services/ticket_service.py).                   *)
(*                                                                         *)
(* Updates are handled concurrently.  A handler is a job: what it read     *)
(* stays in the job while it waits for the backend, Telegram or Redis, and *)
(* each step is what happens between two waits.                            *)
(***************************************************************************)
EXTENDS Integers

CONSTANTS Users, Admins, None,
          Jobs,       \* handlers at work at once: a bound
          MaxTickets, \* tickets opened in all: a bound
          MaxTopics   \* topics made in all: a bound

ASSUME TicketAssumption ==
    /\ None \notin Users \cup Admins
    /\ MaxTickets \in Nat \ {0} /\ MaxTopics \in Nat \ {0}

Ids    == 1..MaxTickets
Topics == 1..MaxTopics  \* thread ids; 0 is the General topic of the group

VARIABLES ticket,  \* id -> user, open, topic_thread_id (0: none yet)
          topic,   \* user -> thread in support_topics, or 0
          owner,   \* thread -> the user it was made for
          gone,    \* threads deleted or closed in the group
          board,   \* messages mirrored: thread and ticket id on the buttons
          fsm,     \* user -> state and ticket_id of the dialogue
          wizard,  \* admin -> whom the next message in the group bans, and where
                   \* the ban was begun
          banned,  \* users
          job,     \* handlers at work
          event,   \* what the last step made visible
          missed,  \* users whose dialogue was not told that their ticket closed
          doubled  \* users for whom a topic was made while another was not saved

rows  == <<ticket, topic, banned>>
group == <<owner, gone, board>>
vars  == <<rows, group, fsm, wizard, job, event, missed, doubled>>

NoTicket == [user |-> None, open |-> FALSE, thread |-> 0]
Out      == [st |-> "none", id |-> 0]
NoWizard == [user |-> None, thread |-> 0]
Idle     == [h |-> "idle", user |-> None, admin |-> None, id |-> 0, thread |-> 0, why |-> "none"]
Quiet    == [kind |-> "none", user |-> None, thread |-> 0]

Init ==
    /\ ticket = [i \in Ids |-> NoTicket]
    /\ topic = [u \in Users |-> 0]
    /\ owner = [t \in Topics |-> None] /\ gone = {} /\ board = {}
    /\ fsm = [u \in Users |-> Out]
    /\ wizard = [a \in Admins |-> NoWizard]
    /\ banned = {}
    /\ job = [j \in Jobs |-> Idle]
    /\ event = Quiet /\ missed = {} /\ doubled = {}

-----------------------------------------------------------------------------
OpenOf(u) == {i \in Ids : ticket[i].user = u /\ ticket[i].open}

\* Ids and thread ids are given out in order.
NewId(i) == ticket[i].user = None /\ \A k \in Ids : k < i => ticket[k].user # None
NewTopic(t) == owner[t] = None /\ \A k \in Topics : k < t => owner[k] # None

\* Mutant: the last ticket of all.
NewestOfAll(t) == {i \in Ids : ticket[i].user # None
                               /\ \A k \in Ids : ticket[k].user # None => k <= i}

\* get_by_thread: the ticket opened last among those bound to the thread.
Newest(t) == {i \in Ids : /\ ticket[i].user # None /\ ticket[i].thread = t
                          /\ \A k \in Ids : /\ ticket[k].user # None
                                            /\ ticket[k].thread = t => k <= i}

Put(j, r) == job' = [job EXCEPT ![j] = r]
End(j)    == Put(j, Idle)
Step(j, h) == Put(j, [job[j] EXCEPT !.h = h])
Silent    == event' = Quiet
Tell(kind, u, t) == event' = [kind |-> kind, user |-> u, thread |-> t]

\* A handler starts.  Updates of a banned user are dropped, those of the
\* support group are not.
Begin(j, r) ==
    /\ job[j] = Idle /\ Put(j, r) /\ Silent
    /\ UNCHANGED <<rows, group, fsm, missed, doubled>>
FromUser(j, u, r) == u \notin banned /\ Begin(j, r) /\ UNCHANGED wizard
FromGroup(j, r)   == Begin(j, r) /\ UNCHANGED wizard

For(u, h, i) == [Idle EXCEPT !.h = h, !.user = u, !.id = i]

\* A dialogue is set to a ticket: it is out of date if the ticket is closed.
Heard(u, i) ==
    missed' = IF i \in Ids /\ ticket[i].open THEN missed \ {u} ELSE missed \cup {u}

-----------------------------------------------------------------------------
(* Opening                                                                 *)

\* cb_support, cb_idea find an open ticket ...
EnterBegin(j, u) == \E i \in OpenOf(u) : FromUser(j, u, For(u, "enter", i))

\* ... and show it before the dialogue is set.
Enter(j) ==
    /\ job[j].h = "enter"
    /\ fsm' = [fsm EXCEPT ![job[j].user] = [st |-> "in", id |-> job[j].id]]
    /\ Heard(job[j].user, job[j].id)
    /\ End(j) /\ Silent /\ UNCHANGED <<rows, group, wizard, doubled>>

\* cb_ticket_create; open_ticket looks for an open ticket first ...
CreateBegin(j, u) == OpenOf(u) = {} /\ FromUser(j, u, For(u, "insert", 0))

\* Mutant: the index is not unique.
InsertAnyway(j) ==
    /\ job[j].h = "insert"
    /\ LET u == job[j].user IN
       \E i \in Ids : /\ NewId(i)
                      /\ ticket' = [ticket EXCEPT ![i] = [NoTicket EXCEPT !.user = u, !.open = TRUE]]
                      /\ Put(j, For(u, "created", i)) \/ End(j)
    /\ Silent /\ UNCHANGED <<topic, banned, group, fsm, wizard, missed, doubled>>

\* ... then the partial unique index decides.  When the answer is lost the
\* request is sent again, and refused.
Insert(j) ==
    /\ job[j].h = "insert"
    /\ LET u == job[j].user IN
       \/ OpenOf(u) # {} /\ End(j) /\ UNCHANGED ticket
       \/ /\ OpenOf(u) = {}
          /\ \E i \in Ids :
                /\ NewId(i)
                /\ ticket' = [ticket EXCEPT ![i] = [NoTicket EXCEPT !.user = u, !.open = TRUE]]
                /\ Put(j, For(u, "created", i)) \/ End(j)
    /\ Silent /\ UNCHANGED <<topic, banned, group, fsm, wizard, missed, doubled>>

Created(j) ==
    /\ job[j].h = "created"
    /\ fsm' = [fsm EXCEPT ![job[j].user] = [st |-> "in", id |-> job[j].id]]
    /\ Heard(job[j].user, job[j].id)
    /\ Put(j, [job[j] EXCEPT !.h = "ensure", !.why = "create"])
    /\ Silent /\ UNCHANGED <<rows, group, wizard, doubled>>

-----------------------------------------------------------------------------
(* The topic                                                               *)

\* Mutant: the cache is not looked up by the user.
EnsureOfAnyone(j) ==
    /\ job[j].h = "ensure"
    /\ \/ \E u \in Users :
            /\ topic[u] # 0
            /\ Put(j, [job[j] EXCEPT !.h = "attach", !.thread = topic[u]])
            /\ UNCHANGED owner
       \/ /\ topic[job[j].user] = 0
          /\ \E t \in Topics :
                /\ NewTopic(t)
                /\ owner' = [owner EXCEPT ![t] = job[j].user]
                /\ Put(j, [job[j] EXCEPT !.h = "save", !.thread = t])
    /\ Silent /\ UNCHANGED <<rows, gone, board, fsm, wizard, missed, doubled>>

\* ensure_support_topic: the cached thread, or a new one, which is not in the
\* cache yet.
Ensure(j) ==
    /\ job[j].h = "ensure"
    /\ LET u == job[j].user IN
       \/ /\ topic[u] # 0
          /\ Put(j, [job[j] EXCEPT !.h = "attach", !.thread = topic[u]])
          /\ IF job[j].why = "mirror" THEN Tell("renewed", u, topic[u]) ELSE Silent
          /\ UNCHANGED <<owner, doubled>>
       \/ /\ topic[u] = 0
          /\ \E t \in Topics :
                /\ NewTopic(t)
                /\ owner' = [owner EXCEPT ![t] = u]
                /\ Put(j, [job[j] EXCEPT !.h = "save", !.thread = t])
          /\ doubled' = IF \E k \in Jobs : k # j /\ job[k].h = "save" /\ job[k].user = u
                        THEN doubled \cup {u} ELSE doubled
          /\ Silent
    /\ UNCHANGED <<rows, gone, board, fsm, wizard, missed>>

\* What a failure in here ends with: the message is not mirrored.
Fail(j) ==
    /\ End(j)
    /\ IF job[j].why = "mirror" THEN Tell("lost", job[j].user, job[j].thread) ELSE Silent

EnsureFails(j) ==
    /\ job[j].h = "ensure" /\ Fail(j)
    /\ UNCHANGED <<rows, group, fsm, wizard, missed, doubled>>

\* Mutant: the thread is not remembered.
SaveNot(j) ==
    /\ job[j].h = "save"
    /\ Step(j, "attach") /\ Silent
    /\ UNCHANGED <<rows, group, fsm, wizard, missed, doubled>>

\* save_support_topic overwrites what another handler saved.
Save(j) ==
    /\ job[j].h = "save"
    /\ topic' = [topic EXCEPT ![job[j].user] = job[j].thread]
    /\ Step(j, "attach") /\ Silent
    /\ UNCHANGED <<ticket, banned, group, fsm, wizard, missed, doubled>>

SaveFails(j) ==
    /\ job[j].h = "save"
    /\ \/ doubled' = doubled \cup {job[j].user} /\ UNCHANGED topic
       \/ topic' = [topic EXCEPT ![job[j].user] = job[j].thread] /\ UNCHANGED doubled
    /\ Fail(j) /\ UNCHANGED <<ticket, banned, group, fsm, wizard, missed>>

\* attach_topic_to_ticket; its failure is logged.
Attach(j) ==
    /\ job[j].h = "attach"
    /\ \/ ticket' = [ticket EXCEPT ![job[j].id].thread = job[j].thread]
       \/ UNCHANGED ticket
    /\ IF job[j].why = "mirror" THEN Step(j, "again") ELSE End(j)
    /\ Silent /\ UNCHANGED <<topic, banned, group, fsm, wizard, missed, doubled>>

-----------------------------------------------------------------------------
(* Messages of the user                                                    *)

\* msg_in_ticket: without an open ticket the dialogue is to be cleared; else the
\* message is recorded, which may fail, and mirrored.
MessageBegin(j, u) ==
    /\ fsm[u].st = "in"
    /\ \/ OpenOf(u) = {} /\ FromUser(j, u, For(u, "clear", 0))
       \/ \E i \in OpenOf(u) :
            FromUser(j, u, [For(u, "post", i) EXCEPT !.thread = ticket[i].thread,
                                                     !.why = "mirror"])

\* forward_user_message_to_topic: with buttons that carry the ticket's id.  A
\* ticket without a thread is mirrored in General.
Post(j) ==
    /\ job[j].h \in {"post", "again"} /\ job[j].thread \notin gone
    /\ board' = board \cup {[thread |-> job[j].thread, id |-> job[j].id]}
    /\ Tell("mirror", job[j].user, job[j].thread)
    /\ End(j) /\ UNCHANGED <<rows, owner, gone, fsm, wizard, missed, doubled>>

\* The topic is gone: it is asked for again, and the message sent once more.
PostAgain(j) ==
    /\ job[j].h = "post" /\ job[j].thread \in gone
    /\ Step(j, "ensure") /\ Silent
    /\ UNCHANGED <<rows, group, fsm, wizard, missed, doubled>>

PostFails(j) ==
    /\ job[j].h \in {"post", "again"} /\ Fail(j)
    /\ UNCHANGED <<rows, group, fsm, wizard, missed, doubled>>

-----------------------------------------------------------------------------
(* Closing                                                                 *)

\* msg_close_button and cb_ticket_close_no answer first; a message typed while
\* the question is open meets no handler.
AskBegin(j, u) == fsm[u].st = "in" /\ FromUser(j, u, For(u, "confirm", 0))
NoBegin(j, u)  == fsm[u].st = "confirm" /\ FromUser(j, u, For(u, "in", 0))

\* set_state leaves the data, which may have been cleared meanwhile.
SetState(j) ==
    /\ job[j].h \in {"confirm", "in"}
    /\ fsm' = [fsm EXCEPT ![job[j].user].st = job[j].h]
    /\ Heard(job[j].user, fsm[job[j].user].id)
    /\ End(j) /\ Silent /\ UNCHANGED <<rows, group, wizard, doubled>>

\* cb_ticket_close_yes closes the ticket of the dialogue.
YesBegin(j, u) ==
    /\ fsm[u].st = "confirm"
    /\ FromUser(j, u, For(u, IF fsm[u].id = 0 THEN "clear" ELSE "close", fsm[u].id))

\* Mutant: the handler of the close ends before the dialogue is cleared.
UserCloseOnly(j) ==
    /\ job[j].h = "close"
    /\ IF ticket[job[j].id].open
       THEN ticket' = [ticket EXCEPT ![job[j].id].open = FALSE] /\ End(j) /\ UNCHANGED missed
       ELSE End(j) /\ UNCHANGED <<ticket, missed>>
    /\ Silent /\ UNCHANGED <<topic, banned, group, fsm, wizard, doubled>>

\* A ticket that is closed already, or a backend that does not answer, leave the
\* dialogue where it is; so does a lost answer, after the close.
UserClose(j) ==
    /\ job[j].h = "close"
    /\ \/ /\ ticket[job[j].id].open
          /\ ticket' = [ticket EXCEPT ![job[j].id].open = FALSE]
          /\ \/ Step(j, "clear") /\ UNCHANGED missed
             \/ End(j) /\ missed' = missed \cup {job[j].user}
       \/ End(j) /\ UNCHANGED <<ticket, missed>>
    /\ Silent /\ UNCHANGED <<topic, banned, group, fsm, wizard, doubled>>

\* state.clear: whatever the dialogue is by now.
Clear(j) ==
    /\ job[j].h = "clear"
    /\ fsm' = [fsm EXCEPT ![job[j].user] = Out]
    /\ missed' = missed \ {job[j].user}
    /\ End(j) /\ Silent /\ UNCHANGED <<rows, group, wizard, doubled>>

\* Another dialogue of the user begins.
Leave(u) ==
    /\ u \notin banned /\ fsm[u] # Out
    /\ fsm' = [fsm EXCEPT ![u] = Out]
    /\ missed' = missed \ {u}
    /\ Silent /\ UNCHANGED <<rows, group, wizard, job, doubled>>

\* cmd_close: the newest ticket of the topic, if it is open.
CloseBegin(j, t) ==
    \E i \in Newest(t) : /\ ticket[i].open
                         /\ FromGroup(j, [For(ticket[i].user, "aclose", i) EXCEPT !.thread = t])

\* cb_admin_close: the button says which ticket, but the newest of the thread is
\* closed; only where there is none, as in General, the one on the button is, and
\* then nobody knows whose it is.
PressClose(j, b) ==
    LET found == IF b.thread = 0 THEN {} ELSE Newest(b.thread)
    IN  \/ \E i \in found :
            FromGroup(j, [For(ticket[i].user, "aclose", i) EXCEPT !.thread = b.thread])
        \/ found = {} /\ FromGroup(j, [For(None, "aclose", b.id) EXCEPT !.thread = b.thread])

\* _close_ticket_flow: the ticket, then the user's dialogue.
AdminClose(j) ==
    /\ job[j].h = "aclose"
    /\ LET i == job[j].id
           u == ticket[i].user
       IN  \/ /\ ticket[i].open
              /\ ticket' = [ticket EXCEPT ![i].open = FALSE]
              /\ Tell("closed", u, job[j].thread)
              /\ \/ job[j].user # None /\ Step(j, "reset") /\ UNCHANGED missed
                 \/ End(j) /\ missed' = missed \cup {u}
           \/ End(j) /\ Silent /\ UNCHANGED <<ticket, missed>>
    /\ UNCHANGED <<topic, banned, group, fsm, wizard, doubled>>

\* _reset_user_after_admin_close, if Redis answers.
Reset(j) ==
    /\ job[j].h = "reset"
    /\ \/ fsm' = [fsm EXCEPT ![job[j].user] = Out] /\ missed' = missed \ {job[j].user}
       \/ missed' = missed \cup {job[j].user} /\ UNCHANGED fsm
    /\ End(j) /\ Silent /\ UNCHANGED <<rows, group, wizard, doubled>>

-----------------------------------------------------------------------------
(* Replies and bans                                                        *)

\* msg_admin_in_topic; while a ban waits for its reason a message is that.
ReplyBegin(j, a, t) ==
    /\ wizard[a] = NoWizard
    /\ \E i \in Newest(t) : /\ ticket[i].open
                            /\ FromGroup(j, [For(ticket[i].user, "reply", i) EXCEPT !.thread = t])

Reply(j) ==
    /\ job[j].h = "reply"
    /\ Tell("reply", job[j].user, job[j].thread) \/ Silent
    /\ End(j) /\ UNCHANGED <<rows, group, fsm, wizard, missed, doubled>>

\* cb_admin_ban: the user of the newest ticket of the topic; the question is sent
\* before the wizard is set.
PressBan(j, a, b) ==
    /\ b.thread # 0
    /\ \E i \in Newest(b.thread) :
        FromGroup(j, [For(ticket[i].user, "ask", i) EXCEPT !.admin = a, !.thread = b.thread])

AskReason(j) ==
    /\ job[j].h = "ask"
    /\ wizard' = [wizard EXCEPT ![job[j].admin] = [user |-> job[j].user, thread |-> job[j].thread]]
    /\ End(j) /\ Silent /\ UNCHANGED <<rows, group, fsm, missed, doubled>>

\* msg_admin_ban_reason: the next message of the admin, in whatever topic.
Reason(j, a) ==
    /\ wizard[a] # NoWizard
    /\ Begin(j, [For(wizard[a].user, "ban", 0) EXCEPT !.thread = wizard[a].thread])
    /\ wizard' = [wizard EXCEPT ![a] = NoWizard]

CancelBan(a) ==
    /\ wizard[a] # NoWizard
    /\ wizard' = [wizard EXCEPT ![a] = NoWizard]
    /\ Silent /\ UNCHANGED <<rows, group, fsm, job, missed, doubled>>

\* cmd_ban and cmd_unban act on the newest ticket's user, be it open or not.
Command(j, t, h) ==
    \E i \in Newest(t) : FromGroup(j, [For(ticket[i].user, h, i) EXCEPT !.thread = t])

Ban(j) ==
    /\ job[j].h \in {"ban", "unban"}
    /\ \/ /\ banned' = IF job[j].h = "ban" THEN banned \cup {job[j].user}
                       ELSE banned \ {job[j].user}
          /\ Tell(job[j].h, job[j].user, job[j].thread)
       \/ UNCHANGED banned /\ Silent
    /\ End(j) /\ UNCHANGED <<ticket, topic, group, fsm, wizard, missed, doubled>>

\* An admin deletes or closes a topic in the group.
Delete(t) ==
    /\ owner[t] # None /\ t \notin gone
    /\ gone' = gone \cup {t}
    /\ Silent /\ UNCHANGED <<rows, owner, board, fsm, wizard, job, missed, doubled>>

-----------------------------------------------------------------------------
UserStarts(j, u) ==
    \/ EnterBegin(j, u) \/ CreateBegin(j, u) \/ MessageBegin(j, u)
    \/ AskBegin(j, u) \/ NoBegin(j, u) \/ YesBegin(j, u)

GroupStarts(j) ==
    \/ \E t \in Topics \ gone :
        CloseBegin(j, t) \/ \E h \in {"ban", "unban"} : Command(j, t, h)
    \/ \E b \in board : PressClose(j, b)
    \/ \E a \in Admins :
        \/ Reason(j, a)
        \/ \E t \in Topics \ gone : ReplyBegin(j, a, t)
        \/ \E b \in board : PressBan(j, a, b)

Goes(j) ==
    \/ Enter(j) \/ Insert(j) \/ Created(j)
    \/ Ensure(j) \/ EnsureFails(j) \/ Save(j) \/ SaveFails(j) \/ Attach(j)
    \/ Post(j) \/ PostAgain(j) \/ PostFails(j)
    \/ SetState(j) \/ UserClose(j) \/ Clear(j) \/ AdminClose(j) \/ Reset(j)
    \/ Reply(j) \/ AskReason(j) \/ Ban(j)

Next ==
    \/ \E j \in Jobs : Goes(j) \/ GroupStarts(j) \/ \E u \in Users : UserStarts(j, u)
    \/ \E u \in Users : Leave(u)
    \/ \E a \in Admins : CancelBan(a)
    \/ \E t \in Topics : Delete(t)

Spec == Init /\ [][Next]_vars

-----------------------------------------------------------------------------
Handlers == {"idle", "enter", "insert", "created", "ensure", "save", "attach", "post", "again",
             "clear", "confirm", "in", "close", "aclose", "reset", "reply", "ask", "ban",
             "unban"}
Person   == Users \cup {None}
Thread   == Topics \cup {0}

\* Types; the buttons are of tickets that exist, and a ticket is bound to a topic
\* made for its user.
TypeOK ==
    /\ ticket \in [Ids -> [user : Person, open : BOOLEAN, thread : Thread]]
    /\ topic \in [Users -> Thread]
    /\ owner \in [Topics -> Person]
    /\ gone \subseteq Topics
    /\ board \subseteq [thread : Thread, id : Ids]
    /\ fsm \in [Users -> [st : {"none", "in", "confirm"}, id : Ids \cup {0}]]
    /\ wizard \in [Admins -> [user : Person, thread : Thread]]
    /\ job \in [Jobs -> [h : Handlers, user : Person, admin : Admins \cup {None},
                         id : Ids \cup {0}, thread : Thread,
                         why : {"none", "create", "mirror"}]]
    /\ event \in [kind : {"none", "mirror", "renewed", "lost", "closed", "reply", "ban", "unban"},
                  user : Person, thread : Thread]
    /\ banned \subseteq Users /\ missed \subseteq Users /\ doubled \subseteq Users
    /\ \A b \in board : ticket[b.id].user # None
    /\ \A i \in Ids : ticket[i].thread # 0 => owner[ticket[i].thread] = ticket[i].user

\* A user has one open ticket at most, however many requests race.
OneOpenTicket ==
    \A i, k \in Ids : ticket[i].open /\ ticket[k].open /\ ticket[i].user = ticket[k].user
                        => i = k

\* Messages, replies, closings and bans that start in a topic are about the user
\* the topic was made for, although tickets and threads are bound late, and
\* handlers act on what they read before.
TopicsArePrivate ==
    event.kind \in {"mirror", "closed", "reply", "ban", "unban"}
        => event.thread = 0 \/ owner[event.thread] = event.user

\* A dialogue about a ticket is about one that is open, unless a handler is about
\* to end it, or the closing could not tell it.
DialogueFollowsTicket ==
    \A u \in Users :
        fsm[u].st # "none" =>
            \/ fsm[u].id # 0 /\ ticket[fsm[u].id].open
            \/ u \in missed
            \/ \E j \in Jobs : job[j].h \in {"clear", "reset"} /\ job[j].user = u

\* A user gets a second topic only if the first could not be saved, or two
\* handlers made one at the same time.
OneTopic ==
    \A s, t \in Topics : owner[s] # None /\ owner[s] = owner[t] => s = t \/ owner[s] \in doubled

\* "Recovers transparently when the cached topic was deleted/closed: creates a
\* fresh one": the topic a message is sent to again is there.
GoneIsReplaced == event.kind = "renewed" => event.thread \notin gone
=============================================================================
