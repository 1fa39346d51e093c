------------------------------ MODULE Broadcast ------------------------------
(***************************************************************************)
(* One broadcast: the row admins edit (backend/app/api/admin/              *)
(* broadcasts.py), the cron that promotes it when it is due, and the jobs  *)
(* that send it (worker/app/tasks/broadcasts.py).                          *)
(*                                                                         *)
(* No endpoint locks the row: each loads it, checks its status and writes, *)
(* later, the columns whose values differ from the loaded ones.  A job     *)
(* takes recipients in batches and reads the row again before each.        *)
(***************************************************************************)
EXTENDS Integers, FiniteSets

CONSTANTS Users,    \* ids of users: a batch is taken in this order
          Jobs,     \* jobs put on the queue, in all
          Admins, Cron,
          Batch,    \* recipients in a batch
          MaxDeaths,\* worker restarts during a job
          MaxEdits, \* versions of the text, and of the photo
          MaxCalls  \* requests of the admins: a bound

BroadcastAssumption ==
    /\ Users \subseteq Nat /\ IsFiniteSet(Users)
    /\ Cron \notin Admins
    /\ {Batch, MaxEdits} \subseteq Nat \ {0} /\ {MaxDeaths, MaxCalls} \subseteq Nat

VARIABLES status, due,  \* columns of the row: status, scheduled_at,
          text, photo,  \* versions of html_text and of the file at photo_path,
          file,         \* photo_file_id: the version Telegram cached, or 0,
          sent, failed, \* and the two counters
          rec,          \* user -> status of the row in broadcast_recipients
          got,          \* user -> messages that arrived
          flag,         \* key broadcast:cancel:<id> in Redis
          job,          \* job -> where it is and what it holds
          call,         \* admin or cron -> where it is and what it loaded
          calls,        \* requests of the admins so far
          deaths,       \* worker restarts so far
          lost,         \* users whose message went out without being recorded
          stuck,        \* no job was enqueued, or the job was given up
          raced,        \* an edit met a status other than the one it had loaded
          swapped       \* a photo was uploaded while a batch was going out, or while
                        \* the job cached the old one

row    == <<status, due, text, photo, file>>
counts == <<sent, failed, rec>>
toll   == <<calls, deaths, lost, stuck>>
ghosts == <<toll, raced, swapped>>
vars   == <<row, counts, got, flag, job, call, ghosts>>

Callers == Admins \cup {Cron}
Ops     == {"text", "schedule", "send", "cancel", "photo"}
Editable == {"draft", "scheduled"}

Nothing == [at |-> "idle", rest |-> {}, text |-> 0, photo |-> 0, file |-> 0, ok |-> FALSE]
Resting == [at |-> "idle", op |-> "text", status |-> "draft", due |-> "none", file |-> 0]

Count(s) == Cardinality({u \in Users : rec[u] = s})
Pending  == {u \in Users : rec[u] = "pending"}

\* ORDER BY id LIMIT 25
Front(S) == {u \in S : Cardinality({v \in S : v < u}) < Batch}
NextOf(S) == CHOOSE u \in S : \A v \in S : u <= v

Init ==
    /\ status = "draft" /\ due = "none"
    /\ text = 1 /\ photo \in {0, 1} /\ file = 0
    /\ sent = 0 /\ failed = 0 /\ rec = [u \in Users |-> "none"]
    /\ got = [u \in Users |-> 0]
    /\ flag = FALSE
    /\ job = [j \in Jobs |-> Nothing]
    /\ call = [c \in Callers |-> Resting]
    /\ calls = 0 /\ deaths = 0 /\ lost = {} /\ stuck = FALSE /\ raced = FALSE /\ swapped = FALSE

Put(j, r)  == job' = [job EXCEPT ![j] = r]
Turn(c, r) == call' = [call EXCEPT ![c] = r]

-----------------------------------------------------------------------------
(* Admin endpoints and the cron                                            *)

\* Mutant: a broadcast that is being sent can be sent.
AllowedAgain(op) ==
    CASE op = "photo"  -> TRUE
      [] op \in {"cancel", "send"} -> status \in Editable \cup {"sending"}
      [] OTHER         -> status \in Editable

\* Which endpoints accept the status.
Allowed(op) ==
    CASE op = "photo"  -> TRUE
      [] op = "cancel" -> status \in Editable \cup {"sending"}
      [] OTHER         -> status \in Editable

\* The endpoint loads the row and passes its check; a cancellation of a running
\* broadcast raises the flag, if Redis answers.
Load(a, op) ==
    /\ call[a].at = "idle" /\ Allowed(op)
    /\ calls < MaxCalls /\ calls' = calls + 1
    /\ flag' \in {flag, flag \/ (op = "cancel" /\ status = "sending")}
    /\ Turn(a, [at |-> "loaded", op |-> op, status |-> status, due |-> due, file |-> file])
    /\ UNCHANGED <<row, counts, got, job, deaths, lost, stuck, raced, swapped>>

\* A column is sent to the database when its value differs from the loaded one.
Written(loaded, new, column) == IF new = loaded THEN column ELSE new

\* What the session loaded is no longer what the row says.
Stale(a) == call[a].status # status

CommitCancel(a) ==
    /\ call[a].at = "loaded" /\ call[a].op = "cancel"
    /\ status' = "cancelled"
    /\ Turn(a, Resting)
    /\ UNCHANGED <<due, text, photo, file, counts, got, flag, job, ghosts>>

\* send: the job is enqueued after the commit.
CommitSend(a) ==
    /\ call[a].at = "loaded" /\ call[a].op = "send"
    /\ status' = "sending"
    /\ due' = Written(call[a].due, "none", due)
    /\ raced' = (raced \/ Stale(a))
    /\ Turn(a, [call[a] EXCEPT !.at = "enqueue"])
    /\ UNCHANGED <<text, photo, file, counts, got, flag, job, toll, swapped>>

\* schedule, or PATCH with scheduled_at: a row loaded as scheduled keeps the
\* status it has by now.
CommitSchedule(a, time) ==
    /\ call[a].at = "loaded" /\ call[a].op = "schedule"
    /\ status' = Written(call[a].status, "scheduled", status)
    /\ due' = time
    /\ raced' = (raced \/ Stale(a))
    /\ Turn(a, Resting)
    /\ UNCHANGED <<text, photo, file, counts, got, flag, job, toll, swapped>>

\* PATCH of the text.
CommitText(a) ==
    /\ call[a].at = "loaded" /\ call[a].op = "text" /\ text < MaxEdits
    /\ text' = text + 1
    /\ raced' = (raced \/ Stale(a))
    /\ Turn(a, Resting)
    /\ UNCHANGED <<status, due, photo, file, counts, got, flag, job, toll, swapped>>

\* A job is going through a batch.
InHand == \E j \in Jobs : job[j].at \in {"send", "record"}

\* Mutant: the cached file is kept.
CommitPhotoKeeping(a) ==
    /\ call[a].at = "loaded" /\ call[a].op = "photo" /\ photo < MaxEdits
    /\ photo' = photo + 1
    /\ swapped' = (swapped \/ InHand \/ call[a].file # file)
    /\ Turn(a, Resting)
    /\ UNCHANGED <<status, due, text, file, counts, got, flag, job, toll, raced>>

\* An upload replaces the file and forgets what Telegram cached; in any status.
CommitPhoto(a) ==
    /\ call[a].at = "loaded" /\ call[a].op = "photo" /\ photo < MaxEdits
    /\ photo' = photo + 1
    /\ file' = Written(call[a].file, 0, file)
    /\ swapped' = (swapped \/ InHand \/ call[a].file # file)
    /\ Turn(a, Resting)
    /\ UNCHANGED <<status, due, text, counts, got, flag, job, toll, raced>>

\* The request fails, or the process dies, before the commit.
Drop(a) ==
    /\ call[a].at = "loaded"
    /\ Turn(a, Resting)
    /\ UNCHANGED <<row, counts, got, flag, job, ghosts>>

Passes ==
    /\ due = "later" /\ due' = "now"
    /\ UNCHANGED <<status, text, photo, file, counts, got, flag, job, call, ghosts>>

\* pick_scheduled_broadcasts: promotes under a lock, and enqueues after it.
Pick ==
    /\ call[Cron].at = "idle" /\ status = "scheduled" /\ due = "now"
    /\ status' = "sending"
    /\ Turn(Cron, [Resting EXCEPT !.at = "enqueue"])
    /\ UNCHANGED <<due, text, photo, file, counts, got, flag, job, ghosts>>

Enqueue(c, j) ==
    /\ call[c].at = "enqueue" /\ job[j].at = "idle"
    /\ Put(j, [Nothing EXCEPT !.at = "queued"])
    /\ Turn(c, Resting)
    /\ UNCHANGED <<row, counts, got, flag, ghosts>>

\* The queue does not take the job, which is logged; or the process dies.
EnqueueFails(c) ==
    /\ call[c].at = "enqueue"
    /\ stuck' = TRUE
    /\ Turn(c, Resting)
    /\ UNCHANGED <<row, counts, got, flag, job, deaths, lost, raced, swapped, calls>>

FlagExpires ==
    /\ flag /\ flag' = FALSE
    /\ UNCHANGED <<row, counts, got, job, call, ghosts>>

-----------------------------------------------------------------------------
(* run_broadcast                                                           *)

\* Mutant: recipients are written whenever the job starts.
StartAfresh(j, chosen) ==
    /\ job[j].at = "queued"
    /\ IF status = "sending"
          THEN /\ rec' = [u \in Users |-> IF u \in chosen THEN "pending" ELSE "none"]
               /\ Put(j, [Nothing EXCEPT !.at = "loop"])
          ELSE Put(j, [Nothing EXCEPT !.at = "over"]) /\ UNCHANGED rec
    /\ UNCHANGED <<row, sent, failed, got, flag, call, ghosts>>

\* The row is locked, its status checked, and the recipients written once:
\* whoever is in the target and not banned at that moment.
Start(j, chosen) ==
    /\ job[j].at = "queued"
    /\ IF status = "sending"
          THEN /\ rec' = IF \A u \in Users : rec[u] = "none"
                            THEN [u \in Users |-> IF u \in chosen THEN "pending" ELSE "none"]
                            ELSE rec
               /\ Put(j, [Nothing EXCEPT !.at = "loop"])
          ELSE Put(j, [Nothing EXCEPT !.at = "over"]) /\ UNCHANGED rec
    /\ UNCHANGED <<row, sent, failed, got, flag, call, ghosts>>

\* The flag is seen, before the row is read.
SeeFlag(j) ==
    /\ job[j].at = "loop" /\ flag
    /\ Put(j, [Nothing EXCEPT !.at = "cancel"])
    /\ UNCHANGED <<row, counts, got, flag, call, ghosts>>

\* Mutant: recipients that failed are tried again.
FetchFailed(j) ==
    /\ job[j].at = "loop"
    /\ LET some == Pending \cup {u \in Users : rec[u] = "failed"}
       IN  IF status # "sending"
              THEN Put(j, [Nothing EXCEPT !.at = "over"])
           ELSE IF some = {}
              THEN Put(j, [Nothing EXCEPT !.at = "finish"])
           ELSE Put(j, [at |-> "send", rest |-> Front(some), text |-> text,
                        photo |-> photo, file |-> file, ok |-> FALSE])
    /\ UNCHANGED <<row, counts, got, flag, call, ghosts>>

\* No flag, or Redis does not answer: the next batch and the row are read.
Fetch(j) ==
    /\ job[j].at = "loop"
    /\ IF status # "sending"
          THEN Put(j, [Nothing EXCEPT !.at = "over"])
       ELSE IF Pending = {}
          THEN Put(j, [Nothing EXCEPT !.at = "finish"])
       ELSE Put(j, [at |-> "send", rest |-> Front(Pending), text |-> text,
                    photo |-> photo, file |-> file, ok |-> FALSE])
    /\ UNCHANGED <<row, counts, got, flag, call, ghosts>>

\* One message: it arrives or not, and Telegram's answer says so or not.
Send(j, arrives, ok) ==
    /\ job[j].at = "send" /\ job[j].rest # {} /\ (ok => arrives)
    /\ got' = [got EXCEPT ![NextOf(job[j].rest)] = IF arrives THEN @ + 1 ELSE @]
    /\ Put(j, [job[j] EXCEPT !.at = "record", !.ok = ok])
    /\ UNCHANGED <<row, counts, flag, call, ghosts>>

\* What the next message of the batch starts from.
After(j, id) ==
    LET left == job[j].rest \ {NextOf(job[j].rest)}
    IN  IF left = {} THEN [Nothing EXCEPT !.at = "loop"]
        ELSE [job[j] EXCEPT !.at = "send", !.rest = left, !.ok = FALSE, !.file = id]

\* One transaction: the recipient, the counter, and the id of a photo that was
\* uploaded by this message, where none is cached yet.
Record(j) ==
    /\ job[j].at = "record"
    /\ LET u  == NextOf(job[j].rest)
           id == IF job[j].ok /\ job[j].file = 0 THEN job[j].photo ELSE job[j].file
       IN  /\ rec' = [rec EXCEPT ![u] = IF job[j].ok THEN "sent" ELSE "failed"]
           /\ sent' = IF job[j].ok THEN sent + 1 ELSE sent
           /\ failed' = IF job[j].ok THEN failed ELSE failed + 1
           /\ file' = IF job[j].ok /\ job[j].file = 0 /\ file = 0 THEN id ELSE file
           /\ Put(j, After(j, id))
    /\ UNCHANGED <<status, due, text, photo, got, flag, call, ghosts>>

\* _finalize: whatever the status is by now.
Finalize(j) ==
    /\ job[j].at \in {"cancel", "finish"}
    /\ status' = IF job[j].at = "cancel" THEN "cancelled" ELSE "done"
    /\ Put(j, [Nothing EXCEPT !.at = "over"])
    /\ UNCHANGED <<due, text, photo, file, counts, got, flag, call, ghosts>>

Unrecorded(j) == IF job[j].at = "record" THEN {NextOf(job[j].rest)} ELSE {}
Running(j)    == job[j].at \notin {"idle", "queued", "over"}

\* The worker is restarted: the job stays on the queue and runs again.
Die(j) ==
    /\ Running(j) /\ deaths < MaxDeaths
    /\ deaths' = deaths + 1
    /\ lost' = lost \cup Unrecorded(j)
    /\ Put(j, [Nothing EXCEPT !.at = "queued"])
    /\ UNCHANGED <<row, counts, got, flag, call, stuck, raced, swapped, calls>>

\* The job's time is up, or it was tried too often: it is not run again.
GiveUp(j) ==
    /\ Running(j)
    /\ stuck' = TRUE
    /\ lost' = lost \cup Unrecorded(j)
    /\ Put(j, [Nothing EXCEPT !.at = "over"])
    /\ UNCHANGED <<row, counts, got, flag, call, deaths, raced, swapped, calls>>

-----------------------------------------------------------------------------
Endpoint(a) ==
    \/ \E op \in Ops : Load(a, op)
    \/ CommitCancel(a) \/ CommitSend(a) \/ CommitText(a) \/ CommitPhoto(a) \/ Drop(a)
    \/ \E time \in {"later", "now"} : CommitSchedule(a, time)

Work(j) ==
    \/ \E chosen \in SUBSET Users : Start(j, chosen)
    \/ SeeFlag(j) \/ Fetch(j) \/ Record(j) \/ Finalize(j)
    \/ \E arrives, ok \in BOOLEAN : Send(j, arrives, ok)
    \/ Die(j) \/ GiveUp(j)

Next ==
    \/ \E a \in Admins : Endpoint(a)
    \/ Pick \/ Passes \/ FlagExpires
    \/ \E c \in Callers : EnqueueFails(c) \/ \E j \in Jobs : Enqueue(c, j)
    \/ \E j \in Jobs : Work(j)

Spec == Init /\ [][Next]_vars

-----------------------------------------------------------------------------
\* Types; what is scheduled has a time.
TypeOK ==
    /\ status \in Editable \cup {"sending", "done", "cancelled"}
    /\ due \in {"none", "later", "now"}
    /\ status = "scheduled" => due # "none"
    /\ text \in 1..MaxEdits /\ photo \in 0..MaxEdits /\ file \in 0..MaxEdits
    /\ sent \in Nat /\ failed \in Nat
    /\ rec \in [Users -> {"none", "pending", "sent", "failed"}]
    /\ got \in [Users -> Nat]
    /\ flag \in BOOLEAN
    /\ job \in [Jobs -> [at : {"idle", "queued", "loop", "send", "record", "cancel", "finish",
                               "over"},
                         rest : SUBSET Users, text : 0..MaxEdits, photo : 0..MaxEdits,
                         file : 0..MaxEdits, ok : BOOLEAN]]
    /\ call \in [Callers -> [at : {"idle", "loaded", "enqueue"}, op : Ops,
                             status : Editable \cup {"sending", "done", "cancelled"},
                             due : {"none", "later", "now"}, file : 0..MaxEdits]]
    /\ calls \in 0..MaxCalls /\ deaths \in 0..MaxDeaths /\ lost \subseteq Users
    /\ {stuck, raced, swapped} \subseteq BOOLEAN

\* Jobs on the queue or at work, and callers about to enqueue one.
Runners ==
    {j \in Jobs : job[j].at \notin {"idle", "over"}}
        \cup {c \in Callers : call[c].at = "enqueue"}

\* Unless an admin's edit raced with another change of the status, one job at
\* most works on the broadcast, and none while it may be edited.
OneRunner ==
    ~raced => /\ \A x, y \in Runners : x = y
              /\ status \in Editable => Runners = {}

\* A user gets the message once, except when a worker stopped between sending
\* it and recording it, or when two jobs were at work.
NoDoubleSend == \A u \in Users : got[u] > 1 => raced \/ u \in lost

\* The counters the admin sees are the numbers of recipients sent and failed.
CountersMatchRows == raced \/ (sent = Count("sent") /\ failed = Count("failed"))

\* A broadcast that is done has been tried for every recipient.
DoneMeansAll == status = "done" => raced \/ Pending = {}

\* What is being sent has a job that will finish it, or lost it for good.
SendingHasRunner == status = "sending" => stuck \/ Runners # {}

\* Nobody gets a text that is not the row's.
OneText == InHand => raced \/ \A j \in Jobs : job[j].rest # {} => job[j].text = text

\* The photo Telegram caches is the one uploaded last, unless it was uploaded
\* while a batch was going out.
PhotoIsCurrent == file \in {0, photo} \/ swapped

\* A broadcast has a job exactly while it is being sent.
JobFollowsStatus == OneRunner /\ SendingHasRunner

\* What the admin sees of a broadcast is so.
RecordsAreTrue == CountersMatchRows /\ DoneMeansAll

\* What users get is what the admins entered last.
ContentIsCurrent == OneText /\ PhotoIsCurrent
=============================================================================
