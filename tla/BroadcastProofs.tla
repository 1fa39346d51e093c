--------------------------- MODULE BroadcastProofs ---------------------------
(***************************************************************************)
(* Proofs about a broadcast, for any users, jobs, admins, batches and      *)
(* restarts.                                                               *)
(*                                                                         *)
(* All but one of the properties rest on there being one job at most and   *)
(* none while the broadcast may be edited (Sole): then nobody else changes *)
(* the recipients a job has in hand (InHandIs), nor the text.  That        *)
(* somebody works on what is being sent (Served) and that a cached photo   *)
(* is current (Cached) need no such luck.                                  *)
(***************************************************************************)
EXTENDS Broadcast, FiniteSetTheorems, WellFoundedInduction, TLAPS

JobRec ==
    [at : {"idle", "queued", "loop", "send", "record", "cancel", "finish", "over"},
     rest : SUBSET Users, text : 0..MaxEdits, photo : 0..MaxEdits,
     file : 0..MaxEdits, ok : BOOLEAN]

CallRec ==
    [at : {"idle", "loaded", "enqueue"}, op : Ops,
     status : Editable \cup {"sending", "done", "cancelled"},
     due : {"none", "later", "now"}, file : 0..MaxEdits]

Runs(j)  == job[j].at \notin {"idle", "over"}
Hands(j) == job[j].at \in {"send", "record"}
Waits(c) == call[c].at = "enqueue"

\* What a request has loaded.
Loaded(c) ==
    /\ call[c].at = "loaded" /\ call[c].op \in {"text", "schedule", "send"}
            => call[c].status \in Editable
    /\ call[c].at = "loaded" /\ call[c].status = "scheduled" => call[c].due # "none"

\* One job at most, queued, at work or about to be enqueued; none while the
\* broadcast may be edited.
Sole ==
    ~raced =>
        /\ \A j, k \in Jobs : Runs(j) /\ Runs(k) => j = k
        /\ \A c, d \in Callers : Waits(c) /\ Waits(d) => c = d
        /\ \A j \in Jobs, c \in Callers : ~(Runs(j) /\ Waits(c))
        /\ status \in Editable => /\ \A j \in Jobs : ~Runs(j)
                                  /\ \A c \in Callers : ~Waits(c)

Served ==
    status = "sending" =>
        stuck \/ (\E j \in Jobs : Runs(j)) \/ (\E c \in Callers : Waits(c))

\* What a job has in hand is not yet tried, and is the row's text.
InHandIs ==
    /\ \A j \in Jobs : Hands(j) <=> job[j].rest # {}
    /\ ~raced => \A j \in Jobs :
        /\ \A u \in job[j].rest : rec[u] = "pending"
        /\ Hands(j) => job[j].text = text
        /\ job[j].at = "finish" => Pending = {}

\* Who was not tried has no message, unless it is the one being recorded.
GotOnce ==
    ~raced => \A u \in Users \ lost :
        /\ got[u] <= 1
        /\ rec[u] \in {"none", "pending"} =>
              got[u] = 0 \/ \E j \in Jobs : job[j].at = "record" /\ u = NextOf(job[j].rest)

\* Photos in hand and in the cache.
Cached ==
    ~swapped =>
        /\ file \in {0, photo}
        /\ \A j \in Jobs : Hands(j) => job[j].photo = photo /\ job[j].file \in {0, photo}

Typed == TypeOK /\ \A c \in Callers : Loaded(c)

IInv ==
    /\ Typed /\ Sole /\ Served /\ InHandIs /\ GotOnce /\ Cached
    /\ CountersMatchRows /\ DoneMeansAll

-----------------------------------------------------------------------------
\* A set of natural numbers has a least element, which NextOf chooses.
LEMMA LeastIn ==
  ASSUME NEW R, NEW S, S \subseteq Nat, S # {}, IsWellFoundedOn(R, Nat),
         \A u, v \in S : v < u => <<v, u>> \in R
  PROVE  \E u \in S : \A v \in S : u <= v
<1>1. PICK u \in S : \A v \in S : ~(<<v, u>> \in R) BY WFMin
<1>2. \A v \in S : ~(v < u) BY <1>1
<1>3. \A v \in S : u <= v BY <1>2, u \in Nat
<1> QED BY <1>3

\* NextOf chooses a member.
LEMMA NextOfIn ==
  ASSUME NEW S, S \subseteq Nat, S # {}
  PROVE  NextOf(S) \in S /\ \A v \in S : NextOf(S) <= v
<1> DEFINE R == OpToRel(<, Nat)
<1>1. IsWellFoundedOn(R, Nat) BY NatLessThanWellFounded
<1>2. \A u, v \in S : v < u => <<v, u>> \in R BY DEF OpToRel
<1> HIDE DEF R
<1>3. \E u \in S : \A v \in S : u <= v BY <1>1, <1>2, LeastIn
<1> QED BY <1>3 DEF NextOf

\* A batch of a set that is not empty is not empty.
LEMMA FrontIn ==
  ASSUME NEW S, S \subseteq Nat, S # {}, Batch \in Nat \ {0}
  PROVE  Front(S) \subseteq S /\ Front(S) # {}
<1>1. NextOf(S) \in S /\ \A v \in S : NextOf(S) <= v BY NextOfIn
<1>2. {v \in S : v < NextOf(S)} = {}
  <2>1. \A m \in S : (\A v \in S : m <= v) => \A v \in S : ~(v < m) OBVIOUS
  <2>2. \A v \in S : ~(v < NextOf(S)) BY <1>1, <2>1
  <2> QED BY <2>2
<1>3. Cardinality({v \in S : v < NextOf(S)}) < Batch BY <1>2, FS_EmptySet
<1> QED BY <1>1, <1>3 DEF Front

\* What an action that moves one job leaves of the others.
LEMMA PutFacts ==
  ASSUME TypeOK, NEW j \in Jobs, NEW r \in JobRec, Put(j, r)
  PROVE  /\ job' \in [Jobs -> JobRec] /\ job'[j] = r
         /\ \A k \in Jobs : k # j => job'[k] = job[k]
<1>1. job \in [Jobs -> JobRec] BY DEF TypeOK, JobRec
<1> HIDE DEF JobRec
<1> QED BY <1>1 DEF Put

\* A job that holds nothing.
LEMMA NothingAt ==
  ASSUME BroadcastAssumption,
         NEW s \in {"queued", "loop", "cancel", "finish", "over"}
  PROVE  /\ [Nothing EXCEPT !.at = s] \in JobRec
         /\ [Nothing EXCEPT !.at = s].at = s /\ [Nothing EXCEPT !.at = s].rest = {}
<1>1. 0 \in 0..MaxEdits BY DEF BroadcastAssumption
<1>2. Nothing \in JobRec /\ Nothing.rest = {} BY <1>1 DEF Nothing, JobRec
<1>3. \A r \in JobRec : /\ [r EXCEPT !.at = s] \in JobRec
                        /\ [r EXCEPT !.at = s].at = s /\ [r EXCEPT !.at = s].rest = r.rest
  BY DEF JobRec
<1> QED BY <1>2, <1>3

\* What an action that moves one request leaves of the others.
LEMMA TurnFacts ==
  ASSUME TypeOK, NEW c \in Callers, NEW r \in CallRec, Turn(c, r)
  PROVE  /\ call' \in [Callers -> CallRec] /\ call'[c] = r
         /\ \A d \in Callers : d # c => call'[d] = call[d]
<1>1. call \in [Callers -> CallRec] BY DEF TypeOK, CallRec
<1> HIDE DEF CallRec
<1> QED BY <1>1 DEF Turn

\* A request that rests, or that waits to enqueue a job.
LEMMA CallRecs ==
  ASSUME BroadcastAssumption, TypeOK, NEW c \in Callers
  PROVE  /\ Resting \in CallRec /\ Resting.at = "idle"
         /\ [Resting EXCEPT !.at = "enqueue"] \in CallRec
         /\ [Resting EXCEPT !.at = "enqueue"].at = "enqueue"
         /\ [call[c] EXCEPT !.at = "enqueue"] \in CallRec
         /\ [call[c] EXCEPT !.at = "enqueue"].at = "enqueue"
BY DEF BroadcastAssumption, TypeOK, Resting, CallRec, Ops, Editable

LEMMA InitInv == ASSUME BroadcastAssumption PROVE Init => IInv
<1> SUFFICES ASSUME Init PROVE IInv OBVIOUS
<1>1. TypeOK
  <2>1. 0 \in 0..MaxEdits /\ 1 \in 1..MaxEdits /\ 1 \in 0..MaxEdits
        /\ 0 \in 0..MaxCalls /\ 0 \in 0..MaxDeaths
    BY DEF BroadcastAssumption
  <2>2. Nothing \in JobRec /\ Resting \in CallRec
    BY <2>1 DEF Nothing, JobRec, Resting, CallRec, Ops, Editable
  <2>3. job \in [Jobs -> JobRec] /\ call \in [Callers -> CallRec] BY <2>2 DEF Init
  <2> QED BY <2>1, <2>3 DEF Init, TypeOK, JobRec, CallRec, Editable
<1>2. (\A c \in Callers : call[c].at = "idle") /\ \A j \in Jobs : job[j].at = "idle" /\ job[j].rest = {}
  BY DEF Init, Resting, Nothing
<1>3. (\A c \in Callers : Loaded(c)) /\ Sole /\ Served
  BY <1>2 DEF Init, Loaded, Sole, Served, Runs, Waits
<1>4. InHandIs /\ GotOnce /\ Cached
  BY <1>2 DEF Init, InHandIs, GotOnce, Cached, Hands
<1>5. CountersMatchRows /\ DoneMeansAll
  <2>1. {u \in Users : rec[u] = "sent"} = {} /\ {u \in Users : rec[u] = "failed"} = {}
    BY DEF Init
  <2> QED BY <2>1, FS_EmptySet DEF Init, CountersMatchRows, DoneMeansAll, Count
<1> QED BY <1>1, <1>3, <1>4, <1>5 DEF IInv, Typed

-----------------------------------------------------------------------------
(* The admins' requests and the cron, which leave jobs and recipients alone. *)

\* What they leave of the rest.
LEMMA Elsewhere ==
  ASSUME IInv, UNCHANGED <<counts, got, job, lost>>, raced => raced',
         text' = text \/ (~raced' => \A j \in Jobs : ~Hands(j)),
         status' # "done" \/ status' = status
  PROVE  InHandIs' /\ GotOnce' /\ CountersMatchRows' /\ DoneMeansAll'
<1> USE DEF IInv, counts
<1>1. Pending' = Pending /\ \A s : Count(s)' = Count(s) BY DEF Pending, Count
<1>2. InHandIs' BY <1>1 DEF InHandIs, Hands
<1>3. GotOnce' BY DEF GotOnce
<1>4. CountersMatchRows' /\ DoneMeansAll' BY <1>1 DEF CountersMatchRows, DoneMeansAll
<1> QED BY <1>2, <1>3, <1>4

\* A request that no longer waits or never did, and a status that is no more
\* editable than it was.
LEMMA SoleStays ==
  ASSUME IInv, UNCHANGED job, raced => raced',
         \A c \in Callers : Waits(c)' => Waits(c),
         ~raced' /\ status' \in Editable => status \in Editable
  PROVE  Sole'
BY DEF IInv, Sole, Runs

\* Nobody who works on the broadcast stops.
LEMMA ServedStays ==
  ASSUME IInv, UNCHANGED job, stuck => stuck',
         \A c \in Callers : Waits(c) => Waits(c)' \/ stuck',
         status' = "sending" => status = "sending" \/ \E c \in Callers : Waits(c)'
  PROVE  Served'
BY DEF IInv, Served, Runs

\* What is loaded was allowed.
LEMMA LoadStep ==
  ASSUME BroadcastAssumption, IInv, NEW a \in Admins, NEW op \in Ops, Load(a, op)
  PROVE  IInv'
<1> DEFINE r == [at |-> "loaded", op |-> op, status |-> status, due |-> due, file |-> file]
<1> USE DEF Load, IInv, Typed, row, counts, toll, ghosts
<1>1. TypeOK /\ a \in Callers BY DEF Callers
<1>2. r \in CallRec BY <1>1 DEF TypeOK, CallRec
<1> HIDE DEF r
<1>3. /\ call' \in [Callers -> CallRec] /\ call'[a] = r
      /\ \A d \in Callers : d # a => call'[d] = call[d]
  BY <1>1, <1>2, TurnFacts DEF r
<1>9. r.at = "loaded" /\ r.op = op /\ r.status = status /\ r.due = due BY DEF r
<1>4. Typed'
  <2>0. calls' \in 0..MaxCalls /\ flag' \in BOOLEAN
    <3>1. calls' \in 0..MaxCalls BY DEF TypeOK, BroadcastAssumption
    <3>2. flag' \in BOOLEAN BY DEF TypeOK
    <3> QED BY <3>1, <3>2
  <2>1. TypeOK' BY <1>1, <1>3, <2>0 DEF TypeOK, CallRec
  <2>2. \A d \in Callers : Loaded(d)' BY <1>1, <1>3, <1>9 DEF Loaded, Allowed, TypeOK, Ops
  <2> QED BY <2>1, <2>2
<1>5. InHandIs' /\ GotOnce' /\ CountersMatchRows' /\ DoneMeansAll' BY Elsewhere
<1>6. Sole' BY <1>3, <1>9, SoleStays DEF Waits
<1>7. Served' BY <1>3, <1>9, ServedStays DEF Waits
<1>8. Cached' BY DEF Cached, Hands
<1> QED BY <1>4, <1>5, <1>6, <1>7, <1>8

\* A cancelled broadcast cannot be edited.
LEMMA CancelStep ==
  ASSUME BroadcastAssumption, IInv, NEW a \in Admins, CommitCancel(a)
  PROVE  IInv'
<1> USE DEF CommitCancel, IInv, Typed, row, counts, toll, ghosts
<1>1. TypeOK /\ a \in Callers BY DEF Callers
<1>2. Resting \in CallRec /\ Resting.at = "idle" BY <1>1, CallRecs
<1>3. /\ call' \in [Callers -> CallRec] /\ call'[a] = Resting
      /\ \A d \in Callers : d # a => call'[d] = call[d]
  BY <1>1, <1>2, TurnFacts
<1>4. Typed'
  <2>1. TypeOK' BY <1>1, <1>3 DEF TypeOK, CallRec
  <2>2. \A d \in Callers : Loaded(d)' BY <1>1, <1>2, <1>3 DEF Loaded
  <2> QED BY <2>1, <2>2
<1>5. InHandIs' /\ GotOnce' /\ CountersMatchRows' /\ DoneMeansAll' BY Elsewhere
<1>6. Sole' BY <1>2, <1>3, SoleStays DEF Waits, Editable
<1>7. Served' BY <1>2, <1>3, ServedStays DEF Waits
<1>8. Cached' BY DEF Cached, Hands
<1> QED BY <1>4, <1>5, <1>6, <1>7, <1>8

\* What was editable and is still has nobody at work.
LEMMA SendStep ==
  ASSUME BroadcastAssumption, IInv, NEW a \in Admins, CommitSend(a)
  PROVE  IInv'
<1> USE DEF CommitSend, IInv, Typed, row, counts, toll, ghosts
<1>1. TypeOK /\ a \in Callers BY DEF Callers
<1>2. [call[a] EXCEPT !.at = "enqueue"] \in CallRec /\ [call[a] EXCEPT !.at = "enqueue"].at = "enqueue"
  BY <1>1, CallRecs
<1>3. /\ call' \in [Callers -> CallRec] /\ call'[a] = [call[a] EXCEPT !.at = "enqueue"]
      /\ \A d \in Callers : d # a => call'[d] = call[d]
  BY <1>1, <1>2, TurnFacts
<1>4. Typed'
  <2>1. TypeOK' BY <1>1, <1>3 DEF TypeOK, CallRec, Written
  <2>2. \A d \in Callers : Loaded(d)' BY <1>1, <1>2, <1>3 DEF Loaded
  <2> QED BY <2>1, <2>2
<1>5. InHandIs' /\ GotOnce' /\ CountersMatchRows' /\ DoneMeansAll' BY Elsewhere
<1>6. Sole'
  <2>1. ~raced' => status \in Editable BY <1>1 DEF Loaded, Stale
  <2>2. ~raced' => (\A j \in Jobs : ~Runs(j)) /\ \A d \in Callers : ~Waits(d)
    BY <2>1 DEF Sole
  <2>3. \A d \in Callers : Waits(d)' => Waits(d) \/ d = a BY <1>3 DEF Waits
  <2>4. status' \notin Editable BY DEF Editable
  <2> QED BY <2>2, <2>3, <2>4 DEF Sole, Runs
<1>7. Served' BY <1>1, <1>2, <1>3 DEF Served, Waits
<1>8. Cached' BY DEF Cached, Hands
<1> QED BY <1>4, <1>5, <1>6, <1>7, <1>8

\* So it is with a schedule.
LEMMA ScheduleStep ==
  ASSUME BroadcastAssumption, IInv, NEW a \in Admins, NEW time \in {"later", "now"}, CommitSchedule(a, time)
  PROVE  IInv'
<1> USE DEF CommitSchedule, IInv, Typed, row, counts, toll, ghosts
<1>1. TypeOK /\ a \in Callers BY DEF Callers
<1>2. Resting \in CallRec /\ Resting.at = "idle" BY <1>1, CallRecs
<1>3. /\ call' \in [Callers -> CallRec] /\ call'[a] = Resting
      /\ \A d \in Callers : d # a => call'[d] = call[d]
  BY <1>1, <1>2, TurnFacts
<1>9. status' = status \/ status' = "scheduled" BY DEF Written
<1>4. Typed'
  <2>1. TypeOK' BY <1>1, <1>3 DEF TypeOK, CallRec, Written, Editable
  <2>2. \A d \in Callers : Loaded(d)' BY <1>1, <1>2, <1>3 DEF Loaded
  <2> QED BY <2>1, <2>2
<1>5. InHandIs' /\ GotOnce' /\ CountersMatchRows' /\ DoneMeansAll' BY <1>9, Elsewhere
<1>6. Sole' BY <1>2, <1>3, <1>1, <1>9, SoleStays DEF Waits, Loaded, Stale
<1>7. Served' BY <1>2, <1>3, <1>9, ServedStays DEF Waits
<1>8. Cached' BY DEF Cached, Hands
<1> QED BY <1>4, <1>5, <1>6, <1>7, <1>8

\* A text is replaced while nobody has it in hand.
LEMMA TextStep ==
  ASSUME BroadcastAssumption, IInv, NEW a \in Admins, CommitText(a)
  PROVE  IInv'
<1> USE DEF CommitText, IInv, Typed, row, counts, toll, ghosts
<1>1. TypeOK /\ a \in Callers BY DEF Callers
<1>2. Resting \in CallRec /\ Resting.at = "idle" BY <1>1, CallRecs
<1>3. /\ call' \in [Callers -> CallRec] /\ call'[a] = Resting
      /\ \A d \in Callers : d # a => call'[d] = call[d]
  BY <1>1, <1>2, TurnFacts
<1>9. ~raced' => \A j \in Jobs : ~Hands(j)
  BY <1>1 DEF Loaded, Stale, Sole, Runs, Hands
<1>4. Typed'
  <2>0. text' \in 1..MaxEdits BY DEF TypeOK, BroadcastAssumption
  <2>1. TypeOK' BY <1>1, <1>3, <2>0 DEF TypeOK, CallRec
  <2>2. \A d \in Callers : Loaded(d)' BY <1>1, <1>2, <1>3 DEF Loaded
  <2> QED BY <2>1, <2>2
<1>5. InHandIs' /\ GotOnce' /\ CountersMatchRows' /\ DoneMeansAll' BY <1>9, Elsewhere
<1>6. Sole' BY <1>2, <1>3, SoleStays DEF Waits
<1>7. Served' BY <1>2, <1>3, ServedStays DEF Waits
<1>8. Cached' BY DEF Cached, Hands
<1> QED BY <1>4, <1>5, <1>6, <1>7, <1>8

\* A new photo empties the cache, or is marked as swapped.
LEMMA PhotoStep ==
  ASSUME BroadcastAssumption, IInv, NEW a \in Admins, CommitPhoto(a)
  PROVE  IInv'
<1> USE DEF CommitPhoto, IInv, Typed, row, counts, toll, ghosts
<1>1. TypeOK /\ a \in Callers BY DEF Callers
<1>2. Resting \in CallRec /\ Resting.at = "idle" BY <1>1, CallRecs
<1>3. /\ call' \in [Callers -> CallRec] /\ call'[a] = Resting
      /\ \A d \in Callers : d # a => call'[d] = call[d]
  BY <1>1, <1>2, TurnFacts
<1>4. Typed'
  <2>0. photo' \in 0..MaxEdits /\ file' \in 0..MaxEdits
    BY DEF TypeOK, BroadcastAssumption, Written
  <2>1. TypeOK' BY <1>1, <1>3, <2>0 DEF TypeOK, CallRec
  <2>2. \A d \in Callers : Loaded(d)' BY <1>1, <1>2, <1>3 DEF Loaded
  <2> QED BY <2>1, <2>2
<1>5. InHandIs' /\ GotOnce' /\ CountersMatchRows' /\ DoneMeansAll' BY Elsewhere
<1>6. Sole' BY <1>2, <1>3, SoleStays DEF Waits
<1>7. Served' BY <1>2, <1>3, ServedStays DEF Waits
<1>8. Cached' BY DEF Cached, InHand, Hands, Written
<1> QED BY <1>4, <1>5, <1>6, <1>7, <1>8

\* A request that fails changes nothing.
LEMMA DropStep ==
  ASSUME BroadcastAssumption, IInv, NEW a \in Admins, Drop(a)
  PROVE  IInv'
<1> USE DEF Drop, IInv, Typed, row, counts, toll, ghosts
<1>1. TypeOK /\ a \in Callers BY DEF Callers
<1>2. Resting \in CallRec /\ Resting.at = "idle" BY <1>1, CallRecs
<1>3. /\ call' \in [Callers -> CallRec] /\ call'[a] = Resting
      /\ \A d \in Callers : d # a => call'[d] = call[d]
  BY <1>1, <1>2, TurnFacts
<1>4. Typed'
  <2>1. TypeOK' BY <1>1, <1>3 DEF TypeOK, CallRec
  <2>2. \A d \in Callers : Loaded(d)' BY <1>1, <1>2, <1>3 DEF Loaded
  <2> QED BY <2>1, <2>2
<1>5. InHandIs' /\ GotOnce' /\ CountersMatchRows' /\ DoneMeansAll' BY Elsewhere
<1>6. Sole' BY <1>2, <1>3, SoleStays DEF Waits
<1>7. Served' BY <1>2, <1>3, ServedStays DEF Waits
<1>8. Cached' BY DEF Cached, Hands
<1> QED BY <1>4, <1>5, <1>6, <1>7, <1>8

\* A job that was not enqueued is marked as stuck.
LEMMA EnqueueFailsStep ==
  ASSUME BroadcastAssumption, IInv, NEW c \in Callers, EnqueueFails(c)
  PROVE  IInv'
<1> USE DEF EnqueueFails, IInv, Typed, row, counts, toll, ghosts
<1>1. TypeOK /\ c \in Callers BY DEF Callers
<1>2. Resting \in CallRec /\ Resting.at = "idle" BY <1>1, CallRecs
<1>3. /\ call' \in [Callers -> CallRec] /\ call'[c] = Resting
      /\ \A d \in Callers : d # c => call'[d] = call[d]
  BY <1>1, <1>2, TurnFacts
<1>4. Typed'
  <2>1. TypeOK' BY <1>1, <1>3 DEF TypeOK, CallRec
  <2>2. \A d \in Callers : Loaded(d)' BY <1>1, <1>2, <1>3 DEF Loaded
  <2> QED BY <2>1, <2>2
<1>5. InHandIs' /\ GotOnce' /\ CountersMatchRows' /\ DoneMeansAll' BY Elsewhere
<1>6. Sole' BY <1>2, <1>3, SoleStays DEF Waits
<1>7. Served' BY <1>2, <1>3, ServedStays DEF Waits
<1>8. Cached' BY DEF Cached, Hands
<1> QED BY <1>4, <1>5, <1>6, <1>7, <1>8

\* The cron promotes what has nobody at work.
LEMMA PickStep ==
  ASSUME BroadcastAssumption, IInv, Pick
  PROVE  IInv'
<1> USE DEF Pick, IInv, Typed, row, counts, toll, ghosts
<1>1. TypeOK /\ Cron \in Callers BY DEF Callers
<1>2. [Resting EXCEPT !.at = "enqueue"] \in CallRec /\ [Resting EXCEPT !.at = "enqueue"].at = "enqueue"
  BY <1>1, CallRecs
<1>3. /\ call' \in [Callers -> CallRec] /\ call'[Cron] = [Resting EXCEPT !.at = "enqueue"]
      /\ \A d \in Callers : d # Cron => call'[d] = call[d]
  BY <1>1, <1>2, TurnFacts
<1>4. Typed'
  <2>1. TypeOK' BY <1>1, <1>3 DEF TypeOK, CallRec
  <2>2. \A d \in Callers : Loaded(d)' BY <1>1, <1>2, <1>3 DEF Loaded
  <2> QED BY <2>1, <2>2
<1>5. InHandIs' /\ GotOnce' /\ CountersMatchRows' /\ DoneMeansAll' BY Elsewhere
<1>6. Sole' BY <1>1, <1>2, <1>3 DEF Sole, Runs, Waits, Editable
<1>7. Served' BY <1>1, <1>2, <1>3 DEF Served, Waits
<1>8. Cached' BY DEF Cached, Hands
<1> QED BY <1>4, <1>5, <1>6, <1>7, <1>8

\* Time changes neither.
LEMMA ClockStep ==
  ASSUME BroadcastAssumption, IInv, Passes \/ FlagExpires
  PROVE  IInv'
<1> USE DEF Passes, FlagExpires, IInv, Typed, row, counts, toll, ghosts
<1>1. Typed' BY DEF TypeOK, Loaded
<1>2. InHandIs' /\ GotOnce' /\ CountersMatchRows' /\ DoneMeansAll' BY Elsewhere
<1>3. Sole' /\ Served' /\ Cached' BY DEF Sole, Served, Cached, Runs, Waits, Hands
<1> QED BY <1>1, <1>2, <1>3

-----------------------------------------------------------------------------
(* Jobs *)

\* A job that puts down what it has in hand, or had nothing.
LEMMA PutsDown ==
  ASSUME IInv, NEW j \in Jobs, NEW r \in JobRec, job'[j] = r,
         \A k \in Jobs : k # j => job'[k] = job[k],
         r.at \in {"queued", "loop", "cancel", "over"}, r.rest = {},
         Runs(j),
         UNCHANGED <<text, photo, file, counts, got, call, raced, swapped>>,
         lost \subseteq lost', job[j].at = "record" => NextOf(job[j].rest) \in lost',
         stuck => stuck', r.at = "over" => stuck' \/ status' # "sending",
         status' = status \/ (status' = "cancelled" /\ job[j].at = "cancel")
                          \/ (status' = "done" /\ job[j].at = "finish")
  PROVE  /\ Sole' /\ Served' /\ InHandIs' /\ GotOnce' /\ Cached'
         /\ CountersMatchRows' /\ DoneMeansAll'
<1> USE DEF IInv, counts
<1>1. Pending' = Pending /\ \A t : Count(t)' = Count(t) BY DEF Pending, Count
<1>2. \A k \in Jobs : Runs(k)' => Runs(k) BY DEF Runs
<1>3. \A c \in Callers : Waits(c)' <=> Waits(c) BY DEF Waits
<1>4. Sole' BY <1>2, <1>3 DEF Sole, Editable
<1>5. Served' BY <1>3 DEF Served, Runs
<1>6. InHandIs' BY <1>1 DEF InHandIs, Hands
<1>7. GotOnce' BY DEF GotOnce
<1>8. Cached' BY DEF Cached, Hands
<1>9. CountersMatchRows' BY <1>1 DEF CountersMatchRows
<1>10. DoneMeansAll' BY <1>1 DEF DoneMeansAll, InHandIs
<1> QED BY <1>4, <1>5, <1>6, <1>7, <1>8, <1>9, <1>10

\* The next recipient of a batch is one of it.
LEMMA NextInHand ==
  ASSUME BroadcastAssumption, IInv, NEW j \in Jobs, job[j].rest # {}
  PROVE  NextOf(job[j].rest) \in job[j].rest /\ job[j].rest \subseteq Users
<1>1. job[j].rest \subseteq Users BY DEF IInv, Typed, TypeOK
<1>2. job[j].rest \subseteq Nat BY <1>1 DEF BroadcastAssumption
<1> QED BY <1>1, <1>2, NextOfIn

\* A job that sees the flag is about to cancel.
LEMMA SeeFlagStep ==
  ASSUME BroadcastAssumption, IInv, NEW j \in Jobs, SeeFlag(j)
  PROVE  IInv'
<1> DEFINE r == [Nothing EXCEPT !.at = "cancel"]
<1> USE DEF IInv, Typed, row, counts, toll, ghosts, SeeFlag
<1>1. TypeOK OBVIOUS
<1>2. r \in JobRec /\ r.at = "cancel" /\ r.rest = {} BY NothingAt
<1> HIDE DEF r
<1>a. Put(j, r) BY DEF r
<1>3. /\ job' \in [Jobs -> JobRec] /\ job'[j] = r
      /\ \A k \in Jobs : k # j => job'[k] = job[k]
  BY <1>1, <1>2, <1>a, PutFacts
<1>4. Typed'
  <2>1. TypeOK' BY <1>1, <1>3 DEF TypeOK, JobRec
  <2>2. \A c \in Callers : Loaded(c)' BY DEF Loaded
  <2> QED BY <2>1, <2>2
<1>5. /\ Sole' /\ Served' /\ InHandIs' /\ GotOnce' /\ Cached'
      /\ CountersMatchRows' /\ DoneMeansAll'
  BY <1>1, <1>2, <1>3, PutsDown DEF Runs
<1> QED BY <1>4, <1>5

\* The last batch was the last one.
LEMMA FinalizeStep ==
  ASSUME BroadcastAssumption, IInv, NEW j \in Jobs, Finalize(j)
  PROVE  IInv'
<1> DEFINE r == [Nothing EXCEPT !.at = "over"]
<1> USE DEF IInv, Typed, row, counts, toll, ghosts, Finalize
<1>1. TypeOK OBVIOUS
<1>2. r \in JobRec /\ r.at = "over" /\ r.rest = {} BY NothingAt
<1> HIDE DEF r
<1>a. Put(j, r) BY DEF r
<1>3. /\ job' \in [Jobs -> JobRec] /\ job'[j] = r
      /\ \A k \in Jobs : k # j => job'[k] = job[k]
  BY <1>1, <1>2, <1>a, PutFacts
<1>4. Typed'
  <2>1. TypeOK' BY <1>1, <1>3 DEF TypeOK, JobRec, Editable
  <2>2. \A c \in Callers : Loaded(c)' BY DEF Loaded
  <2> QED BY <2>1, <2>2
<1>5. /\ Sole' /\ Served' /\ InHandIs' /\ GotOnce' /\ Cached'
      /\ CountersMatchRows' /\ DoneMeansAll'
  BY <1>1, <1>2, <1>3, PutsDown DEF Runs
<1> QED BY <1>4, <1>5
\* A restarted job begins anew; what it had sent is lost or recorded.
LEMMA DieStep ==
  ASSUME BroadcastAssumption, IInv, NEW j \in Jobs, Die(j)
  PROVE  IInv'
<1> DEFINE r == [Nothing EXCEPT !.at = "queued"]
<1> USE DEF IInv, Typed, row, counts, toll, ghosts, Die
<1>1. TypeOK OBVIOUS
<1>2. r \in JobRec /\ r.at = "queued" /\ r.rest = {} BY NothingAt
<1> HIDE DEF r
<1>a. Put(j, r) BY DEF r
<1>3. /\ job' \in [Jobs -> JobRec] /\ job'[j] = r
      /\ \A k \in Jobs : k # j => job'[k] = job[k]
  BY <1>1, <1>2, <1>a, PutFacts
<1>9. lost' \subseteq Users /\ (job[j].at = "record" => NextOf(job[j].rest) \in lost')
  BY NextInHand DEF Unrecorded, InHandIs, Hands, TypeOK
<1>10. deaths' \in 0..MaxDeaths BY DEF TypeOK, BroadcastAssumption
<1>4. Typed'
  <2>1. TypeOK' BY <1>1, <1>3, <1>9, <1>10 DEF TypeOK, JobRec
  <2>2. \A c \in Callers : Loaded(c)' BY DEF Loaded
  <2> QED BY <2>1, <2>2
<1>5. /\ Sole' /\ Served' /\ InHandIs' /\ GotOnce' /\ Cached'
      /\ CountersMatchRows' /\ DoneMeansAll'
  BY <1>1, <1>2, <1>3, <1>9, PutsDown DEF Running, Runs
<1> QED BY <1>4, <1>5

\* So it is with a job that is given up.
LEMMA GiveUpStep ==
  ASSUME BroadcastAssumption, IInv, NEW j \in Jobs, GiveUp(j)
  PROVE  IInv'
<1> DEFINE r == [Nothing EXCEPT !.at = "over"]
<1> USE DEF IInv, Typed, row, counts, toll, ghosts, GiveUp
<1>1. TypeOK OBVIOUS
<1>2. r \in JobRec /\ r.at = "over" /\ r.rest = {} BY NothingAt
<1> HIDE DEF r
<1>a. Put(j, r) BY DEF r
<1>3. /\ job' \in [Jobs -> JobRec] /\ job'[j] = r
      /\ \A k \in Jobs : k # j => job'[k] = job[k]
  BY <1>1, <1>2, <1>a, PutFacts
<1>9. lost' \subseteq Users /\ (job[j].at = "record" => NextOf(job[j].rest) \in lost')
  BY NextInHand DEF Unrecorded, InHandIs, Hands, TypeOK
<1>4. Typed'
  <2>1. TypeOK' BY <1>1, <1>3, <1>9 DEF TypeOK, JobRec
  <2>2. \A c \in Callers : Loaded(c)' BY DEF Loaded
  <2> QED BY <2>1, <2>2
<1>5. /\ Sole' /\ Served' /\ InHandIs' /\ GotOnce' /\ Cached'
      /\ CountersMatchRows' /\ DoneMeansAll'
  BY <1>1, <1>2, <1>3, <1>9, PutsDown DEF Running, Runs
<1> QED BY <1>4, <1>5

\* Who waited has a job in his place.
LEMMA EnqueueStep ==
  ASSUME BroadcastAssumption, IInv, NEW c \in Callers, NEW j \in Jobs, Enqueue(c, j)
  PROVE  IInv'
<1> DEFINE r == [Nothing EXCEPT !.at = "queued"]
<1> USE DEF IInv, Typed, row, counts, toll, ghosts, Enqueue
<1>1. TypeOK OBVIOUS
<1>2. /\ r \in JobRec /\ r.at = "queued" /\ r.rest = {}
      /\ Resting \in CallRec /\ Resting.at = "idle"
  BY NothingAt, CallRecs
<1> HIDE DEF r
<1>a. Put(j, r) BY DEF r
<1>3. /\ job' \in [Jobs -> JobRec] /\ job'[j] = r
      /\ \A k \in Jobs : k # j => job'[k] = job[k]
  BY <1>1, <1>2, <1>a, PutFacts
<1>4. /\ call' \in [Callers -> CallRec] /\ call'[c] = Resting
      /\ \A d \in Callers : d # c => call'[d] = call[d]
  BY <1>1, <1>2, TurnFacts
<1>5. Typed'
  <2>1. TypeOK' BY <1>1, <1>3, <1>4 DEF TypeOK, JobRec, CallRec
  <2>2. \A d \in Callers : Loaded(d)' BY <1>2, <1>4 DEF Loaded
  <2> QED BY <2>1, <2>2
<1>6. Sole' BY <1>2, <1>3, <1>4 DEF Sole, Runs, Waits
<1>7. Served' BY <1>2, <1>3 DEF Served, Runs
<1>8. Pending' = Pending /\ \A t : Count(t)' = Count(t) BY DEF Pending, Count
<1>9. InHandIs' /\ Cached' BY <1>2, <1>3, <1>8 DEF InHandIs, Cached, Hands
<1>10. GotOnce' BY <1>3 DEF GotOnce
<1>11. CountersMatchRows' /\ DoneMeansAll' BY <1>8 DEF CountersMatchRows, DoneMeansAll
<1> QED BY <1>5, <1>6, <1>7, <1>9, <1>10, <1>11

\* Recipients are written once: nobody was tried before.
LEMMA StartStep ==
  ASSUME BroadcastAssumption, IInv, NEW j \in Jobs, NEW chosen \in SUBSET Users, Start(j, chosen)
  PROVE  IInv'
<1> DEFINE at == IF status = "sending" THEN "loop" ELSE "over"
<1> DEFINE r == [Nothing EXCEPT !.at = at]
<1> USE DEF IInv, Typed, row, ghosts, toll, Start
<1>1. TypeOK OBVIOUS
<1>2. r \in JobRec /\ r.at = at /\ r.rest = {} BY NothingAt
<1>a. Put(j, r) OBVIOUS
<1> HIDE DEF r
<1>3. /\ job' \in [Jobs -> JobRec] /\ job'[j] = r
      /\ \A k \in Jobs : k # j => job'[k] = job[k]
  BY <1>1, <1>2, <1>a, PutFacts
<1>4. CASE UNCHANGED rec
  <2>1. Typed'
    <3>1. TypeOK' BY <1>1, <1>3, <1>4 DEF TypeOK, JobRec
    <3>2. \A c \in Callers : Loaded(c)' BY DEF Loaded
    <3> QED BY <3>1, <3>2
  <2> QED BY <1>1, <1>2, <1>3, <1>4, <2>1, PutsDown DEF Runs, counts
<1>5. CASE ~UNCHANGED rec
  <2>1. /\ status = "sending" /\ \A u \in Users : rec[u] = "none"
        /\ rec' = [u \in Users |-> IF u \in chosen THEN "pending" ELSE "none"]
    BY <1>5
  <2>2. Typed'
    <3>1. rec' \in [Users -> {"none", "pending", "sent", "failed"}] BY <2>1
    <3>2. TypeOK' BY <1>1, <1>3, <3>1 DEF TypeOK, JobRec
    <3>3. \A c \in Callers : Loaded(c)' BY DEF Loaded
    <3> QED BY <3>2, <3>3
  <2>3. Sole' BY <1>2, <1>3, <2>1 DEF Sole, Runs, Waits, Editable
  <2>4. Served' BY <1>2, <1>3, <2>1 DEF Served, Runs
  <2>5. InHandIs'
    <3>1. ~raced => \A k \in Jobs : k # j => ~Runs(k) BY DEF Sole, Runs
    <3>2. \A k \in Jobs : Hands(k)' <=> job'[k].rest # {}
      BY <1>2, <1>3, <2>1 DEF InHandIs, Hands
    <3> QED BY <1>2, <1>3, <2>1, <3>1, <3>2 DEF InHandIs, Hands, Runs
  <2>6. GotOnce' BY <1>3, <2>1 DEF GotOnce
  <2>7. Cached' BY <1>2, <1>3, <2>1 DEF Cached, Hands
  <2>8. CountersMatchRows'
    <3>1. \A t \in {"sent", "failed"} :
             {u \in Users : rec[u] = t} = {} /\ {u \in Users : rec'[u] = t} = {}
      BY <2>1
    <3> QED BY <3>1 DEF CountersMatchRows, Count
  <2>9. DoneMeansAll' BY <2>1 DEF DoneMeansAll
  <2> QED BY <2>2, <2>3, <2>4, <2>5, <2>6, <2>7, <2>8, <2>9
<1> QED BY <1>4, <1>5

\* A batch is of recipients that are pending, with the text and photo of the row.
LEMMA FetchStep ==
  ASSUME BroadcastAssumption, IInv, NEW j \in Jobs, Fetch(j)
  PROVE  IInv'
<1> USE DEF IInv, Typed, row, counts, ghosts, toll, Fetch
<1>1. TypeOK OBVIOUS
<1>2. CASE status # "sending"
  <2> DEFINE r == [Nothing EXCEPT !.at = "over"]
  <2>1. r \in JobRec /\ r.at = "over" /\ r.rest = {} BY NothingAt
  <2>2. Put(j, r) BY <1>2
  <2> HIDE DEF r
  <2>3. /\ job' \in [Jobs -> JobRec] /\ job'[j] = r
        /\ \A k \in Jobs : k # j => job'[k] = job[k]
    BY <1>1, <2>1, <2>2, PutFacts
  <2>4. Typed'
    <3>1. TypeOK' BY <1>1, <2>3 DEF TypeOK, JobRec
    <3>2. \A c \in Callers : Loaded(c)' BY DEF Loaded
    <3> QED BY <3>1, <3>2
  <2> QED BY <1>1, <1>2, <2>1, <2>3, <2>4, PutsDown DEF Runs
<1>3. CASE status = "sending"
  <2> DEFINE r == IF Pending = {} THEN [Nothing EXCEPT !.at = "finish"]
                  ELSE [at |-> "send", rest |-> Front(Pending), text |-> text,
                        photo |-> photo, file |-> file, ok |-> FALSE]
  <2>1. Put(j, r) BY <1>3
  <2>2. Pending # {} => Front(Pending) \subseteq Pending /\ Front(Pending) # {}
    BY FrontIn DEF Pending, BroadcastAssumption
  <2>3. /\ r \in JobRec /\ r.at = (IF Pending = {} THEN "finish" ELSE "send")
        /\ r.rest \subseteq Pending /\ (r.rest # {} <=> r.at = "send")
        /\ r.at = "send" => r.text = text /\ r.photo = photo /\ r.file = file
    <3>1. CASE Pending = {} BY <3>1, NothingAt
    <3>2. CASE Pending # {}
      <4>1. Pending \subseteq Users /\ text \in 0..MaxEdits
        BY DEF Pending, TypeOK, BroadcastAssumption
      <4>2. r = [at |-> "send", rest |-> Front(Pending), text |-> text,
                 photo |-> photo, file |-> file, ok |-> FALSE]
        BY <3>2
      <4> HIDE DEF r
      <4>3. r \in JobRec BY <2>2, <3>2, <4>1, <4>2 DEF TypeOK, JobRec
      <4> QED BY <2>2, <3>2, <4>2, <4>3
    <3> QED BY <3>1, <3>2
  <2> HIDE DEF r
  <2>4. /\ job' \in [Jobs -> JobRec] /\ job'[j] = r
        /\ \A k \in Jobs : k # j => job'[k] = job[k]
    BY <1>1, <2>1, <2>3, PutFacts
  <2>5. Typed'
    <3>1. TypeOK' BY <1>1, <2>4 DEF TypeOK, JobRec
    <3>2. \A c \in Callers : Loaded(c)' BY DEF Loaded
    <3> QED BY <3>1, <3>2
  <2>6. Pending' = Pending /\ \A t : Count(t)' = Count(t) BY DEF Pending, Count
  <2>7. Sole' BY <2>4, <1>3 DEF Sole, Runs, Waits, Editable
  <2>8. Served' BY <2>3, <2>4 DEF Served, Runs
  <2>9. InHandIs'
    <3>1. \A u \in r.rest : rec[u] = "pending" BY <2>3 DEF Pending
    <3>2. \A k \in Jobs : Hands(k)' <=> job'[k].rest # {} BY <2>3, <2>4 DEF InHandIs, Hands
    <3> QED BY <2>3, <2>4, <2>6, <3>1, <3>2 DEF InHandIs, Hands
  <2>10. GotOnce' BY <2>4 DEF GotOnce
  <2>11. Cached' BY <2>3, <2>4 DEF Cached, Hands
  <2>12. CountersMatchRows' /\ DoneMeansAll' BY <2>6 DEF CountersMatchRows, DoneMeansAll
  <2> QED BY <2>5, <2>7, <2>8, <2>9, <2>10, <2>11, <2>12
<1> QED BY <1>2, <1>3

\* The message goes to a recipient that has none, and is being recorded.
LEMMA SendOneStep ==
  ASSUME BroadcastAssumption, IInv, NEW j \in Jobs, NEW arrives \in BOOLEAN, NEW ok \in BOOLEAN, Send(j, arrives, ok)
  PROVE  IInv'
<1> DEFINE r == [job[j] EXCEPT !.at = "record", !.ok = ok]
           u == NextOf(job[j].rest)
<1> USE DEF IInv, Typed, row, counts, ghosts, toll, Send
<1>1. TypeOK OBVIOUS
<1>2. /\ r \in JobRec /\ r.at = "record" /\ r.rest = job[j].rest
      /\ r.text = job[j].text /\ r.photo = job[j].photo /\ r.file = job[j].file
  <2>1. job[j] \in JobRec BY DEF TypeOK, JobRec
  <2> QED BY <2>1 DEF JobRec
<1>a. Put(j, r) OBVIOUS
<1>b. u \in job[j].rest /\ job[j].rest \subseteq Users BY NextInHand
<1> HIDE DEF r
<1>3. /\ job' \in [Jobs -> JobRec] /\ job'[j] = r
      /\ \A k \in Jobs : k # j => job'[k] = job[k]
  BY <1>1, <1>2, <1>a, PutFacts
<1>4. Typed'
  <2>0. got \in [Users -> Nat] BY DEF TypeOK
  <2>1. got' \in [Users -> Nat]
    <3>1. u \in Users /\ got[u] + 1 \in Nat BY <1>b, <2>0
    <3>2. got' = [got EXCEPT ![u] = IF arrives THEN got[u] + 1 ELSE got[u]] OBVIOUS
    <3>3. (IF arrives THEN got[u] + 1 ELSE got[u]) \in Nat BY <2>0, <3>1
    <3> HIDE DEF u
    <3> QED BY ONLY <2>0, <3>2, <3>3
  <2>2. TypeOK' BY <1>1, <1>3, <2>1 DEF TypeOK, JobRec
  <2>3. \A c \in Callers : Loaded(c)' BY DEF Loaded
  <2> QED BY <2>2, <2>3
<1>5. \A k \in Jobs : (Runs(k)' <=> Runs(k)) /\ (Hands(k)' <=> Hands(k))
  BY <1>2, <1>3 DEF Runs, Hands
<1>6. Sole' /\ Served' BY <1>5 DEF Sole, Served, Waits
<1>7. Pending' = Pending /\ \A t : Count(t)' = Count(t) BY DEF Pending, Count
<1>8. InHandIs' BY <1>2, <1>3, <1>5, <1>7 DEF InHandIs
<1>9. GotOnce'
  <2> SUFFICES ASSUME ~raced, NEW v \in Users, v \notin lost
               PROVE  /\ got'[v] <= 1
                      /\ rec[v] \in {"none", "pending"} =>
                            got'[v] = 0 \/ \E k \in Jobs : job'[k].at = "record"
                                                            /\ v = NextOf(job'[k].rest)
    BY DEF GotOnce
  <2>1. got \in [Users -> Nat] BY DEF TypeOK
  <2>2. CASE v = u
    <3>1. rec[u] = "pending" BY <1>b DEF InHandIs
    <3>2. \A k \in Jobs : job[k].at # "record"
      BY DEF Sole, Runs
    <3>3. got[u] = 0 BY <2>2, <3>1, <3>2 DEF GotOnce
    <3>4. got'[u] <= 1 BY <1>b, <2>1, <3>3
    <3>5. job'[j].at = "record" /\ u = NextOf(job'[j].rest) BY <1>2, <1>3
    <3> QED BY <2>2, <3>4, <3>5
  <2>3. CASE v # u
    <3>1. got'[v] = got[v] BY <2>1, <2>3
    <3>2. \A k \in Jobs : job[k].at = "record" => k # j OBVIOUS
    <3> QED BY <1>3, <3>1, <3>2 DEF GotOnce
  <2> QED BY <2>2, <2>3
<1>10. Cached' BY <1>2, <1>3, <1>5 DEF Cached
<1>11. CountersMatchRows' /\ DoneMeansAll' BY <1>7 DEF CountersMatchRows, DoneMeansAll
<1> QED BY <1>4, <1>6, <1>8, <1>9, <1>10, <1>11

\* One recipient, and one counter.
LEMMA RecordStep ==
  ASSUME BroadcastAssumption, IInv, NEW j \in Jobs, Record(j)
  PROVE  IInv'
<1> DEFINE u  == NextOf(job[j].rest)
           id == IF job[j].ok /\ job[j].file = 0 THEN job[j].photo ELSE job[j].file
           to == IF job[j].ok THEN "sent" ELSE "failed"
           left == job[j].rest \ {u}
           r  == After(j, id)
<1> USE DEF IInv, Typed, row, ghosts, toll, Record
<1>1. TypeOK /\ job[j] \in JobRec BY DEF TypeOK, JobRec
<1>b. u \in job[j].rest /\ job[j].rest \subseteq Users BY NextInHand DEF InHandIs, Hands
<1>c. id \in 0..MaxEdits BY <1>1 DEF JobRec
<1>d. /\ rec' = [rec EXCEPT ![u] = to] /\ Put(j, r)
      /\ file' = IF job[j].ok /\ job[j].file = 0 /\ file = 0 THEN id ELSE file
      /\ sent' = (IF job[j].ok THEN sent + 1 ELSE sent)
      /\ failed' = (IF job[j].ok THEN failed ELSE failed + 1)
  OBVIOUS
<1>2. /\ r \in JobRec /\ r.rest = left /\ r.at = (IF left = {} THEN "loop" ELSE "send")
      /\ left # {} => r.text = job[j].text /\ r.photo = job[j].photo /\ r.file = id
  <2>1. CASE left = {}
    <3>1. r = [Nothing EXCEPT !.at = "loop"] BY <2>1 DEF After
    <3> QED BY <2>1, <3>1, NothingAt
  <2>2. CASE left # {}
    <3>1. r = [job[j] EXCEPT !.at = "send", !.rest = left, !.ok = FALSE, !.file = id]
      BY <2>2 DEF After
    <3>2. left \in SUBSET Users BY <1>b
    <3> HIDE DEF r, left, id
    <3> QED BY <1>1, <1>c, <2>2, <3>1, <3>2 DEF JobRec
  <2> QED BY <2>1, <2>2
<1> HIDE DEF r
<1>3. /\ job' \in [Jobs -> JobRec] /\ job'[j] = r
      /\ \A k \in Jobs : k # j => job'[k] = job[k]
  BY <1>1, <1>2, <1>d, PutFacts
<1>4. Typed'
  <2>1. file' \in 0..MaxEdits BY <1>c, <1>d DEF TypeOK
  <2>2. rec' \in [Users -> {"none", "pending", "sent", "failed"}] BY <1>d DEF TypeOK
  <2>3. sent' \in Nat /\ failed' \in Nat BY <1>d DEF TypeOK
  <2>4. TypeOK' BY <1>1, <1>3, <2>1, <2>2, <2>3 DEF TypeOK, JobRec
  <2>5. \A c \in Callers : Loaded(c)' BY DEF Loaded
  <2> QED BY <2>4, <2>5
<1> HIDE DEF id, to, left
<1>5. \A k \in Jobs : Runs(k)' <=> Runs(k) BY <1>2, <1>3 DEF Runs
<1>6. Sole' /\ Served' BY <1>5 DEF Sole, Served, Waits
<1>7. \A v \in Users : v # u => rec'[v] = rec[v] BY <1>d DEF TypeOK
<1>8. rec'[u] = to /\ to \in {"sent", "failed"} BY <1>b, <1>d DEF TypeOK, to
<1>9. Pending' \subseteq Pending BY <1>7, <1>8 DEF Pending
<1>10. InHandIs'
  <2>1. \A k \in Jobs : Hands(k)' <=> job'[k].rest # {} BY <1>2, <1>3 DEF InHandIs, Hands
  <2>2. ~raced => \A k \in Jobs : k # j => ~Runs(k) BY DEF Sole, Runs
  <2>3. \A v \in left : v # u /\ v \in Users /\ v \in job[j].rest BY <1>b DEF left
  <2>4. ~raced => \A v \in left : rec'[v] = "pending" BY <1>7, <2>3 DEF InHandIs
  <2>5. ~raced => \A k \in Jobs : k # j => ~Hands(k) /\ job[k].at # "finish"
    BY <2>2 DEF Runs, Hands
  <2>6. ~raced /\ Hands(j)' => job'[j].text = text BY <1>2, <1>3 DEF InHandIs, Hands
  <2>7. ~raced => \A k \in Jobs : k # j => job'[k].rest = {}
    BY <1>3, <2>5 DEF InHandIs
  <2>8. \A k \in Jobs : job'[k].at = "finish" => k # j BY <1>2, <1>3
  <2> QED BY <1>2, <1>3, <2>1, <2>4, <2>5, <2>6, <2>7, <2>8 DEF InHandIs, Hands
<1>11. GotOnce'
  <2> SUFFICES ASSUME ~raced, NEW v \in Users, v \notin lost
               PROVE  /\ got[v] <= 1
                      /\ rec'[v] \in {"none", "pending"} =>
                            got[v] = 0 \/ \E k \in Jobs : job'[k].at = "record"
                                                           /\ v = NextOf(job'[k].rest)
    BY DEF GotOnce
  <2>1. got[v] <= 1 BY DEF GotOnce
  <2>2. CASE v = u BY <1>8, <2>1, <2>2
  <2>3. CASE v # u
    <3>1. rec'[v] = rec[v] BY <1>7, <2>3
    <3>2. \A k \in Jobs : job[k].at = "record" /\ v = NextOf(job[k].rest) => k # j BY <2>3
    <3> QED BY <1>3, <2>1, <3>1, <3>2 DEF GotOnce
  <2> QED BY <2>2, <2>3
<1>12. Cached'
  <2> SUFFICES ASSUME ~swapped PROVE Cached' BY DEF Cached
  <2>1. job[j].photo = photo /\ job[j].file \in {0, photo} /\ file \in {0, photo}
    BY DEF Cached, Hands
  <2>2. id \in {0, photo} BY <2>1 DEF id
  <2>3. file' \in {0, photo} BY <1>d, <2>1, <2>2
  <2> QED BY <1>2, <1>3, <2>1, <2>2, <2>3 DEF Cached, Hands
<1>13. CountersMatchRows'
  <2> SUFFICES ASSUME ~raced PROVE sent' = Count("sent")' /\ failed' = Count("failed")'
    BY DEF CountersMatchRows
  <2>1. rec[u] = "pending" BY <1>b DEF InHandIs
  <2>2. ASSUME NEW t \in {"sent", "failed"}
        PROVE  Count(t)' = IF t = to THEN Count(t) + 1 ELSE Count(t)
    <3> DEFINE S == {v \in Users : rec[v] = t}
    <3>1. IsFiniteSet(S) BY FS_Subset DEF BroadcastAssumption
    <3>2. u \notin S /\ u \in Users BY <1>b, <2>1
    <3>3. {v \in Users : rec'[v] = t} = (IF t = to THEN S \cup {u} ELSE S)
      BY <1>7, <1>8, <3>2
    <3> HIDE DEF S
    <3>4. Cardinality(S \cup {u}) = Cardinality(S) + 1 BY <3>1, <3>2, FS_AddElement
    <3>5. Count(t) = Cardinality(S) /\ Count(t)' = Cardinality({v \in Users : rec'[v] = t})
      BY DEF Count, S
    <3> QED BY <3>3, <3>4, <3>5
  <2>3. sent = Count("sent") /\ failed = Count("failed") BY DEF CountersMatchRows
  <2> QED BY <1>d, <2>2, <2>3 DEF to
<1>14. DoneMeansAll' BY <1>9 DEF DoneMeansAll
<1> QED BY <1>4, <1>6, <1>10, <1>11, <1>12, <1>13, <1>14

\* Nothing moves.
LEMMA StutterStep ==
  ASSUME IInv, UNCHANGED vars
  PROVE  IInv'
<1> USE DEF IInv, Typed, vars, row, counts, ghosts, toll
<1>1. Typed' BY DEF TypeOK, Loaded
<1>2. InHandIs' /\ GotOnce' /\ CountersMatchRows' /\ DoneMeansAll' BY Elsewhere
<1>3. Sole' /\ Served' /\ Cached' BY DEF Sole, Served, Cached, Runs, Waits, Hands
<1> QED BY <1>1, <1>2, <1>3

\* Every action keeps the invariant.
LEMMA StepInv == ASSUME BroadcastAssumption PROVE IInv /\ [Next]_vars => IInv'
<1> SUFFICES ASSUME IInv, [Next]_vars PROVE IInv' OBVIOUS
<1>1. ASSUME NEW a \in Admins, Endpoint(a) PROVE IInv'
  <2>1. ASSUME NEW op \in Ops, Load(a, op) PROVE IInv' BY <2>1, LoadStep
  <2>2. ASSUME NEW time \in {"later", "now"}, CommitSchedule(a, time) PROVE IInv'
    BY <2>2, ScheduleStep
  <2>3. CASE CommitCancel(a) \/ CommitSend(a) \/ CommitText(a) \/ CommitPhoto(a) \/ Drop(a)
    BY <2>3, CancelStep, SendStep, TextStep, PhotoStep, DropStep
  <2> QED BY <1>1, <2>1, <2>2, <2>3 DEF Endpoint
<1>2. CASE Pick \/ Passes \/ FlagExpires BY <1>2, PickStep, ClockStep
<1>3. ASSUME NEW c \in Callers, EnqueueFails(c) PROVE IInv' BY <1>3, EnqueueFailsStep
<1>4. ASSUME NEW c \in Callers, NEW j \in Jobs, Enqueue(c, j) PROVE IInv'
  BY <1>4, EnqueueStep
<1>5. ASSUME NEW j \in Jobs, Work(j) PROVE IInv'
  <2>1. ASSUME NEW chosen \in SUBSET Users, Start(j, chosen) PROVE IInv' BY <2>1, StartStep
  <2>2. ASSUME NEW arrives \in BOOLEAN, NEW ok \in BOOLEAN, Send(j, arrives, ok) PROVE IInv'
    BY <2>2, SendOneStep
  <2>3. CASE SeeFlag(j) \/ Fetch(j) \/ Record(j) \/ Finalize(j) \/ Die(j) \/ GiveUp(j)
    BY <2>3, SeeFlagStep, FetchStep, RecordStep, FinalizeStep, DieStep, GiveUpStep
  <2> QED BY <1>5, <2>1, <2>2, <2>3 DEF Work
<1>6. CASE UNCHANGED vars BY <1>6, StutterStep
<1> QED BY <1>1, <1>2, <1>3, <1>4, <1>5, <1>6 DEF Next

\* The invariant of the specification.
LEMMA Invariance == ASSUME BroadcastAssumption PROVE Spec => []IInv
<1>1. Init => IInv BY InitInv
<1>2. IInv /\ [Next]_vars => IInv' BY StepInv
<1> QED BY <1>1, <1>2, PTL DEF Spec

-----------------------------------------------------------------------------
\* Rows, recipients, jobs and requests keep their types; what is scheduled has a
\* time.
THEOREM TypeCorrect == ASSUME BroadcastAssumption PROVE Spec => []TypeOK
<1>1. IInv => TypeOK BY DEF IInv, Typed
<1> QED BY <1>1, Invariance, PTL

\* Unless an edit raced, one job at most works on a broadcast and none while it may
\* be edited; what is being sent has a job, or lost it for good.
THEOREM OneJobWhileSending == ASSUME BroadcastAssumption PROVE Spec => []JobFollowsStatus
<1>1. IInv => JobFollowsStatus
  <2> SUFFICES ASSUME IInv PROVE OneRunner /\ SendingHasRunner BY DEF JobFollowsStatus
  <2>1. OneRunner BY DEF IInv, Sole, OneRunner, Runners, Runs, Waits
  <2>2. SendingHasRunner BY DEF IInv, Served, SendingHasRunner, Runners, Runs, Waits
  <2> QED BY <2>1, <2>2
<1> QED BY <1>1, Invariance, PTL

\* However often workers restart, a user gets a message twice only if one stopped
\* between sending and recording it, or two jobs were at work.
THEOREM SentOnce == ASSUME BroadcastAssumption PROVE Spec => []NoDoubleSend
<1>1. IInv => NoDoubleSend
  <2> SUFFICES ASSUME IInv, NEW u \in Users, got[u] > 1, ~raced, u \notin lost PROVE FALSE
    BY DEF NoDoubleSend
  <2> QED BY DEF IInv, Typed, TypeOK, GotOnce
<1> QED BY <1>1, Invariance, PTL

\* The counters are the numbers of recipients sent and failed, and a broadcast that
\* is done was tried for every recipient, unless an edit raced.
THEOREM HonestRecords == ASSUME BroadcastAssumption PROVE Spec => []RecordsAreTrue
<1>1. IInv => RecordsAreTrue BY DEF IInv, RecordsAreTrue
<1> QED BY <1>1, Invariance, PTL

\* What is being sent is the row's text, unless an edit raced, and the cached photo
\* is the one uploaded last, unless it was swapped under a batch.
THEOREM LatestContent == ASSUME BroadcastAssumption PROVE Spec => []ContentIsCurrent
<1>1. IInv => ContentIsCurrent
  <2> SUFFICES ASSUME IInv PROVE OneText /\ PhotoIsCurrent BY DEF ContentIsCurrent
  <2>1. OneText BY DEF IInv, InHandIs, Hands, OneText
  <2>2. PhotoIsCurrent BY DEF IInv, Cached, PhotoIsCurrent
  <2> QED BY <2>1, <2>2
<1> QED BY <1>1, Invariance, PTL
=============================================================================
