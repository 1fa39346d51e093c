------------------------------ MODULE Messaging ------------------------------
(***************************************************************************)
(* Support tickets (module Ticket) and one broadcast (module Broadcast),   *)
(* side by side: they share Telegram and the worker, but no state.         *)
(***************************************************************************)
EXTENDS Ticket

CONSTANTS Recipients, Workers, Authors, Cron, Batch, MaxDeaths, MaxEdits, MaxCalls

VARIABLES status, due, text, photo, file, sent, failed, rec, got, flag, work, call,
          calls, deaths, lost, stuck, raced, swapped

B == INSTANCE Broadcast WITH Users <- Recipients, Jobs <- Workers, Admins <- Authors,
                             job <- work

ASSUME MessagingAssumption == B!BroadcastAssumption

bvars == <<status, due, text, photo, file, sent, failed, rec, got, flag, work, call,
           calls, deaths, lost, stuck, raced, swapped>>

MessagingInit == Init /\ B!Init

\* Each of the two moves by itself.
Tickets(action)    == action /\ UNCHANGED bvars
Broadcasts(action) == action /\ UNCHANGED vars

MessagingNext == Tickets(Next) \/ Broadcasts(B!Next)

MessagingSpec == MessagingInit /\ [][MessagingNext]_<<vars, bvars>>

-----------------------------------------------------------------------------
\* Types of tickets and of broadcasts; what is scheduled has a time.
Types == TypeOK /\ B!TypeOK

\* A broadcast has a job, and one only, exactly while it is being sent, or lost it.
JobFollowsStatus == B!JobFollowsStatus

\* A user gets the message once, except for crashes and overlapping jobs.
NoDoubleSend == B!NoDoubleSend

\* The counters are the numbers of recipients sent and failed; what is done has
\* been tried for every recipient.
RecordsAreTrue == B!RecordsAreTrue

\* Nobody gets a text that is not the row's; the photo Telegram caches is the one
\* uploaded last.
ContentIsCurrent == B!ContentIsCurrent
=============================================================================
