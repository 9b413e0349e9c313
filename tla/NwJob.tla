------------------------------- MODULE NwJob -------------------------------
(***************************************************************************)
(* The job threads of network/nw_job.c: the event loop of a process puts   *)
(* entries on a list, threads take them off its head and run them without  *)
(* the lock, and hand them back on a second list together with a byte in a *)
(* pipe that wakes the loop.  The lock makes each section below one step.  *)
(* A module that EXTENDS this one says what an entry is, what running it   *)
(* does, and what the loop does with an entry that came back.              *)
(***************************************************************************)
EXTENDS Naturals, Sequences

CONSTANTS Thread,     \* the threads of the job
          NoJob       \* what a thread holds between two entries

VARIABLES request,    \* request_head .. request_tail
          running,    \* running[t]: the entry thread t took and runs
          reply,      \* reply_head .. reply_tail
          readable,   \* the pipe holds at least one byte
          loop        \* "idle", or "replying": the event loop is in on_can_read

jobVars == <<request, running, reply, readable, loop>>

JobInit ==
    /\ request = <<>> /\ reply = <<>>
    /\ running = [t \in Thread |-> NoJob]
    /\ readable = FALSE
    /\ loop = "idle"

\* nw_job_add: the caller is the event loop.
JobAdd(e) ==
    /\ request' = Append(request, e)
    /\ UNCHANGED <<running, reply, readable, loop>>

\* A thread finds the list not empty, takes the head and releases the lock.
TakeRequest(t) ==
    /\ running[t] = NoJob
    /\ request # <<>>
    /\ running' = [running EXCEPT ![t] = Head(request)]
    /\ request' = Tail(request)
    /\ UNCHANGED <<reply, readable, loop>>

\* After on_job: the entry, now holding what the job made of it, goes to the
\* tail of the replies and a byte to the pipe, under one lock.
ReturnReply(t, e) ==
    /\ reply' = Append(reply, e)
    /\ running' = [running EXCEPT ![t] = NoJob]
    /\ readable' = TRUE
    /\ UNCHANGED <<request, loop>>

\* on_can_read starts: it empties the pipe before it looks at the list.
DrainPipe ==
    /\ loop = "idle" /\ readable
    /\ readable' = FALSE
    /\ loop' = "replying"
    /\ UNCHANGED <<request, running, reply>>

\* It takes one entry off the list; the caller conjoins on_finish(Head(reply)).
TakeReply ==
    /\ loop = "replying" /\ reply # <<>>
    /\ reply' = Tail(reply)
    /\ UNCHANGED <<request, running, readable, loop>>

OneAtATime == loop = "replying" /\ loop' = "idle" /\ UNCHANGED <<request, running, reply, readable>>
\* The list is empty: on_can_read returns to the event loop.
NoMoreReplies ==
    /\ loop = "replying" /\ reply = <<>>
    /\ loop' = "idle"
    /\ UNCHANGED <<request, running, reply, readable>>

\* The entries that were added and did not come back to the loop yet.
Unfinished == {request[i] : i \in DOMAIN request} \cup {reply[i] : i \in DOMAIN reply}
                \cup ({running[t] : t \in Thread} \ {NoJob})
============================================================================
