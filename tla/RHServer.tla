----------------------------- MODULE RHServer -----------------------------
(***************************************************************************)
(* readhistory (rh_server.c): the queries of the fronts become jobs of     *)
(* several threads (NwJob), each with a MySQL connection of its own; the   *)
(* event loop sends a finished job's reply to the session that asked, if   *)
(* the session object still belongs to it.                                 *)
(*                                                                         *)
(* Here one front is connected.  A packet is [seq, n, ver]: the sequence   *)
(* number the front chose, the request it stands for and, in a reply, the  *)
(* version of the data in it, or Refusal.  A job also holds the session.   *)
(***************************************************************************)
EXTENDS NwJob, FiniteSets

CONSTANTS PendingPerWorker,    \* MAX_PENDING_JOB
          NoData, Refusal      \* ver of a request; ver of an error reply

\* Neither is a version of the data.
ASSUME VersionsAssumption == Refusal \notin Nat /\ NoData \notin Nat

VARIABLE rhSes     \* id of the front's session; 0 when it is closed

\* request_count is below the limit: it counts the jobs no thread has taken.
HasRoom == Len(request) < PendingPerWorker * Cardinality(Thread)

\* svr_on_recv_pkg of a packet whose body is an array.
Enqueue(p) == HasRoom /\ JobAdd([pkg |-> p, ses |-> rhSes])

\* on_job: rows, or an error when the arguments are invalid or MySQL fails.
OnJob(e, v) == [e EXCEPT !.pkg.ver = v]

RunJob(t, versions) ==
    /\ running[t] # NoJob
    /\ \E v \in versions : ReturnReply(t, OnJob(running[t], v))

\* on_job_finish sends to the session only when it is the one that asked.
Answers(e) == rhSes # 0 /\ rhSes = e.ses
============================================================================
