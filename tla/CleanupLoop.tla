----------------------------- MODULE CleanupLoop -----------------------------
(***************************************************************************)
(* storage/utility.py: the task of a worker that runs the expired-row      *)
(* cleanup over and over, beside the requests that use the same rows.      *)
(*                                                                         *)
(* A run visits the PostgreSQL databases one after the other.  The rows of *)
(* OAuthStore are those of one of them.  A run that fails in a database    *)
(* before it leaves them as they are, and counts as sleep; what happens in *)
(* the ones after it changes nothing here.                                 *)
(***************************************************************************)
EXTENDS RequestWaits

VARIABLES task,     \* the cleanup task: "sleep", "run", or "done" once it returned
          session,  \* the session of Req its run uses, or None
          closing   \* finalize was called

loopVars == <<task, session, closing>>
allVars  == <<waitVars, loopVars>>

LoopInit == WaitInit /\ task = "sleep" /\ session = None /\ closing = FALSE

AfterErrorDone == "done"   \* faulty: an error ends the task

\* A run that raised is logged, and the loop goes on.
AfterError == "sleep"

\* What the task does after a step of request r: its run may have ended.
Follow(r, after) ==
  /\ IF r = session /\ pc'[r] = "idle"
       THEN task' = after /\ session' = None
       ELSE UNCHANGED <<task, session>>
  /\ UNCHANGED closing

Handle(r)  == Execute(r) /\ Follow(r, "sleep")
Advance(r) == Handle(r) \/ (LockRow(r) /\ UNCHANGED loopVars)
Abort(r)  == Drop(r) /\ Follow(r, AfterError)

\* A request arrives.  The cleanup is started by the task only.
Arrive(r, op) == op # "cleanup" /\ Begin(r, op) /\ UNCHANGED <<locked, loopVars>>

RunCleanup(r) ==
  /\ task = "sleep" /\ Begin(r, "cleanup") /\ UNCHANGED locked
  /\ task' = "run" /\ session' = r /\ UNCHANGED closing

\* finalize cancels the task wherever it is, and the run under way is rolled back.
Finalize ==
  /\ ~closing /\ closing' = TRUE
  /\ task' = "done" /\ session' = None
  /\ IF session = None THEN UNCHANGED waitVars ELSE Drop(session)

Initialize ==
  /\ closing /\ closing' = FALSE
  /\ task' = "sleep" /\ UNCHANGED <<waitVars, session>>

LoopNext ==
  \/ \E r \in Req : \/ Advance(r) \/ Abort(r) \/ RunCleanup(r)
                    \/ \E op \in AllOps : Arrive(r, op)
  \/ (Tick \/ Install) /\ UNCHANGED <<locked, loopVars>>
  \/ Finalize \/ Initialize

\* The event loop resumes every handler whose statement has returned, PostgreSQL grants a
\* row lock to its waiters in turn (so a lock that is free again and again is granted: strong
\* fairness) and resolves every deadlock.  The task wakes, reaches this database and is
\* handed a connection as long as there is one again and again.  Nothing makes requests
\* arrive or fail, the clock advance or the worker stop.
LoopFairness ==
  /\ \A r \in Req : SF_allVars(Advance(r) \/ (Exhausted(r) /\ Follow(r, AfterError)))
  /\ WF_allVars(\E r \in Req : Victim(r) /\ Follow(r, AfterError))
  /\ SF_allVars(\E r \in Req : RunCleanup(r))

LoopSpec == LoopInit /\ [][LoopNext]_allVars /\ LoopFairness

-----------------------------------------------------------------------------
RunFails == \E r \in Req : r = session /\ Abort(r)

Overdue == {k \in Key \ Client : Expired(committed[k], clock)}

\* The tables do not fill up with dead rows: while the worker is up, and whatever runs
\* failed before, once runs stop failing every expired row is deleted (or the consent
\* given anew), though each run takes one batch in any order and waits for the rows
\* requests have locked (_cleanup_loop, run_cleanup, cleanup_expired).
ExpiredRowsGo ==
  <>[][~RunFails]_allVars => []<>(closing \/ Overdue = {})
=============================================================================
