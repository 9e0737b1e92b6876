----------------------------- MODULE QueueRunner -----------------------------
(*****************************************************************************)
(* queue_runner.py: the jobs of a manifest run one after the other, their    *)
(* statuses kept in a checkpoint file that the next run of the same manifest *)
(* starts from. The user may stop the queue (QueueRunWorker.cancel) and the  *)
(* process may die, or a write fail, between any two steps; a later run is   *)
(* an ordinary one or, with `Rerun failed only`, a failed-only one.          *)
(*****************************************************************************)
EXTENDS Integers, FiniteSets

CONSTANTS
  N,        \* the jobs of the manifest are 1..N, in its order
  MaxRuns,  \* bound: how often the queue is run
  NoFile    \* a checkpoint or summary that was never written

VARIABLES
  checkpoint,        \* the checkpoint file's jobs
  summary,           \* the queue summary file's jobs
  jobs,              \* the running queue's own jobs
  rerun_failed_only, \* the mode of the present or the last run
  pc,                \* where the running queue is
  then,              \* where it goes on after _persist
  job,               \* the job the loop is at
  cancel_requested,  \* QueueRunWorker._cancel_requested
  runs,              \* how often the queue was run (bound)
  executions,        \* how often each job's workflow was really run (observation)
  result             \* how each job's last execution ended (observation)

files    == <<checkpoint, summary>>
observed == <<executions, result>>
vars     == <<files, jobs, rerun_failed_only, pc, then, job, cancel_requested, runs, observed>>

Jobs     == 1..N
Statuses == {"pending", "running", "done", "failed", "skipped"}
JobRows  == [Jobs -> [status : Statuses, attempts : Nat]]
Fresh    == [j \in Jobs |-> [status |-> "pending", attempts |-> 0]]

ASSUME QueueAssumption == N \in Nat /\ MaxRuns \in Nat /\ NoFile \notin JobRows

Places   == {"stopped", "persist", "summarise", "next", "execute", "executing"}

Init ==
  /\ checkpoint = NoFile /\ summary = NoFile
  /\ jobs = Fresh
  /\ rerun_failed_only = FALSE
  /\ pc = "stopped" /\ then = "stopped" /\ job = 1
  /\ cancel_requested = FALSE
  /\ runs = 0
  /\ executions = [j \in Jobs |-> 0]
  /\ result = [j \in Jobs |-> "none"]

\* What the checkpoint says of the manifest's jobs: one that was running did not finish.
ReloadedRunningAsDone(status) ==  \* mutant: an interrupted job passes for a finished one
  IF status = "running" THEN "done" ELSE status

ReloadedAsFresh(status) == "pending"  \* mutant: the statuses are not taken from the checkpoint

Reloaded(status) == IF status = "running" THEN "pending" ELSE status

Restored ==
  IF checkpoint = NoFile THEN Fresh
  ELSE [j \in Jobs |-> [checkpoint[j] EXCEPT !.status = Reloaded(@)]]

\* A failed-only run takes the failed jobs and skips all others; an ordinary run
\* takes every job that is not done, the skipped ones included.
Selected(failed_only, status) ==
  IF failed_only THEN IF status = "failed" THEN "pending" ELSE "skipped"
                 ELSE IF status = "done" THEN "done" ELSE "pending"

Start(failed_only) ==
  /\ pc = "stopped"
  /\ runs < MaxRuns
  /\ runs' = runs + 1
  /\ rerun_failed_only' = failed_only
  /\ jobs' = [j \in Jobs |-> [Restored[j] EXCEPT !.status = Selected(failed_only, @)]]
  /\ cancel_requested' = FALSE
  /\ job' = 1
  /\ pc' = "persist" /\ then' = "next"
  /\ UNCHANGED <<files, observed>>

\* _persist replaces the checkpoint first and the summary after it.
WriteCheckpoint ==
  /\ pc = "persist"
  /\ checkpoint' = jobs
  /\ pc' = "summarise"
  /\ UNCHANGED <<summary, jobs, rerun_failed_only, then, job, cancel_requested, runs,
                 observed>>

WriteSummary ==
  /\ pc = "summarise"
  /\ summary' = jobs
  /\ pc' = then
  /\ UNCHANGED <<checkpoint, jobs, rerun_failed_only, then, job, cancel_requested, runs, observed>>

Settled == jobs[job].status \in {"done", "skipped"}

PassOver ==
  /\ pc = "next" /\ job <= N
  /\ Settled
  /\ job' = job + 1
  /\ UNCHANGED <<files, jobs, rerun_failed_only, pc, then, cancel_requested, runs, observed>>

StartJobUncounted ==  \* mutant: the attempt is counted once the job has come back
  /\ pc = "next" /\ job <= N
  /\ ~Settled
  /\ jobs' = [jobs EXCEPT ![job].status = "running"]
  /\ pc' = "persist" /\ then' = "execute"
  /\ UNCHANGED <<files, rerun_failed_only, job, cancel_requested, runs, observed>>

\* The job is marked running, and the attempt counted, on disk before it runs.
StartJob ==
  /\ pc = "next" /\ job <= N
  /\ ~Settled
  /\ jobs' = [jobs EXCEPT ![job] = [@ EXCEPT !.status = "running", !.attempts = jobs[job].attempts + 1]]
  /\ pc' = "persist" /\ then' = "execute"
  /\ UNCHANGED <<files, rerun_failed_only, job, cancel_requested, runs, observed>>

\* run_job raises QueueRunCancelled before it builds a workflow: the attempt does not
\* count and the queue stops.
StopBeforeJob ==
  /\ pc = "execute"
  /\ cancel_requested
  /\ jobs' = [jobs EXCEPT ![job] =
                [@ EXCEPT !.status = "pending",
                          !.attempts = IF jobs[job].attempts = 0 THEN 0 ELSE jobs[job].attempts - 1]]
  /\ pc' = "persist" /\ then' = "stopped"
  /\ UNCHANGED <<files, rerun_failed_only, job, cancel_requested, runs, observed>>

Execute ==
  /\ pc = "execute"
  /\ ~cancel_requested
  /\ executions' = [executions EXCEPT ![job] = @ + 1]
  /\ pc' = "executing"
  /\ UNCHANGED <<files, jobs, rerun_failed_only, then, job, cancel_requested, runs, result>>

ReturnKeepsCancelled ==  \* mutant: a cancelled workflow leaves a status of its own
  /\ pc = "executing"
  /\ \E outcome \in {"done", "failed", "cancelled"} :
       /\ jobs' = [jobs EXCEPT ![job].status = outcome]
       /\ result' = [result EXCEPT ![job] = IF outcome = "done" THEN "done" ELSE "failed"]
  /\ job' = job + 1
  /\ pc' = "persist" /\ then' = "next"
  /\ UNCHANGED <<files, rerun_failed_only, cancel_requested, runs, executions>>

\* The workflow returns, or run_job raises, which counts as a failure.
Return ==
  /\ pc = "executing"
  /\ \E outcome \in {"done", "failed"} :
       /\ jobs' = [jobs EXCEPT ![job].status = outcome]
       /\ result' = [result EXCEPT ![job] = outcome]
  /\ job' = job + 1
  /\ pc' = "persist" /\ then' = "next"
  /\ UNCHANGED <<files, rerun_failed_only, cancel_requested, runs, executions>>

Finish ==
  /\ pc = "next" /\ job > N
  /\ pc' = "stopped"
  /\ UNCHANGED <<files, jobs, rerun_failed_only, then, job, cancel_requested, runs, observed>>

\* The user stops the queue.
Cancel ==
  /\ pc # "stopped"
  /\ ~cancel_requested
  /\ cancel_requested' = TRUE
  /\ UNCHANGED <<files, jobs, rerun_failed_only, pc, then, job, runs, observed>>

\* The process dies or a write of _persist raises: the queue's own jobs are gone.
Crash ==
  /\ pc # "stopped"
  /\ pc' = "stopped"
  /\ jobs' = Fresh
  /\ UNCHANGED <<files, rerun_failed_only, then, job, cancel_requested, runs, observed>>

Next ==
  \/ \E failed_only \in BOOLEAN : Start(failed_only)
  \/ WriteCheckpoint \/ WriteSummary
  \/ PassOver \/ StartJob \/ StopBeforeJob \/ Execute \/ Return \/ Finish
  \/ Cancel \/ Crash

Spec == Init /\ [][Next]_vars

-----------------------------------------------------------------------------
(* Properties *)

\* Every variable stays in its type.
TypeOK ==
  /\ checkpoint \in JobRows \union {NoFile} /\ summary \in JobRows \union {NoFile}
  /\ jobs \in JobRows
  /\ rerun_failed_only \in BOOLEAN /\ cancel_requested \in BOOLEAN
  /\ pc \in Places /\ then \in {"stopped", "next", "execute"}
  /\ job \in 1..(N + 1)
  /\ runs \in 0..MaxRuns
  /\ executions \in [Jobs -> Nat]
  /\ result \in [Jobs -> {"none", "done", "failed"}]

\* Through crashes and stops the checkpoint never counts fewer attempts of a job than
\* were really made: the count is on disk before the job runs.
AttemptsCoverExecutions ==
  checkpoint # NoFile => \A j \in Jobs : checkpoint[j].attempts >= executions[j]

\* What counts as success in the summary: nothing failed and nothing left to run.
Succeeded(rows) == \A j \in Jobs : rows[j].status \in {"done", "skipped"}

\* An ordinary run, however many interrupted runs of either mode came before it,
\* ends in success only if each job's last execution succeeded.
OrdinarySuccessIsReal ==
  pc = "next" /\ job > N /\ ~rerun_failed_only /\ Succeeded(jobs)
    => \A j \in Jobs : result[j] = "done"

\* A completion that is on disk is given up only by a failed-only run, which marks the job
\* skipped: no stop, crash or failure of an ordinary run loses one.
OnlyFailedOnlyForgets ==
  [][checkpoint # NoFile =>
       \A j \in Jobs : checkpoint[j].status = "done" /\ checkpoint'[j].status # "done"
                        => rerun_failed_only]_checkpoint

=============================================================================
