--------------------------- MODULE QueueRunnerProof ---------------------------
(********************************************************************************)
(* What a queue of any length may be trusted with after any number of runs. The *)
(* running queue has its jobs, the disk has the checkpoint that the next run    *)
(* starts from, and the argument is how far apart the two can be: equal, but    *)
(* between a change of the jobs and the writing of the checkpoint.              *)
(********************************************************************************)
EXTENDS QueueRunner, TLAPS

Runs      == pc # "stopped"
AtJob     == \/ pc \in {"execute", "executing"}
             \/ pc \in {"persist", "summarise"} /\ then = "execute"
Committed == pc \in {"summarise", "next", "execute", "executing"}

\* Where the loop is: at a job that is marked running, or past a checkpoint it has written.
LoopFits ==
  /\ AtJob => job \in Jobs /\ jobs[job].status = "running"
  /\ Committed => checkpoint = jobs

\* Every attempt is counted in the jobs of the run and on disk, the next one before it is made.
AttemptsCounted ==
  /\ checkpoint = NoFile => \A j \in Jobs : executions[j] = 0
  /\ Runs => \A j \in Jobs : jobs[j].attempts >= executions[j]
  /\ AtJob /\ pc # "executing" => jobs[job].attempts > executions[job]

\* What is done, in the run or on disk, ended well.
DoneIsReal ==
  /\ checkpoint # NoFile => \A j \in Jobs : checkpoint[j].status = "done" => result[j] = "done"
  /\ Runs => \A j \in Jobs : jobs[j].status = "done" => result[j] = "done"

\* An ordinary run skips no job and keeps what the disk has as done.
OrdinaryKeeps ==
  Runs /\ ~rerun_failed_only =>
    /\ \A j \in Jobs : jobs[j].status # "skipped"
    /\ checkpoint # NoFile =>
         \A j \in Jobs : checkpoint[j].status = "done" => jobs[j].status = "done"

IInv ==
  /\ TypeOK /\ LoopFits
  /\ AttemptsCounted /\ AttemptsCoverExecutions
  /\ DoneIsReal /\ OrdinaryKeeps

\* Rows of a fresh queue are rows.
LEMMA FreshIsRows == Fresh \in JobRows
BY DEF Fresh, JobRows, Statuses

\* So are those that a run restores from a checkpoint.
LEMMA RestoredIsRows == TypeOK => Restored \in JobRows
<1> SUFFICES ASSUME TypeOK, checkpoint # NoFile PROVE Restored \in JobRows
  BY FreshIsRows DEF Restored
<1> QED
  BY DEF TypeOK, Restored, Reloaded, JobRows, Statuses

\* There is no checkpoint and nothing was run.
LEMMA InitInvariant == Init => IInv
<1> SUFFICES ASSUME Init PROVE IInv
  OBVIOUS
<1>1. TypeOK
  <2>1. /\ jobs \in JobRows /\ checkpoint = NoFile /\ summary = NoFile
        /\ executions \in [Jobs -> Nat] /\ result \in [Jobs -> {"none", "done", "failed"}]
    BY FreshIsRows DEF Init
  <2>2. rerun_failed_only \in BOOLEAN /\ cancel_requested \in BOOLEAN
    BY DEF Init
  <2>3. pc \in Places /\ then = "stopped" /\ job \in 1..(N + 1) /\ runs \in 0..MaxRuns
    BY QueueAssumption DEF Init, Places
  <2> QED
    BY <2>1, <2>2, <2>3 DEF TypeOK
<1>2. LoopFits /\ AttemptsCounted /\ AttemptsCoverExecutions /\ DoneIsReal /\ OrdinaryKeeps
  BY DEF Init, LoopFits, AttemptsCounted, AttemptsCoverExecutions, DoneIsReal, OrdinaryKeeps, Runs,
         AtJob, Committed
<1> QED
  BY <1>1, <1>2 DEF IInv

\* One step per action, and under it one per part of the invariant.
LEMMA StepInvariant == IInv /\ [Next]_vars => IInv'
<1> SUFFICES ASSUME IInv, [Next]_vars PROVE IInv'
  OBVIOUS
<1> USE QueueAssumption DEF files, observed
<1>0. TypeOK
  BY DEF IInv
<1>1. ASSUME NEW failed_only \in BOOLEAN, Start(failed_only) PROVE IInv'
  <2>0. /\ Restored \in JobRows
        /\ jobs' = [j \in Jobs |-> [Restored[j] EXCEPT !.status = Selected(failed_only, @)]]
        /\ jobs' \in JobRows
    <3>1. Restored \in JobRows
      BY <1>0, RestoredIsRows
    <3>2. jobs' = [j \in Jobs |-> [Restored[j] EXCEPT !.status = Selected(failed_only, @)]]
      BY <1>1 DEF Start
    <3>3. \A s : Selected(failed_only, s) \in Statuses
      BY DEF Selected, Statuses
    <3>4. jobs' \in JobRows
      BY <3>1, <3>2, <3>3 DEF JobRows
    <3> QED
      BY <3>1, <3>2, <3>4
  <2>1. TypeOK'
    <3>1. /\ checkpoint' \in JobRows \union {NoFile} /\ summary' \in JobRows \union {NoFile}
          /\ jobs' \in JobRows
          /\ executions' \in [Jobs -> Nat] /\ result' \in [Jobs -> {"none", "done", "failed"}]
      BY <1>0, <1>1, <2>0 DEF Start, TypeOK
    <3>2. rerun_failed_only' \in BOOLEAN /\ cancel_requested' \in BOOLEAN
      BY <1>1 DEF Start
    <3>3. /\ pc' \in Places /\ then' \in {"stopped", "next", "execute"}
          /\ job' \in 1..(N + 1) /\ runs' \in 0..MaxRuns
      BY <1>0, <1>1 DEF Start, TypeOK, Places
    <3> QED
      BY <3>1, <3>2, <3>3 DEF TypeOK
  <2>2. LoopFits'
    BY <1>1 DEF Start, LoopFits, AtJob, Committed
  <2>3. AttemptsCounted'
    BY <1>0, <1>1, <2>0
       DEF Start, Restored, Reloaded, Selected, Fresh, IInv, AttemptsCounted, Runs, AtJob,
           Committed, LoopFits, AttemptsCoverExecutions, TypeOK, JobRows
  <2>4. AttemptsCoverExecutions'
    BY <1>1 DEF Start, IInv, AttemptsCoverExecutions
  <2>5. DoneIsReal'
    BY <1>1, <2>0 DEF Start, Restored, Reloaded, Selected, Fresh, IInv, DoneIsReal, JobRows
  <2>6. OrdinaryKeeps'
    BY <1>1, <2>0 DEF Start, Restored, Reloaded, Selected, OrdinaryKeeps, JobRows
  <2> QED
    BY <2>1, <2>2, <2>3, <2>4, <2>5, <2>6 DEF IInv
<1>2. CASE WriteCheckpoint
  <2>1. TypeOK'
    BY <1>0, <1>2 DEF WriteCheckpoint, TypeOK, Places
  <2>2. LoopFits'
    BY <1>2 DEF WriteCheckpoint, IInv, LoopFits, AtJob
  <2>3. AttemptsCounted'
    BY <1>2 DEF WriteCheckpoint, IInv, AttemptsCounted, Runs, AtJob, TypeOK
  <2>4. AttemptsCoverExecutions'
    BY <1>2 DEF WriteCheckpoint, IInv, AttemptsCoverExecutions, AttemptsCounted, Runs
  <2>5. DoneIsReal'
    BY <1>2 DEF WriteCheckpoint, IInv, DoneIsReal, Runs
  <2>6. OrdinaryKeeps'
    BY <1>2 DEF WriteCheckpoint, IInv, OrdinaryKeeps, Runs
  <2> QED
    BY <2>1, <2>2, <2>3, <2>4, <2>5, <2>6 DEF IInv
<1>3. CASE WriteSummary
  <2>1. TypeOK'
    BY <1>0, <1>3 DEF WriteSummary, TypeOK, Places
  <2>2. LoopFits'
    BY <1>3 DEF WriteSummary, IInv, LoopFits, AtJob, Committed, TypeOK
  <2>3. AttemptsCounted'
    BY <1>3 DEF WriteSummary, IInv, AttemptsCounted, Runs, AtJob
  <2>4. AttemptsCoverExecutions'
    BY <1>3 DEF WriteSummary, IInv, AttemptsCoverExecutions
  <2>5. DoneIsReal'
    BY <1>3 DEF WriteSummary, IInv, DoneIsReal, Runs
  <2>6. OrdinaryKeeps'
    BY <1>3 DEF WriteSummary, IInv, OrdinaryKeeps, Runs
  <2> QED
    BY <2>1, <2>2, <2>3, <2>4, <2>5, <2>6 DEF IInv
<1>4. CASE PassOver
  <2>1. TypeOK'
    BY <1>0, <1>4 DEF PassOver, TypeOK
  <2>2. LoopFits'
    BY <1>4 DEF PassOver, IInv, LoopFits, AtJob, Committed
  <2>3. AttemptsCounted'
    BY <1>4 DEF PassOver, IInv, AttemptsCounted, Runs, AtJob
  <2>4. AttemptsCoverExecutions'
    BY <1>4 DEF PassOver, IInv, AttemptsCoverExecutions
  <2>5. DoneIsReal'
    BY <1>4 DEF PassOver, IInv, DoneIsReal, Runs
  <2>6. OrdinaryKeeps'
    BY <1>4 DEF PassOver, IInv, OrdinaryKeeps, Runs
  <2> QED
    BY <2>1, <2>2, <2>3, <2>4, <2>5, <2>6 DEF IInv
<1>5. CASE StartJob
  <2>0. /\ job \in Jobs /\ jobs' \in JobRows
        /\ \A j \in Jobs : /\ jobs'[j].status = IF j = job THEN "running" ELSE jobs[j].status
                           /\ jobs'[j].attempts = IF j = job THEN jobs[j].attempts + 1 ELSE jobs[j].attempts
    <3>1. job \in Jobs
      BY <1>0, <1>5 DEF StartJob, TypeOK, Jobs
    <3>2. jobs \in JobRows /\ jobs[job].attempts + 1 \in Nat
      BY <1>0, <3>1 DEF TypeOK, JobRows
    <3>3. jobs' = [jobs EXCEPT ![job] = [jobs[job] EXCEPT !.status = "running",
                                                          !.attempts = jobs[job].attempts + 1]]
      BY <1>5 DEF StartJob
    <3>4. [jobs[job] EXCEPT !.status = "running", !.attempts = jobs[job].attempts + 1]
            \in [status : Statuses, attempts : Nat]
      BY <3>1, <3>2 DEF JobRows, Statuses
    <3> QED
      BY <3>1, <3>2, <3>3, <3>4 DEF JobRows
  <2>1. TypeOK'
    BY <1>0, <1>5, <2>0 DEF StartJob, TypeOK, Places
  <2>2. LoopFits'
    BY <1>5, <2>0 DEF StartJob, LoopFits, Committed
  <2>3. AttemptsCounted'
    <3>1. /\ checkpoint' = checkpoint /\ executions' = executions /\ job' = job
          /\ \A j \in Jobs : jobs[j].attempts \in Nat /\ executions[j] \in Nat
      BY <1>0, <1>5 DEF StartJob, TypeOK, JobRows
    <3>2. \A j \in Jobs : jobs[j].attempts >= executions[j]
      BY <1>5 DEF StartJob, IInv, AttemptsCounted, Runs
    <3>3. \A j \in Jobs : jobs'[j].attempts >= executions'[j]
      BY <2>0, <3>1, <3>2
    <3>4. jobs'[job].attempts > executions'[job]
      BY <2>0, <3>1, <3>2
    <3> QED
      BY <3>1, <3>3, <3>4 DEF IInv, AttemptsCounted
  <2>4. AttemptsCoverExecutions'
    BY <1>5 DEF StartJob, IInv, AttemptsCoverExecutions
  <2>5. DoneIsReal'
    BY <1>5, <2>0 DEF StartJob, IInv, DoneIsReal, Runs, JobRows
  <2>6. OrdinaryKeeps'
    BY <1>5, <2>0 DEF StartJob, Settled, IInv, OrdinaryKeeps, Runs, JobRows
  <2> QED
    BY <2>1, <2>2, <2>3, <2>4, <2>5, <2>6 DEF IInv
<1>6. CASE StopBeforeJob
  <2>0. /\ job \in Jobs /\ jobs' \in JobRows /\ jobs[job].status = "running"
        /\ jobs[job].attempts > executions[job] /\ checkpoint = jobs
        /\ \A j \in Jobs : /\ jobs'[j].status = IF j = job THEN "pending" ELSE jobs[j].status
                           /\ jobs'[j].attempts = IF j = job THEN jobs[j].attempts - 1 ELSE jobs[j].attempts
    <3>1. /\ job \in Jobs /\ jobs[job].status = "running" /\ jobs[job].attempts > executions[job]
          /\ checkpoint = jobs
      BY <1>6 DEF StopBeforeJob, IInv, LoopFits, AttemptsCounted, AtJob, Committed
    <3>2. jobs[job].attempts \in Nat /\ executions[job] \in Nat
      BY <1>0, <3>1 DEF TypeOK, JobRows
    <3>3. jobs[job].attempts - 1 \in Nat /\ jobs[job].attempts # 0
      BY <3>1, <3>2
    <3>4. jobs' = [jobs EXCEPT ![job] = [jobs[job] EXCEPT !.status = "pending",
                                                          !.attempts = jobs[job].attempts - 1]]
      BY <1>6, <3>3 DEF StopBeforeJob
    <3> QED
      BY <1>0, <3>1, <3>3, <3>4 DEF TypeOK, JobRows, Statuses
  <2>1. TypeOK'
    BY <1>0, <1>6, <2>0 DEF StopBeforeJob, TypeOK, Places
  <2>2. LoopFits'
    BY <1>6 DEF StopBeforeJob, LoopFits, AtJob, Committed
  <2>3. AttemptsCounted'
    <3>1. /\ checkpoint' = checkpoint /\ executions' = executions
          /\ pc' = "persist" /\ then' = "stopped"
          /\ \A j \in Jobs : jobs[j].attempts \in Nat /\ executions[j] \in Nat
      BY <1>0, <1>6 DEF StopBeforeJob, TypeOK, JobRows
    <3>2. \A j \in Jobs : jobs[j].attempts >= executions[j]
      BY <1>6 DEF StopBeforeJob, IInv, AttemptsCounted, Runs
    <3>3. \A j \in Jobs : jobs'[j].attempts >= executions'[j]
      BY <2>0, <3>1, <3>2
    <3> QED
      BY <3>1, <3>3 DEF IInv, AttemptsCounted, AtJob
  <2>4. AttemptsCoverExecutions'
    BY <1>6 DEF StopBeforeJob, IInv, AttemptsCoverExecutions
  <2>5. DoneIsReal'
    BY <1>6, <2>0 DEF StopBeforeJob, IInv, DoneIsReal, Runs, JobRows
  <2>6. OrdinaryKeeps'
    BY <1>6, <2>0 DEF StopBeforeJob, IInv, OrdinaryKeeps, Runs, JobRows
  <2> QED
    BY <2>1, <2>2, <2>3, <2>4, <2>5, <2>6 DEF IInv
<1>7. CASE Execute
  <2>0. /\ job \in Jobs /\ checkpoint = jobs /\ checkpoint # NoFile
        /\ jobs[job].attempts > executions[job]
        /\ executions' \in [Jobs -> Nat]
        /\ \A j \in Jobs : executions'[j] = IF j = job THEN executions[j] + 1 ELSE executions[j]
    <3>1. job \in Jobs /\ checkpoint = jobs /\ jobs[job].attempts > executions[job]
      BY <1>7 DEF Execute, IInv, LoopFits, AttemptsCounted, AtJob, Committed
    <3> QED
      BY <1>0, <1>7, <3>1 DEF Execute, TypeOK
  <2>1. TypeOK'
    BY <1>0, <1>7, <2>0 DEF Execute, TypeOK, Places
  <2>2. LoopFits'
    BY <1>7, <2>0 DEF Execute, IInv, LoopFits, AtJob
  <2>3. AttemptsCounted'
    BY <1>7, <2>0 DEF Execute, IInv, AttemptsCounted, Runs, TypeOK, JobRows
  <2>4. AttemptsCoverExecutions'
    BY <1>7, <2>0 DEF Execute, IInv, AttemptsCoverExecutions, TypeOK, JobRows
  <2>5. DoneIsReal'
    BY <1>7, <2>0 DEF Execute, IInv, DoneIsReal
  <2>6. OrdinaryKeeps'
    BY <1>7 DEF Execute, IInv, OrdinaryKeeps, Runs
  <2> QED
    BY <2>1, <2>2, <2>3, <2>4, <2>5, <2>6 DEF IInv
<1>8. CASE Return
  <2>0. PICK how \in {"done", "failed"} :
             /\ job \in Jobs /\ checkpoint = jobs /\ jobs[job].status = "running"
             /\ jobs' \in JobRows /\ result' \in [Jobs -> {"none", "done", "failed"}]
             /\ \A j \in Jobs : /\ jobs'[j].status = IF j = job THEN how ELSE jobs[j].status
                                /\ jobs'[j].attempts = jobs[j].attempts
                                /\ result'[j] = IF j = job THEN how ELSE result[j]
    <3>1. job \in Jobs /\ checkpoint = jobs /\ jobs[job].status = "running"
      BY <1>8 DEF Return, IInv, LoopFits, AtJob, Committed
    <3>2. PICK how \in {"done", "failed"} :
               /\ jobs' = [jobs EXCEPT ![job].status = how]
               /\ result' = [result EXCEPT ![job] = how]
      BY <1>8 DEF Return
    <3> QED
      BY <1>0, <3>1, <3>2 DEF TypeOK, JobRows, Statuses
  <2>1. TypeOK'
    <3>1. job' \in 1..(N + 1)
      BY <1>8, <2>0, QueueAssumption DEF Return, Jobs
    <3>2. UNCHANGED <<files, rerun_failed_only, cancel_requested, runs, executions>>
          /\ pc' = "persist" /\ then' = "next"
      BY <1>8 DEF Return
    <3> QED
      BY <1>0, <2>0, <3>1, <3>2 DEF TypeOK, Places, files
  <2>2. LoopFits'
    BY <1>8 DEF Return, LoopFits, AtJob, Committed
  <2>3. AttemptsCounted'
    BY <1>8 DEF Return, IInv, AttemptsCounted, Runs, AtJob
  <2>4. AttemptsCoverExecutions'
    BY <1>8 DEF Return, IInv, AttemptsCoverExecutions
  <2>5. DoneIsReal'
    BY <1>8, <2>0 DEF Return, IInv, DoneIsReal, Runs
  <2>6. OrdinaryKeeps'
    BY <1>8, <2>0 DEF Return, IInv, OrdinaryKeeps, Runs
  <2> QED
    BY <2>1, <2>2, <2>3, <2>4, <2>5, <2>6 DEF IInv
<1>9. CASE Finish
  <2>1. TypeOK'
    BY <1>0, <1>9 DEF Finish, TypeOK, Places
  <2>2. LoopFits'
    BY <1>9 DEF Finish, LoopFits, AtJob, Committed
  <2>3. AttemptsCounted'
    BY <1>9 DEF Finish, IInv, AttemptsCounted, Runs, AtJob
  <2>4. AttemptsCoverExecutions'
    BY <1>9 DEF Finish, IInv, AttemptsCoverExecutions
  <2>5. DoneIsReal'
    BY <1>9 DEF Finish, IInv, DoneIsReal, Runs
  <2>6. OrdinaryKeeps'
    BY <1>9 DEF Finish, OrdinaryKeeps, Runs
  <2> QED
    BY <2>1, <2>2, <2>3, <2>4, <2>5, <2>6 DEF IInv
<1>10. CASE Cancel
  <2>1. TypeOK'
    BY <1>0, <1>10 DEF Cancel, TypeOK
  <2>2. LoopFits'
    BY <1>10 DEF Cancel, IInv, LoopFits, AtJob, Committed
  <2>3. AttemptsCounted'
    BY <1>10 DEF Cancel, IInv, AttemptsCounted, Runs, AtJob
  <2>4. AttemptsCoverExecutions'
    BY <1>10 DEF Cancel, IInv, AttemptsCoverExecutions
  <2>5. DoneIsReal'
    BY <1>10 DEF Cancel, IInv, DoneIsReal, Runs
  <2>6. OrdinaryKeeps'
    BY <1>10 DEF Cancel, IInv, OrdinaryKeeps, Runs
  <2> QED
    BY <2>1, <2>2, <2>3, <2>4, <2>5, <2>6 DEF IInv
<1>11. CASE Crash
  <2>1. TypeOK'
    BY <1>0, <1>11, FreshIsRows DEF Crash, TypeOK, Places
  <2>2. LoopFits'
    BY <1>11 DEF Crash, LoopFits, AtJob, Committed
  <2>3. AttemptsCounted'
    BY <1>11 DEF Crash, IInv, AttemptsCounted, Runs, AtJob
  <2>4. AttemptsCoverExecutions'
    BY <1>11 DEF Crash, IInv, AttemptsCoverExecutions
  <2>5. DoneIsReal'
    BY <1>11 DEF Crash, IInv, DoneIsReal, Runs
  <2>6. OrdinaryKeeps'
    BY <1>11 DEF Crash, OrdinaryKeeps, Runs
  <2> QED
    BY <2>1, <2>2, <2>3, <2>4, <2>5, <2>6 DEF IInv
<1>12. CASE UNCHANGED vars
  BY <1>12
     DEF vars, IInv, TypeOK, LoopFits, AttemptsCounted, AttemptsCoverExecutions, DoneIsReal,
         OrdinaryKeeps, Runs, AtJob, Committed
<1> QED
  BY <1>1, <1>2, <1>3, <1>4, <1>5, <1>6, <1>7, <1>8, <1>9, <1>10, <1>11, <1>12 DEF Next

\* The distance between the run and the disk is as above at every moment.
THEOREM QueueInvariant == Spec => []IInv
<1> QED
  BY InitInvariant, StepInvariant, PTL DEF Spec

\* The variables keep their types for any number of jobs and runs.
THEOREM TypeCorrect == Spec => []TypeOK
<1>1. IInv => TypeOK
  BY DEF IInv
<1> QED
  BY <1>1, QueueInvariant, PTL

\* No attempt is ever missing from the count on disk, wherever the process died.
THEOREM AttemptsAreOnDisk == Spec => []AttemptsCoverExecutions
<1>1. IInv => AttemptsCoverExecutions
  BY DEF IInv
<1> QED
  BY <1>1, QueueInvariant, PTL

\* A queue that an ordinary run reports as finished well has every job's last execution ended well.
THEOREM SuccessIsReal == Spec => []OrdinarySuccessIsReal
<1>1. IInv => OrdinarySuccessIsReal
  BY DEF IInv, DoneIsReal, OrdinaryKeeps, Runs, OrdinarySuccessIsReal, Succeeded
<1> QED
  BY <1>1, QueueInvariant, PTL

\* An ordinary run gives up no completion that is on disk: only the writing of a checkpoint could.
THEOREM OrdinaryForgetsNothing == Spec => OnlyFailedOnlyForgets
<1> DEFINE Forgets ==
      checkpoint # NoFile =>
        \A j \in Jobs : checkpoint[j].status = "done" /\ checkpoint'[j].status # "done"
                         => rerun_failed_only
<1>1. IInv /\ [Next]_vars => [Forgets]_checkpoint
  <2> SUFFICES ASSUME IInv, Next, checkpoint' # checkpoint PROVE Forgets
    BY DEF vars, files
  <2>1. WriteCheckpoint
    BY DEF Next, Start, WriteSummary, PassOver, StartJob, StopBeforeJob, Execute, Return, Finish,
           Cancel, Crash, files
  <2> QED
    BY <2>1 DEF WriteCheckpoint, IInv, OrdinaryKeeps, Runs
<1> QED
  BY <1>1, QueueInvariant, PTL DEF Spec, OnlyFailedOnlyForgets

===============================================================================
