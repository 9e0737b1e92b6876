------------------------- MODULE TranslationJobsProof -------------------------
(*********************************************************************************)
(* TranslationJobs implements JobOutcome, for any number of jobs, folders, pages *)
(* and recoveries. The invariant says for each place of a job's thread what the  *)
(* manager's records say of the job then, which the code never checks: it        *)
(* overwrites a status from where the thread is.                                 *)
(*********************************************************************************)
EXTENDS TranslationJobs, TLAPS

\* The records of a job for each place of its thread.
ThreadFits(j) ==
  /\ thread[j] = "none" => status[j] \in {"absent", "queued"} \union Terminal
  /\ thread[j] = "starting" => status[j] = "queued"
  /\ thread[j] \in {"entering", "working", "assembling"} => status[j] \in {"running", "cancel_requested"}
  /\ thread[j] = "ended" => /\ status[j] \in {"queued", "running", "cancel_requested"}
                            /\ outcome[j] \in {"formatting"} \union Terminal
  /\ thread[j] \in {"layout", "publishing"} => status[j] = "formatting"
  /\ thread[j] = "publishing" => j \in publication \ layout_cancel
  /\ j \in workflow => thread[j] \in {"entering", "working", "assembling", "ended"}
  /\ layout[j] = "automatic_unreviewed" => status[j] = "completed"

\* A job ends once, and once more for each recovery.
EndsCounted(j) ==
  IF status[j] \in Terminal THEN releasing[j] <= recoveries + 1 ELSE releasing[j] <= recoveries

JobsFit == \A j \in Jobs : ThreadFits(j) /\ EndsCounted(j)

\* What is being started has not been started yet, by anybody else.
RequestFits(s) ==
  /\ request[s].step # "idle" => request[s].job \in Jobs
  /\ request[s].step = "reserved" => status[request[s].job] = "absent"
  /\ request[s].step = "recorded" =>
       status[request[s].job] = "queued" /\ thread[request[s].job] = "none"
  /\ \A r \in Servers \ {s} :
       request[s].step \in {"reserved", "recorded"} /\ request[r].step \in {"reserved", "recorded"} =>
         request[s].job # request[r].job

RequestsFit == \A s \in Servers : RequestFits(s)

IInv == TypeOK /\ JobsFit /\ RequestsFit

\* There is no job at first.
LEMMA InitInvariant == Init => IInv
<1> SUFFICES ASSUME Init PROVE IInv
  OBVIOUS
<1>1. TypeOK
  BY JobsAssumption DEF Init, TypeOK, Idle
<1>2. JobsFit
  BY DEF Init, JobsFit, ThreadFits, EndsCounted
<1>3. RequestsFit
  BY DEF Init, RequestsFit, RequestFits, Idle
<1> QED
  BY <1>1, <1>2, <1>3 DEF IInv

\* One step per action, and under it one per part of the invariant.
LEMMA StepInvariant == IInv /\ [Next]_vars => IInv'
<1> SUFFICES ASSUME IInv, [Next]_vars PROVE IInv'
  OBVIOUS
<1> USE DEF Active, Terminal, records, flags, observed
<1>1. ASSUME NEW s \in Servers, NEW j \in Jobs, NEW k \in {"translate", "analyze", "rebuild"},
             NEW o \in Jobs \union {None},
             Reserve(s, j, k, o) PROVE IInv'
  <2>1. TypeOK'
    BY <1>1 DEF Reserve, IInv, TypeOK
  <2>2. JobsFit'
    BY <1>1 DEF Reserve, IInv, JobsFit, ThreadFits, EndsCounted
  <2>3. RequestsFit'
    BY <1>1 DEF Reserve, Startable, IInv, RequestsFit, RequestFits
  <2> QED
    BY <2>1, <2>2, <2>3 DEF IInv
<1>2. ASSUME NEW s \in Servers, Record(s) PROVE IInv'
  <2>1. TypeOK'
    <3>1. request[s].job \in Jobs \union {None} /\ status' \in [Jobs -> Active \union Terminal \union {"absent"}]
      BY <1>2 DEF Record, IInv, TypeOK
    <3>2. [request[s] EXCEPT !.step = "recorded"]
            \in [step : {"idle", "reserved", "recorded", "cancelling"}, job : Jobs \union {None}]
      BY <3>1 DEF IInv, TypeOK
    <3>3. request' = [request EXCEPT ![s] = [request[s] EXCEPT !.step = "recorded"]]
      BY <1>2 DEF Record
    <3> QED
      BY <1>2, <3>1, <3>2, <3>3 DEF Record, IInv, TypeOK
  <2>2. JobsFit'
    BY <1>2 DEF Record, IInv, JobsFit, ThreadFits, EndsCounted, RequestsFit, RequestFits
  <2>3. RequestsFit'
    BY <1>2 DEF Record, IInv, TypeOK, RequestsFit, RequestFits, JobsFit, ThreadFits
  <2> QED
    BY <2>1, <2>2, <2>3 DEF IInv
<1>3. ASSUME NEW s \in Servers, Claim(s) PROVE IInv'
  <2>1. TypeOK'
    BY <1>3 DEF Claim, Idle, IInv, TypeOK
  <2>2. JobsFit'
    BY <1>3 DEF Claim, IInv, JobsFit, ThreadFits, EndsCounted, RequestsFit, RequestFits
  <2>3. RequestsFit'
    BY <1>3 DEF Claim, Idle, IInv, TypeOK, RequestsFit, RequestFits
  <2> QED
    BY <2>1, <2>2, <2>3 DEF IInv
<1>4. ASSUME CancelWorkflow PROVE IInv'
  <2>1. TypeOK'
    <3>1. request["loop"].job \in Jobs
      BY <1>4 DEF CancelWorkflow, IInv, RequestsFit, RequestFits, Servers
    <3> QED
      BY <1>4, <3>1 DEF CancelWorkflow, Idle, IInv, TypeOK
  <2>2. JobsFit'
    BY <1>4 DEF CancelWorkflow, IInv, JobsFit, ThreadFits, EndsCounted
  <2>3. RequestsFit'
    BY <1>4 DEF CancelWorkflow, Idle, IInv, RequestsFit, RequestFits
  <2> QED
    BY <2>1, <2>2, <2>3 DEF IInv
<1>5. ASSUME NEW j \in Jobs, Cancel(j) PROVE IInv'
  <2>1. TypeOK'
    BY <1>5 DEF Cancel, IInv, TypeOK
  <2>2. JobsFit'
    BY <1>5 DEF Cancel, IInv, JobsFit, ThreadFits, EndsCounted
  <2>3. RequestsFit'
    BY <1>5 DEF Cancel, IInv, RequestsFit, RequestFits, JobsFit, ThreadFits
  <2> QED
    BY <2>1, <2>2, <2>3 DEF IInv
<1>6. ASSUME NEW j \in Jobs, CancelLayout(j) PROVE IInv'
  <2>1. TypeOK'
    BY <1>6 DEF CancelLayout, IInv, TypeOK
  <2>2. JobsFit'
    BY <1>6 DEF CancelLayout, IInv, JobsFit, ThreadFits, EndsCounted
  <2>3. RequestsFit'
    BY <1>6 DEF CancelLayout, IInv, RequestsFit, RequestFits
  <2> QED
    BY <2>1, <2>2, <2>3 DEF IInv
<1>7. ASSUME NEW j \in Jobs, Recover(j) PROVE IInv'
  <2>1. TypeOK'
    BY <1>7, JobsAssumption DEF Recover, IInv, TypeOK
  <2>2. JobsFit'
    BY <1>7 DEF Recover, IInv, TypeOK, JobsFit, ThreadFits, EndsCounted
  <2>3. RequestsFit'
    BY <1>7 DEF Recover, IInv, RequestsFit, RequestFits
  <2> QED
    BY <2>1, <2>2, <2>3 DEF IInv
<1>8. ASSUME NEW j \in Jobs, MarkRunning(j) PROVE IInv'
  <2>1. TypeOK'
    BY <1>8 DEF MarkRunning, IInv, TypeOK
  <2>2. JobsFit'
    BY <1>8 DEF MarkRunning, IInv, TypeOK, JobsFit, ThreadFits, EndsCounted
  <2>3. RequestsFit'
    BY <1>8 DEF MarkRunning, IInv, RequestsFit, RequestFits, JobsFit, ThreadFits
  <2> QED
    BY <2>1, <2>2, <2>3 DEF IInv
<1>9. ASSUME NEW j \in Jobs, Enter(j) PROVE IInv'
  <2>1. TypeOK'
    BY <1>9 DEF Enter, IInv, TypeOK
  <2>2. JobsFit'
    BY <1>9 DEF Enter, IInv, JobsFit, ThreadFits, EndsCounted
  <2>3. RequestsFit'
    BY <1>9 DEF Enter, IInv, RequestsFit, RequestFits
  <2> QED
    BY <2>1, <2>2, <2>3 DEF IInv
<1>10. ASSUME NEW j \in Jobs, StartPage(j) PROVE IInv'
  <2>1. TypeOK'
    BY <1>10, JobsAssumption DEF StartPage, IInv, TypeOK
  <2>2. JobsFit'
    BY <1>10 DEF StartPage, IInv, JobsFit, ThreadFits, EndsCounted
  <2>3. RequestsFit'
    BY <1>10 DEF StartPage, IInv, RequestsFit, RequestFits
  <2> QED
    BY <2>1, <2>2, <2>3 DEF IInv
<1>11. ASSUME NEW j \in Jobs, Assemble(j) PROVE IInv'
  <2>1. TypeOK'
    BY <1>11 DEF Assemble, IInv, TypeOK
  <2>2. JobsFit'
    BY <1>11 DEF Assemble, IInv, JobsFit, ThreadFits, EndsCounted
  <2>3. RequestsFit'
    BY <1>11 DEF Assemble, IInv, RequestsFit, RequestFits
  <2> QED
    BY <2>1, <2>2, <2>3 DEF IInv
<1>12. ASSUME NEW j \in Jobs, Succeeds(j) PROVE IInv'
  <2>1. TypeOK'
    <3>1. PICK how \in {"completed", "formatting"} : Comes(j, how)
      BY <1>12 DEF Succeeds
    <3> QED
      BY <3>1 DEF Comes, IInv, TypeOK
  <2>2. JobsFit'
    BY <1>12 DEF Succeeds, Comes, IInv, TypeOK, JobsFit, ThreadFits, EndsCounted
  <2>3. RequestsFit'
    BY <1>12 DEF Succeeds, Comes, IInv, TypeOK, RequestsFit, RequestFits
  <2> QED
    BY <2>1, <2>2, <2>3 DEF IInv
<1>13. ASSUME NEW j \in Jobs, Cancels(j) PROVE IInv'
  <2>1. TypeOK'
    BY <1>13 DEF Cancels, Comes, IInv, TypeOK
  <2>2. JobsFit'
    BY <1>13 DEF Cancels, Comes, IInv, TypeOK, JobsFit, ThreadFits, EndsCounted
  <2>3. RequestsFit'
    BY <1>13 DEF Cancels, Comes, IInv, RequestsFit, RequestFits
  <2> QED
    BY <2>1, <2>2, <2>3 DEF IInv
<1>14. ASSUME NEW j \in Jobs, Fails(j) PROVE IInv'
  <2>1. TypeOK'
    BY <1>14 DEF Fails, Comes, IInv, TypeOK
  <2>2. JobsFit'
    BY <1>14 DEF Fails, Comes, IInv, TypeOK, JobsFit, ThreadFits, EndsCounted
  <2>3. RequestsFit'
    BY <1>14 DEF Fails, Comes, IInv, RequestsFit, RequestFits
  <2> QED
    BY <2>1, <2>2, <2>3 DEF IInv
<1>15. ASSUME NEW j \in Jobs, MarkFinished(j) PROVE IInv'
  <2>1. TypeOK'
    BY <1>15, JobsAssumption DEF MarkFinished, IInv, TypeOK, JobsFit, ThreadFits, EndsCounted
  <2>2. JobsFit'
    BY <1>15 DEF MarkFinished, IInv, TypeOK, JobsFit, ThreadFits, EndsCounted
  <2>3. RequestsFit'
    BY <1>15 DEF MarkFinished, IInv, RequestsFit, RequestFits, JobsFit, ThreadFits
  <2> QED
    BY <2>1, <2>2, <2>3 DEF IInv
<1>16. ASSUME NEW j \in Jobs, Release(j) PROVE IInv'
  <2>1. TypeOK'
    BY <1>16, JobsAssumption DEF Release, IInv, TypeOK
  <2>2. JobsFit'
    BY <1>16 DEF Release, IInv, TypeOK, JobsFit, ThreadFits, EndsCounted
  <2>3. RequestsFit'
    BY <1>16 DEF Release, IInv, RequestsFit, RequestFits
  <2> QED
    BY <2>1, <2>2, <2>3 DEF IInv
<1>17. ASSUME NEW j \in Jobs, LayoutPage(j) PROVE IInv'
  <2>1. TypeOK'
    BY <1>17, JobsAssumption DEF LayoutPage, IInv, TypeOK
  <2>2. JobsFit'
    BY <1>17 DEF LayoutPage, IInv, JobsFit, ThreadFits, EndsCounted
  <2>3. RequestsFit'
    BY <1>17 DEF LayoutPage, IInv, RequestsFit, RequestFits
  <2> QED
    BY <2>1, <2>2, <2>3 DEF IInv
<1>18. ASSUME NEW j \in Jobs, BeginPublication(j) PROVE IInv'
  <2>1. TypeOK'
    BY <1>18 DEF BeginPublication, IInv, TypeOK
  <2>2. JobsFit'
    BY <1>18 DEF BeginPublication, IInv, JobsFit, ThreadFits, EndsCounted
  <2>3. RequestsFit'
    BY <1>18 DEF BeginPublication, IInv, RequestsFit, RequestFits
  <2> QED
    BY <2>1, <2>2, <2>3 DEF IInv
<1>19. ASSUME NEW j \in Jobs, LayoutSucceeds(j) PROVE IInv'
  <2>1. TypeOK'
    BY <1>19, JobsAssumption
       DEF LayoutSucceeds, FinishLayout, IInv, TypeOK, JobsFit, ThreadFits, EndsCounted
  <2>2. JobsFit'
    BY <1>19 DEF LayoutSucceeds, FinishLayout, IInv, TypeOK, JobsFit, ThreadFits, EndsCounted
  <2>3. RequestsFit'
    BY <1>19 DEF LayoutSucceeds, FinishLayout, IInv, RequestsFit, RequestFits, JobsFit, ThreadFits
  <2> QED
    BY <2>1, <2>2, <2>3 DEF IInv
<1>20. ASSUME NEW j \in Jobs, LayoutFails(j) PROVE IInv'
  <2>1. TypeOK'
    BY <1>20, JobsAssumption
       DEF LayoutFails, FinishLayout, IInv, TypeOK, JobsFit, ThreadFits, EndsCounted
  <2>2. JobsFit'
    BY <1>20 DEF LayoutFails, FinishLayout, IInv, TypeOK, JobsFit, ThreadFits, EndsCounted
  <2>3. RequestsFit'
    BY <1>20 DEF LayoutFails, FinishLayout, IInv, RequestsFit, RequestFits, JobsFit, ThreadFits
  <2> QED
    BY <2>1, <2>2, <2>3 DEF IInv
<1>21. CASE UNCHANGED vars
  BY <1>21 DEF vars, IInv, TypeOK, JobsFit, ThreadFits, EndsCounted, RequestsFit, RequestFits
<1> QED
  BY <1>1, <1>2, <1>3, <1>4, <1>5, <1>6, <1>7, <1>8, <1>9, <1>10, <1>11, <1>12, <1>13, <1>14,
     <1>15, <1>16, <1>17, <1>18, <1>19, <1>20, <1>21
     DEF Next, Serves, Works

\* What every place of a thread, every record and every request of a job say of one another holds
\* throughout.
THEOREM JobsInvariant == Spec => []IInv
<1> QED
  BY InitInvariant, StepInvariant, PTL DEF Spec

\* The variables keep their types for any number of jobs, folders, pages and recoveries: above all, a
\* job comes to an end at most once more than layouts are asked for again.
THEOREM TypeCorrect == Spec => []TypeOK
<1>1. IInv => TypeOK
  BY DEF IInv
<1> QED
  BY <1>1, JobsInvariant, PTL

-----------------------------------------------------------------------------
(* The refinement *)

\* The variables of JobOutcome, as TranslationJobs has them
Reported(s) == IF s \in Active \ {"formatting"} THEN "active" ELSE s
Report      == [j \in Jobs |-> IF status[j] \in Active \ {"formatting"} THEN "active" ELSE status[j]]
Delivered   == {j \in Jobs : layout[j] = "automatic_unreviewed"}

\* What leaves alone all that JobOutcome speaks of is a stutter.
LEMMA Stutter ==
  UNCHANGED <<Report, Delivered, layout_cancel, releasing, reservations>> => UNCHANGED Outcome!vars
BY DEF Outcome!vars, Report, Delivered

\* A job's status is written: its report is.
LEMMA ReportWritten ==
  ASSUME NEW j \in Jobs, NEW s, status \in [Jobs -> Active \union Terminal \union {"absent"}],
         status' = [status EXCEPT ![j] = s]
  PROVE  Report' = [Report EXCEPT ![j] = Reported(s)]
BY DEF Report, Reported

\* The jobs start as JobOutcome does.
LEMMA InitImplements == Init => Outcome!Init
BY DEF Init, Outcome!Init, Active

\* Every step is a step of JobOutcome or leaves what it promises about alone.
LEMMA StepImplements == IInv /\ [Next]_vars => [Outcome!Next]_(Outcome!vars)
<1> SUFFICES ASSUME IInv, [Next]_vars PROVE [Outcome!Next]_(Outcome!vars)
  OBVIOUS
<1> USE DEF records, flags, observed
<1>0. /\ status \in [Jobs -> Active \union Terminal \union {"absent"}]
      /\ layout \in [Jobs -> {"none", "raw_fallback", "automatic_unreviewed"}]
      /\ folder \in [Jobs -> Folders]
      /\ releasing \in [Jobs -> 0..(MaxRecoveries + 1)]
  BY DEF IInv, TypeOK
<1>1. ASSUME NEW s \in Servers, Record(s) PROVE Outcome!Next
  <2>1. PICK j \in Jobs : j = request[s].job /\ status[j] = "absent"
    BY <1>1 DEF Record, IInv, RequestsFit, RequestFits
  <2>2. status' = [status EXCEPT ![j] = "queued"]
    BY <1>1, <2>1 DEF Record
  <2>3. Report' = [Report EXCEPT ![j] = Reported("queued")]
    BY <1>0, <2>2, ReportWritten
  <2>4. Outcome!Submit(j)
    BY <1>1, <2>1, <2>3 DEF Reported, Record, Outcome!Submit, Report, Active
  <2> QED
    BY <2>4 DEF Outcome!Next
<1>2. ASSUME NEW s \in Servers, Claim(s) PROVE Outcome!Next
  <2> DEFINE j == request[s].job
  <2>1. j \in Jobs /\ status[j] = "queued"
    BY <1>2 DEF Claim, IInv, RequestsFit, RequestFits
  <2>2. Outcome!Take(folder[j], j)
    BY <1>2, <2>1 DEF Claim, Outcome!Take, Active
  <2>3. folder[j] \in Folders
    BY <1>0, <2>1
  <2> QED
    BY <2>1, <2>2, <2>3 DEF Outcome!Next
<1>3. ASSUME NEW j \in Jobs, CancelLayout(j) PROVE Outcome!Next
  <2>1. Outcome!Withdraw(j)
    BY <1>3 DEF CancelLayout, Outcome!Withdraw
  <2> QED
    BY <2>1 DEF Outcome!Next
<1>4. ASSUME NEW j \in Jobs, Recover(j) PROVE Outcome!Next
  <2>1. Report' = [Report EXCEPT ![j] = "formatting"]
    BY <1>0, <1>4, ReportWritten DEF Recover, Reported
  <2>2. Outcome!Again(folder[j], j)
    BY <1>4, <2>1 DEF Recover, Outcome!Again, Report, Active
  <2>3. folder[j] \in Folders
    BY <1>0
  <2> QED
    BY <2>2, <2>3 DEF Outcome!Next
<1>5. ASSUME NEW j \in Jobs, Cancel(j) \/ MarkRunning(j) PROVE UNCHANGED Outcome!vars
  <2>1. Report[j] = "active"
    BY <1>5 DEF Cancel, MarkRunning, IInv, JobsFit, ThreadFits, Report, Active
  <2>2. Report' = [Report EXCEPT ![j] = "active"]
    BY <1>0, <1>5, ReportWritten DEF Cancel, MarkRunning, Reported, Active
  <2>3. UNCHANGED Report
    BY <2>1, <2>2 DEF Report
  <2> QED
    BY <1>5, <2>3, Stutter DEF Cancel, MarkRunning, Delivered
<1>6. ASSUME NEW j \in Jobs, MarkFinished(j) PROVE Outcome!Next
  <2>1. /\ status[j] \in {"queued", "running", "cancel_requested"}
        /\ outcome[j] \in {"formatting"} \union Terminal
    BY <1>6 DEF MarkFinished, IInv, JobsFit, ThreadFits
  <2>2. Report[j] = "active"
    BY <2>1 DEF Report, Active
  <2>3. Report' = [Report EXCEPT ![j] = outcome[j]]
    BY <1>0, <1>6, <2>1, ReportWritten DEF MarkFinished, Reported, Active, Terminal
  <2>4. CASE outcome[j] = "formatting"
    <3>1. UNCHANGED releasing
      BY <1>0, <1>6, <2>4 DEF MarkFinished
    <3>2. Outcome!Format(j)
      BY <1>6, <2>2, <2>3, <2>4, <3>1 DEF MarkFinished, Outcome!Format, Report
    <3> QED
      BY <3>2 DEF Outcome!Next
  <2>5. CASE outcome[j] \in Terminal
    <3>1. PICK how \in Outcome!Ended : how = outcome[j]
      BY <2>5 DEF Outcome!Ended, Terminal
    <3>2. Outcome!End(j, how)
      BY <1>6, <2>2, <2>3, <2>5, <3>1 DEF MarkFinished, Outcome!End, Report, Terminal
    <3> QED
      BY <3>2 DEF Outcome!Next
  <2> QED
    BY <2>1, <2>4, <2>5
<1>7. ASSUME NEW j \in Jobs, Release(j) PROVE Outcome!Next
  <2>1. CASE reservations[folder[j]] = j
    <3>1. reservations' = [reservations EXCEPT ![folder[j]] = None]
      BY <1>7, <2>1 DEF Release
    <3>2. Outcome!GiveBack(j)
      BY <1>0, <1>7, <2>1 DEF Release, Outcome!GiveBack
    <3> QED
      BY <3>2 DEF Outcome!Next
  <2>2. CASE reservations[folder[j]] # j
    <3>1. UNCHANGED reservations
      BY <1>7, <2>2 DEF Release, IInv, TypeOK
    <3>2. Outcome!GiveBack(j)
      BY <1>7, <3>1 DEF Release, Outcome!GiveBack
    <3> QED
      BY <3>2 DEF Outcome!Next
  <2> QED
    BY <2>1, <2>2
<1>8. ASSUME NEW j \in Jobs, LayoutSucceeds(j) \/ LayoutFails(j) PROVE Outcome!Next
  <2>1. status[j] = "formatting" /\ j \notin Delivered
    BY <1>8 DEF LayoutSucceeds, LayoutFails, IInv, JobsFit, ThreadFits, Delivered
  <2>2. PICK how \in {"automatic_unreviewed", "raw_fallback"} :
             FinishLayout(j, how) /\ (how = "automatic_unreviewed" => j \notin layout_cancel)
    BY <1>8 DEF LayoutSucceeds, LayoutFails, IInv, JobsFit, ThreadFits
  <2>3. Delivered' = IF how = "automatic_unreviewed" THEN Delivered \union {j} ELSE Delivered
    BY <1>0, <2>1, <2>2 DEF FinishLayout, Delivered
  <2>4. Report' = [Report EXCEPT ![j] = "completed"]
    BY <1>0, <2>2, ReportWritten DEF FinishLayout, Reported, Active
  <2>5. Outcome!EndLayout(j)
    <3>1. Delivered' \in {Delivered, Delivered \union ({j} \ layout_cancel)}
      BY <2>2, <2>3
    <3> QED
      BY <2>1, <2>2, <2>4 DEF FinishLayout, Outcome!EndLayout, Report, Delivered
  <2> QED
    BY <2>5 DEF Outcome!Next
<1>9. ASSUME UNCHANGED <<status, layout, layout_cancel, releasing, reservations>>
      PROVE  UNCHANGED Outcome!vars
  BY <1>9, Stutter DEF Report, Delivered
<1>10. ASSUME NEW s \in Servers, NEW j \in Jobs, NEW k \in {"translate", "analyze", "rebuild"},
              NEW o \in Jobs \union {None}, Reserve(s, j, k, o)
       PROVE  UNCHANGED Outcome!vars
  BY <1>9, <1>10 DEF Reserve
<1>11. CancelWorkflow => UNCHANGED Outcome!vars
  BY <1>9 DEF CancelWorkflow
<1>12. ASSUME NEW j \in Jobs,
              \/ Enter(j) \/ StartPage(j) \/ Assemble(j) \/ Succeeds(j) \/ Cancels(j) \/ Fails(j)
              \/ LayoutPage(j) \/ BeginPublication(j)
       PROVE  UNCHANGED Outcome!vars
  BY <1>9, <1>12
     DEF Enter, StartPage, Assemble, Succeeds, Cancels, Fails, Comes, LayoutPage, BeginPublication
<1>13. CASE UNCHANGED vars
  BY <1>9, <1>13 DEF vars
<1> QED
  BY <1>1, <1>2, <1>3, <1>4, <1>5, <1>6, <1>7, <1>8, <1>10, <1>11, <1>12, <1>13
     DEF Next, Serves, Works

\* The jobs keep what JobOutcome promises, for any number of them: a job that was reported as ended
\* stays so, a layout is withdrawn or delivered and never both, and a folder is given back by the job
\* that has it, once for each end of it.
THEOREM ImplementsJobOutcome == Spec => JobSpec
<1> QED
  BY InitImplements, StepImplements, JobsInvariant, PTL DEF Spec, JobSpec, Outcome!Spec

-----------------------------------------------------------------------------
(* What follows for whoever watches the jobs *)

\* A layout that was delivered belongs to a completed job, and nobody was told it was cancelled.
DeliveredIsNotWithdrawn ==
  \A j \in Jobs : layout[j] = "automatic_unreviewed" => status[j] = "completed" /\ j \notin layout_cancel

\* A job that failed or was cancelled stays so, and so does one whose document was laid out.
EndsAreFinal ==
  [][\A j \in Jobs :
       /\ status[j] \in {"failed", "cancelled"} => status'[j] = status[j]
       /\ layout[j] = "automatic_unreviewed" =>
            status'[j] = status[j] /\ layout'[j] = layout[j]]_vars

\* Nobody frees the folder of a job that has not come to an end.
FoldersAreTheirs ==
  [][\A f \in Folders : reservations[f] \in Jobs /\ reservations'[f] = None =>
       releasing[reservations[f]] > 0]_vars

\* The steps of JobOutcome, in the jobs' own words.
LEMMA OutcomeStep ==
  ASSUME [Outcome!Next]_(Outcome!vars), DeliveredIsNotWithdrawn, DOMAIN reservations = Folders
  PROVE  /\ DeliveredIsNotWithdrawn'
         /\ \A j \in Jobs :
              /\ status[j] \in {"failed", "cancelled"} => status'[j] = status[j]
              /\ layout[j] = "automatic_unreviewed" =>
                   status'[j] = status[j] /\ layout'[j] = layout[j]
         /\ \A f \in Folders : reservations[f] \in Jobs /\ reservations'[f] = None =>
              releasing[reservations[f]] > 0
<1> DEFINE report == Report
           delivered == Delivered
           Same == report' = report /\ delivered' = delivered
<1>1. \/ /\ Same /\ layout_cancel' = layout_cancel /\ releasing' = releasing
         /\ reservations' = reservations
      \/ \E j \in Jobs, how \in {"completed", "failed", "cancelled", "active", "formatting"} :
           /\ report[j] \in {"absent", "active"} /\ report' = [report EXCEPT ![j] = how]
           /\ delivered' = delivered /\ layout_cancel' = layout_cancel
           /\ reservations' = reservations
      \/ \E j \in Jobs : /\ report[j] = "formatting" /\ layout_cancel' = layout_cancel \union {j}
                         /\ Same /\ reservations' = reservations
      \/ \E j \in Jobs : /\ report[j] = "formatting"
                         /\ report' = [report EXCEPT ![j] = "completed"]
                         /\ delivered' \in {delivered, delivered \union ({j} \ layout_cancel)}
                         /\ layout_cancel' = layout_cancel /\ reservations' = reservations
      \/ \E f \in Folders, j \in Jobs :
           Same /\ layout_cancel' = layout_cancel /\ reservations' = [reservations EXCEPT ![f] = j]
      \/ \E f \in Folders, j \in Jobs :
           /\ report[j] = "completed" /\ j \notin delivered
           /\ report' = [report EXCEPT ![j] = "formatting"] /\ delivered' = delivered
           /\ layout_cancel' = layout_cancel \ {j} /\ reservations' = [reservations EXCEPT ![f] = j]
      \/ \E j \in Jobs :
           /\ releasing[j] > 0 /\ Same /\ layout_cancel' = layout_cancel
           /\ \/ reservations' = reservations
              \/ \E f \in Folders : /\ reservations[f] = j
                                    /\ reservations' = [reservations EXCEPT ![f] = None]
  <2> DEFINE Written(j, how) ==
               /\ report[j] \in {"absent", "active"} /\ report' = [report EXCEPT ![j] = how]
               /\ delivered' = delivered /\ layout_cancel' = layout_cancel
               /\ reservations' = reservations
  <2>1. CASE UNCHANGED Outcome!vars
    BY <2>1 DEF Outcome!vars, Report, Delivered
  <2>2. ASSUME NEW j \in Jobs, Outcome!Submit(j) PROVE Written(j, "active")
    BY <2>2 DEF Outcome!Submit, Report, Delivered
  <2>3. ASSUME NEW j \in Jobs, Outcome!Format(j) PROVE Written(j, "formatting")
    BY <2>3 DEF Outcome!Format, Report, Delivered
  <2>4. ASSUME NEW j \in Jobs, NEW how \in Outcome!Ended, Outcome!End(j, how) PROVE Written(j, how)
    BY <2>4 DEF Outcome!End, Report, Delivered
  <2>5. ASSUME NEW j \in Jobs, Outcome!Withdraw(j)
        PROVE  /\ report[j] = "formatting" /\ layout_cancel' = layout_cancel \union {j}
               /\ Same /\ reservations' = reservations
    BY <2>5 DEF Outcome!Withdraw, Report, Delivered
  <2>6. ASSUME NEW j \in Jobs, Outcome!EndLayout(j)
        PROVE  /\ report[j] = "formatting"
               /\ report' = [report EXCEPT ![j] = "completed"]
               /\ delivered' \in {delivered, delivered \union ({j} \ layout_cancel)}
               /\ layout_cancel' = layout_cancel /\ reservations' = reservations
    BY <2>6 DEF Outcome!EndLayout, Report, Delivered
  <2>7. ASSUME NEW f \in Folders, NEW j \in Jobs, Outcome!Take(f, j)
        PROVE  Same /\ layout_cancel' = layout_cancel /\ reservations' = [reservations EXCEPT ![f] = j]
    BY <2>7 DEF Outcome!Take, Report, Delivered
  <2>8. ASSUME NEW f \in Folders, NEW j \in Jobs, Outcome!Again(f, j)
        PROVE  /\ report[j] = "completed" /\ j \notin delivered
               /\ report' = [report EXCEPT ![j] = "formatting"] /\ delivered' = delivered
               /\ layout_cancel' = layout_cancel \ {j} /\ reservations' = [reservations EXCEPT ![f] = j]
    BY <2>8 DEF Outcome!Again, Report, Delivered
  <2>9. ASSUME NEW j \in Jobs, Outcome!GiveBack(j)
        PROVE  /\ releasing[j] > 0 /\ Same /\ layout_cancel' = layout_cancel
               /\ \/ reservations' = reservations
                  \/ \E f \in Folders : /\ reservations[f] = j
                                        /\ reservations' = [reservations EXCEPT ![f] = None]
    BY <2>9 DEF Outcome!GiveBack, Report, Delivered
  <2>10. Outcome!Ended = {"completed", "failed", "cancelled"}
    BY DEF Outcome!Ended
  <2> HIDE DEF report, delivered
  <2> QED
    BY <2>1, <2>2, <2>3, <2>4, <2>5, <2>6, <2>7, <2>8, <2>9, <2>10 DEF Outcome!Next
<1>2. \A j \in Jobs : /\ report[j] = Reported(status[j]) /\ report'[j] = Reported(status'[j])
                      /\ j \in delivered <=> layout[j] = "automatic_unreviewed"
                      /\ j \in delivered' <=> layout'[j] = "automatic_unreviewed"
  BY DEF Report, Delivered, Reported
<1>3. DOMAIN report = Jobs
  BY DEF Report
<1>4. \A s : /\ Reported(s) \in {"failed", "cancelled", "completed"} => s = Reported(s)
             /\ s \in {"failed", "cancelled", "completed"} => s = Reported(s)
  BY DEF Reported, Active
<1> HIDE DEF report, delivered
<1>5. \A j \in Jobs : j \in delivered => report[j] = "completed" /\ j \notin layout_cancel
  BY <1>2, <1>4 DEF DeliveredIsNotWithdrawn
<1>6. \A j \in Jobs : j \in delivered' => report'[j] = "completed" /\ j \notin layout_cancel'
  BY <1>1, <1>3, <1>5
<1>7. \A j \in Jobs : /\ report[j] \in {"failed", "cancelled"} => report'[j] = report[j]
                      /\ j \in delivered => j \in delivered' /\ report'[j] = report[j]
  BY <1>1, <1>3, <1>5
<1>8. \A f \in Folders : reservations[f] \in Jobs /\ reservations'[f] = None =>
         releasing[reservations[f]] > 0
  BY <1>1, JobsAssumption DEF Jobs
<1>9. DeliveredIsNotWithdrawn'
  BY <1>2, <1>4, <1>6 DEF DeliveredIsNotWithdrawn
<1> QED
  BY <1>2, <1>4, <1>5, <1>7, <1>8, <1>9

\* Whatever the cancel and the publication of a layout do at the same time, the document that was
\* delivered is not one whose layout was withdrawn (_mark_cancel_requested,
\* _finish_automatic_layout).
THEOREM DeliveredStandsAlone == Spec => []DeliveredIsNotWithdrawn
<1>1. Init => DeliveredIsNotWithdrawn
  BY DEF Init, DeliveredIsNotWithdrawn
<1>2. TypeOK /\ DeliveredIsNotWithdrawn /\ [Outcome!Next]_(Outcome!vars) => DeliveredIsNotWithdrawn'
  <2> SUFFICES ASSUME TypeOK, DeliveredIsNotWithdrawn, [Outcome!Next]_(Outcome!vars)
               PROVE  DeliveredIsNotWithdrawn'
    OBVIOUS
  <2> QED
    BY OutcomeStep DEF TypeOK
<1> QED
  BY <1>1, <1>2, TypeCorrect, ImplementsJobOutcome, PTL DEF Spec, JobSpec, Outcome!Spec

\* The end that the browser was shown is not overwritten by a thread, a request or a recovery that
\* is late.
THEOREM EndsStand == Spec => EndsAreFinal
<1>1. TypeOK /\ DeliveredIsNotWithdrawn /\ [Outcome!Next]_(Outcome!vars) =>
        [\A j \in Jobs :
           /\ status[j] \in {"failed", "cancelled"} => status'[j] = status[j]
           /\ layout[j] = "automatic_unreviewed" =>
                status'[j] = status[j] /\ layout'[j] = layout[j]]_vars
  BY OutcomeStep DEF TypeOK
<1> QED
  BY <1>1, DeliveredStandsAlone, TypeCorrect, ImplementsJobOutcome, PTL DEF JobSpec, Outcome!Spec, EndsAreFinal

\* A folder is free for another job only when the one that had it has ended (_release_reservation).
THEOREM FoldersStayTheirs == Spec => FoldersAreTheirs
<1>1. TypeOK /\ DeliveredIsNotWithdrawn /\ [Outcome!Next]_(Outcome!vars) =>
        [\A f \in Folders : reservations[f] \in Jobs /\ reservations'[f] = None =>
           releasing[reservations[f]] > 0]_vars
  BY OutcomeStep DEF TypeOK
<1> QED
  BY <1>1, DeliveredStandsAlone, TypeCorrect, ImplementsJobOutcome, PTL DEF JobSpec, Outcome!Spec, FoldersAreTheirs

===============================================================================
