--------------------------- MODULE SourceReviewProof ---------------------------
(**********************************************************************************)
(* SourceReview implements AcceptedSource, for any drafts, settings, reviewers    *)
(* and nonces and any bounds. The invariant says what a step of the source review *)
(* relies on that an earlier one has left behind: the claim of the folder, the    *)
(* writes of a submission, the look that a job has taken, the slot.               *)
(**********************************************************************************)
EXTENDS SourceReview, TLAPS

Drafted(d) == draft[d].settings # None

\* A folder with drafts is not empty, and they have one setting, which is the claim's.
DraftsShareSettings ==
  /\ \A d \in Drafts : Drafted(d) => touched
  /\ \A d \in Drafts : Drafted(d) /\ claim # None => draft[d].settings = claim.settings
  /\ \A d, e \in Drafts : Drafted(d) /\ Drafted(e) => draft[d].settings = draft[e].settings

\* The first write of a submission is its acceptance.
AcceptedFirst == \A d \in Drafts : published[d] = Nothing <=> intent[d] = None

\* A job has its configuration until it is done.
JobsConfigured ==
  \A j \in Jobs : jobs[j].stage \in {"queued", "loaded", "running", "failed"} =>
    jobs[j].config \in Configs

\* A reviewed job that was loaded has a source whose acceptance is complete.
LoadedIsSealed ==
  \A j \in Jobs : jobs[j].stage \in {"loaded", "running"} /\ jobs[j].source # Plain =>
    published[jobs[j].source] = Revision

\* The job that runs has the slot, and the checkpoint is of its source.
RunnerIsBound ==
  \A j \in Jobs : jobs[j].stage = "running" =>
    slot = j /\ checkpoint # None /\ checkpoint.source = jobs[j].source

ReviewedIsStructured ==
  checkpoint # None /\ checkpoint.source # Plain => checkpoint.structured

\* Until a start has ended, it has made no job.
StartsMakeOnce == \A s \in Starts : operations[s] \in {"none", "starting"} => made[s] = {}

\* What is being started is started from a review.
StartsAreReviewed ==
  \A d \in Drafts, n \in Nonces : operations[<<d, n>>] = "starting" => reviews[d] # None

IInv ==
  /\ TypeOK /\ DraftsShareSettings /\ AcceptedFirst /\ JobsConfigured /\ LoadedIsSealed
  /\ RunnerIsBound /\ ReviewedIsStructured /\ StartsMakeOnce /\ StartsAreReviewed

-----------------------------------------------------------------------------
(* Records *)

\* A draft that is torn, or goes on to its next generation, is a draft.
LEMMA DraftChanges ==
  ASSUME NEW x \in DraftStates
  PROVE  /\ [x EXCEPT !.torn = TRUE] \in DraftStates
         /\ x.generation < MaxGeneration => [x EXCEPT !.generation = @ + 1] \in DraftStates
<1>1. [x EXCEPT !.torn = TRUE] \in DraftStates
  BY DEF DraftStates
<1>2. ASSUME x.generation < MaxGeneration PROVE x.generation + 1 \in 0..MaxGeneration
  BY <1>2, SourceReviewAssumption DEF DraftStates
<1>3. ASSUME NEW g \in 0..MaxGeneration PROVE [x EXCEPT !.generation = g] \in DraftStates
  BY DEF DraftStates
<1> QED
  BY <1>1, <1>2, <1>3

\* A job that goes to another stage, be it in a resumed run, is a job.
LEMMA JobChanges ==
  ASSUME NEW x \in JobStates, NEW stage \in Stages
  PROVE  /\ [x EXCEPT !.stage = stage] \in JobStates
         /\ [x EXCEPT !.stage = stage].stage = stage
         /\ [x EXCEPT !.stage = stage].source = x.source
         /\ [x EXCEPT !.stage = stage].config = x.config
         /\ x.config \in Configs => [x EXCEPT !.stage = stage, !.config.resume = TRUE] \in JobStates
         /\ [x EXCEPT !.stage = stage, !.config.resume = TRUE].stage = stage
         /\ [x EXCEPT !.stage = stage, !.config.resume = TRUE].source = x.source
         /\ x.config \in Configs =>
              [x EXCEPT !.stage = stage, !.config.resume = TRUE].config \in Configs
BY DEF JobStates, Configs

\* When a job goes to a stage, nothing else of it changes, and no other job.
LEMMA Going ==
  ASSUME jobs \in [Jobs -> JobStates], NEW j \in Jobs, NEW from, NEW to \in Stages,
         Goes(j, from, to)
  PROVE  /\ jobs[j].stage = from
         /\ jobs' \in [Jobs -> JobStates]
         /\ jobs'[j].stage = to /\ jobs'[j].source = jobs[j].source
         /\ jobs'[j].config = jobs[j].config
         /\ \A i \in Jobs \ {j} : jobs'[i] = jobs[i]
<1>1. jobs' = [jobs EXCEPT ![j] = [jobs[j] EXCEPT !.stage = to]]
  BY DEF Goes
<1>2. /\ [jobs[j] EXCEPT !.stage = to] \in JobStates
      /\ [jobs[j] EXCEPT !.stage = to].stage = to
      /\ [jobs[j] EXCEPT !.stage = to].source = jobs[j].source
      /\ [jobs[j] EXCEPT !.stage = to].config = jobs[j].config
  BY JobChanges
<1>3. jobs' \in [Jobs -> JobStates]
  BY <1>1, <1>2
<1>4. jobs'[j] = [jobs[j] EXCEPT !.stage = to] /\ \A i \in Jobs \ {j} : jobs'[i] = jobs[i]
  BY <1>1
<1>5. jobs[j].stage = from
  BY DEF Goes
<1> QED
  BY <1>2, <1>3, <1>4, <1>5

\* The records that drafts and jobs begin with are records of theirs.
LEMMA NewRecords ==
  /\ NoDraft \in DraftStates /\ NoDraft.settings = None
  /\ NoJob \in JobStates /\ NoJob.stage = "absent"
  /\ Completed \in JobStates /\ Completed.stage = "completed"
  /\ \A source \in Drafts \union {Plain}, config \in Configs :
       [stage |-> "queued", source |-> source, config |-> config] \in JobStates
BY SourceReviewAssumption DEF NoDraft, NoJob, Completed, DraftStates, JobStates, Stages

-----------------------------------------------------------------------------
(* The invariant *)

\* The folder is empty and the server has just been started.
LEMMA InitInvariant == Init => IInv
<1> SUFFICES ASSUME Init PROVE IInv
  OBVIOUS
<1>1. TypeOK
  <2>1. draft \in [Drafts -> DraftStates] /\ jobs \in [Jobs -> JobStates]
    BY NewRecords DEF Init
  <2>2. published \in [Drafts -> Nothing..Revision]
    BY DEF Init, Nothing, Revision
  <2> QED
    BY <2>1, <2>2 DEF Init, TypeOK
<1>2. \A d \in Drafts : ~Drafted(d)
  BY NewRecords DEF Init, Drafted
<1>3. \A j \in Jobs : jobs[j].stage = "absent"
  BY NewRecords DEF Init
<1>4. AcceptedFirst /\ ReviewedIsStructured /\ StartsMakeOnce /\ StartsAreReviewed
  BY DEF Init, AcceptedFirst, ReviewedIsStructured, StartsMakeOnce, StartsAreReviewed, Starts
<1> QED
  BY <1>1, <1>2, <1>3, <1>4
     DEF IInv, DraftsShareSettings, JobsConfigured, LoadedIsSealed, RunnerIsBound

SlotKept == slot' \in Jobs \union {None} /\ (slot' # None => jobs'[slot'].stage = "running")

\* Types: one step per action.
LEMMA TypeStep == IInv /\ [Next]_vars => TypeOK'
<1> SUFFICES ASSUME IInv, [Next]_vars PROVE TypeOK'
  OBVIOUS
<1> USE SourceReviewAssumption DEF TypeOK, IInv
<1>1. ASSUME NEW d \in Drafts, NEW config \in Configs, Prepare(d, config) PROVE TypeOK'
  <2>1. draft' \in [Drafts -> DraftStates]
    BY <1>1 DEF Prepare, DraftStates, Configs
  <2>2. reviews' \in [Drafts -> Reviews \union {None}]
    <3>1. [config |-> config, editable |-> TRUE, submitted |-> FALSE] \in Reviews
      BY DEF Reviews
    <3> QED
      BY <1>1, <3>1 DEF Prepare
  <2> QED
    BY <1>1, <2>1, <2>2 DEF Prepare
<1>2. ASSUME NEW d \in Drafts, NEW config \in Configs, Restore(d, config) PROVE TypeOK'
  <2>1. [config EXCEPT !.resume = TRUE] \in Configs
    BY DEF Configs
  <2>2. reviews' \in [Drafts -> Reviews \union {None}]
    BY <1>2, <2>1 DEF Restore, Reviews
  <2> QED
    BY <1>2, <2>2 DEF Restore, disk
<1>3. ASSUME NEW config \in Configs, PrepareDeclined(config) PROVE TypeOK'
  BY <1>3 DEF PrepareDeclined, disk
<1>4. ASSUME NEW config \in Configs, PrepareRaises(config) PROVE TypeOK'
  <2>1. touched' \in BOOLEAN
    BY <1>4 DEF PrepareRaises, IdleScope
  <2> QED
    BY <1>4, <2>1 DEF PrepareRaises
<1>5. ASSUME NEW d \in Drafts, NEW expected \in 1..MaxGeneration, SavePage(d, expected) PROVE TypeOK'
  <2>1. draft' \in [Drafts -> DraftStates]
    <3>1. /\ [draft[d] EXCEPT !.torn = TRUE] \in DraftStates
          /\ [draft[d] EXCEPT !.generation = @ + 1] \in DraftStates
      BY <1>5, DraftChanges DEF SavePage
    <3> QED
      BY <1>5, <3>1 DEF SavePage
  <2> QED
    BY <1>5, <2>1 DEF SavePage, server
<1>6. ASSUME NEW d \in Drafts, NEW expected \in 1..MaxGeneration, NEW reviewer \in Reviewers,
             NEW upto \in Nothing..Revision, NEW answered \in BOOLEAN,
             Submit(d, reviewer, expected, upto, answered)
      PROVE  TypeOK'
  <2>1. published' \in [Drafts -> Nothing..Revision]
    BY <1>6 DEF Submit
  <2>2. intent' \in [Drafts -> Acceptances \union {None}]
    BY <1>6 DEF Submit, Acceptances
  <2>3. reviews' \in [Drafts -> Reviews \union {None}]
    <3>1. reviews[d] \in Reviews
      BY <1>6 DEF Submit, Readable, Held
    <3>2. [reviews[d] EXCEPT !.submitted = TRUE] \in Reviews
      BY <3>1 DEF Reviews
    <3> QED
      BY <1>6, <3>2 DEF Submit
  <2> QED
    BY <1>6, <2>1, <2>2, <2>3 DEF Submit
<1>7. ASSUME NEW d \in Drafts, NEW n \in Nonces, Keep(d, n) PROVE TypeOK'
  BY <1>7 DEF Keep, disk, Starts
<1>8. ASSUME NEW d \in Drafts, NEW n \in Nonces, StartRaises(d, n) PROVE TypeOK'
  BY <1>8 DEF StartRaises, disk, Starts
<1>9. ASSUME NEW d \in Drafts, NEW n \in Nonces, NEW j \in Jobs, Start(d, n, j) PROVE TypeOK'
  <2>1. jobs' \in [Jobs -> JobStates]
    <3>1. reviews[d].config \in Configs
      BY <1>9 DEF Start, StartsAreReviewed, Reviews
    <3> QED
      BY <1>9, <3>1, NewRecords DEF Start
  <2>2. SlotKept
    BY <1>9, NewRecords DEF Start, NextJob, SlotKept
  <2>3. made' \in [Starts -> SUBSET Jobs]
    BY <1>9 DEF Start, Starts
  <2>4. operations' \in [Starts -> {"none", "starting", "started", "unknown"}]
    BY <1>9 DEF Start, Starts
  <2> QED
    BY <1>9, <2>1, <2>2, <2>3, <2>4 DEF Start, disk, SlotKept
<1>10. ASSUME NEW j \in Jobs, NEW config \in Configs, StartPlain(j, config) PROVE TypeOK'
  <2>1. jobs' \in [Jobs -> JobStates]
    BY <1>10, NewRecords DEF StartPlain
  <2>2. SlotKept
    BY <1>10, NewRecords DEF StartPlain, NextJob, SlotKept
  <2> QED
    BY <1>10, <2>1, <2>2 DEF StartPlain, disk, SlotKept
<1>11. ASSUME NEW i \in Jobs, NEW j \in Jobs, ResumeJob(i, j) PROVE TypeOK'
  <2>1. jobs' \in [Jobs -> JobStates]
    BY <1>11, JobChanges DEF ResumeJob, JobsConfigured, Stages
  <2>2. SlotKept
    BY <1>11, NewRecords DEF ResumeJob, NextJob, SlotKept
  <2> QED
    BY <1>11, <2>1, <2>2 DEF ResumeJob, disk, SlotKept
<1>12. ASSUME NEW j \in Jobs, Reload(j) PROVE TypeOK'
  <2>1. Goes(j, "queued", "loaded") /\ "loaded" \in Stages
    BY <1>12 DEF Reload, Stages
  <2>2. SlotKept
    BY <1>12, <2>1, Going DEF Reload, SlotKept
  <2> QED
    BY <1>12, <2>1, <2>2, Going DEF Reload, disk, SlotKept
<1>13. ASSUME NEW j \in Jobs, JobFails(j) PROVE TypeOK'
  <2>1. PICK stage \in {"queued", "loaded"} : Goes(j, stage, "failed")
    BY <1>13 DEF JobFails
  <2>2. "failed" \in Stages /\ stage # "running"
    BY DEF Stages
  <2>3. SlotKept
    BY <1>13, <2>1, <2>2, Going DEF JobFails, SlotKept
  <2> QED
    BY <1>13, <2>1, <2>2, <2>3, Going DEF JobFails, disk, SlotKept
<1>14. ASSUME NEW j \in Jobs, Send(j) PROVE TypeOK'
  <2>1. jobs[j].source \in Drafts \union {Plain}
    BY DEF JobStates
  <2> QED
    BY <1>14, <2>1 DEF Send, disk, server
<1>15. ASSUME NEW j \in Jobs, LeaveRun(j) PROVE TypeOK'
  <2>1. jobs' \in [Jobs -> JobStates]
    <3>1. [jobs[j] EXCEPT !.stage = "failed"] \in JobStates /\ Completed \in JobStates
      BY JobChanges, NewRecords DEF Stages
    <3> QED
      BY <1>15, <3>1 DEF LeaveRun
  <2>2. checkpoint' \in Checkpoints \union {None}
    <3>1. checkpoint \in Checkpoints
      BY <1>15 DEF LeaveRun, RunnerIsBound
    <3>2. \A running \in BOOLEAN : [checkpoint EXCEPT !.running = running] \in Checkpoints
      BY <3>1 DEF Checkpoints
    <3> QED
      BY <1>15, <3>2 DEF LeaveRun
  <2> QED
    BY <1>15, <2>1, <2>2 DEF LeaveRun
<1>16. ASSUME NEW j \in Jobs, NEW structured \in BOOLEAN, Run(j, structured) PROVE TypeOK'
  <2>1. Goes(j, "loaded", "running") /\ "running" \in Stages
    BY <1>16 DEF Run, Stages
  <2>2. checkpoint' \in Checkpoints
    <3>1. jobs[j].config \in Configs /\ jobs[j].source \in Drafts \union {Plain}
      BY <1>16 DEF Run, Goes, JobsConfigured, JobStates
    <3> QED
      BY <1>16, <3>1 DEF Run, Checkpoints, Configs
  <2> QED
    BY <1>16, <2>1, <2>2, Going DEF Run
<1>17. CASE Crash
  BY <1>17, NewRecords DEF Crash, disk
<1>18. CASE UNCHANGED vars
  BY <1>18 DEF vars, disk, server
<1> QED
  BY <1>1, <1>2, <1>3, <1>4, <1>5, <1>6, <1>7, <1>8, <1>9, <1>10, <1>11, <1>12, <1>13, <1>14,
     <1>15, <1>16, <1>17, <1>18 DEF Next

\* A part of the invariant is kept by what leaves its variables alone.
LEMMA Undisturbed ==
  /\ DraftsShareSettings /\ UNCHANGED <<touched, draft, claim>> => DraftsShareSettings'
  /\ AcceptedFirst /\ UNCHANGED <<published, intent>> => AcceptedFirst'
  /\ JobsConfigured /\ UNCHANGED jobs => JobsConfigured'
  /\ LoadedIsSealed /\ UNCHANGED <<jobs, published>> => LoadedIsSealed'
  /\ RunnerIsBound /\ UNCHANGED <<jobs, slot, checkpoint>> => RunnerIsBound'
  /\ ReviewedIsStructured /\ UNCHANGED checkpoint => ReviewedIsStructured'
  /\ StartsMakeOnce /\ UNCHANGED <<operations, made>> => StartsMakeOnce'
  /\ StartsAreReviewed /\ UNCHANGED <<operations, reviews>> => StartsAreReviewed'
<1>1. DraftsShareSettings /\ UNCHANGED <<touched, draft, claim>> => DraftsShareSettings'
  BY DEF DraftsShareSettings, Drafted
<1>2. AcceptedFirst /\ UNCHANGED <<published, intent>> => AcceptedFirst'
  BY DEF AcceptedFirst
<1>3. JobsConfigured /\ UNCHANGED jobs => JobsConfigured'
  BY DEF JobsConfigured
<1>4. LoadedIsSealed /\ UNCHANGED <<jobs, published>> => LoadedIsSealed'
  BY DEF LoadedIsSealed
<1>5. RunnerIsBound /\ UNCHANGED <<jobs, slot, checkpoint>> => RunnerIsBound'
  BY DEF RunnerIsBound
<1>6. ReviewedIsStructured /\ UNCHANGED checkpoint => ReviewedIsStructured'
  BY DEF ReviewedIsStructured
<1>7. StartsMakeOnce /\ UNCHANGED <<operations, made>> => StartsMakeOnce'
  BY DEF StartsMakeOnce
<1>8. StartsAreReviewed /\ UNCHANGED <<operations, reviews>> => StartsAreReviewed'
  BY DEF StartsAreReviewed
<1> QED
  BY <1>1, <1>2, <1>3, <1>4, <1>5, <1>6, <1>7, <1>8

Rest ==
  /\ DraftsShareSettings /\ AcceptedFirst /\ JobsConfigured /\ LoadedIsSealed
  /\ RunnerIsBound /\ ReviewedIsStructured /\ StartsMakeOnce /\ StartsAreReviewed

\* The rest of the invariant: one step per action, with its parts in groups that the same
\* variables disturb.
LEMMA RestStep == IInv /\ [Next]_vars => Rest'
<1> SUFFICES ASSUME TypeOK, Rest, [Next]_vars PROVE Rest'
  BY DEF IInv, Rest
<1>0. /\ draft \in [Drafts -> DraftStates]
      /\ published \in [Drafts -> Nothing..Revision]
      /\ intent \in [Drafts -> Acceptances \union {None}]
      /\ reviews \in [Drafts -> Reviews \union {None}]
      /\ jobs \in [Jobs -> JobStates]
      /\ operations \in [Starts -> {"none", "starting", "started", "unknown"}]
      /\ made \in [Starts -> SUBSET Jobs]
  BY DEF TypeOK
<1>1. ASSUME NEW d \in Drafts, NEW config \in Configs, Prepare(d, config) PROVE Rest'
  <2>1. DraftsShareSettings'
    <3>1. draft[d].settings = None /\ draft'[d].settings = config.settings
      BY <1>0, <1>1, NewRecords DEF Prepare
    <3>2. \A e \in Drafts \ {d} : draft'[e] = draft[e]
      BY <1>0, <1>1 DEF Prepare
    <3>3. \A e \in Drafts : Drafted(e) => draft[e].settings = config.settings
      BY <1>1, SourceReviewAssumption DEF Prepare, Claimable, Rest, DraftsShareSettings
    <3>4. touched' = TRUE /\ claim' = config
      BY <1>1 DEF Prepare
    <3> QED
      BY <3>1, <3>2, <3>3, <3>4 DEF DraftsShareSettings, Drafted
  <2>2. StartsAreReviewed'
    <3>1. \A e \in Drafts : reviews[e] # None => reviews'[e] # None
      <4>1. [config |-> config, editable |-> TRUE, submitted |-> FALSE] \in Reviews
        BY DEF Reviews
      <4> QED
        BY <1>0, <1>1, <4>1, SourceReviewAssumption DEF Prepare
    <3> QED
      BY <1>1, <3>1 DEF Prepare, Rest, StartsAreReviewed
  <2> QED
    BY <1>1, <2>1, <2>2, Undisturbed DEF Prepare, Rest
<1>2. ASSUME NEW d \in Drafts, NEW config \in Configs, Restore(d, config) PROVE Rest'
  <2>1. StartsAreReviewed'
    BY <1>0, <1>2 DEF Restore, Rest, StartsAreReviewed
  <2> QED
    BY <1>2, <2>1, Undisturbed DEF Restore, Rest, disk
<1>3. ASSUME NEW config \in Configs, PrepareDeclined(config) PROVE Rest'
  <2>1. UNCHANGED claim
    BY <1>3 DEF PrepareDeclined, Claimable
  <2> QED
    BY <1>3, <2>1, Undisturbed DEF PrepareDeclined, Rest, disk
<1>4. ASSUME NEW config \in Configs, PrepareRaises(config) PROVE Rest'
  <2>1. DraftsShareSettings'
    BY <1>4, SourceReviewAssumption
       DEF PrepareRaises, Claimable, Rest, DraftsShareSettings, Drafted
  <2> QED
    BY <1>4, <2>1, Undisturbed DEF PrepareRaises, Rest
<1>5. ASSUME NEW d \in Drafts, NEW expected \in 1..MaxGeneration, SavePage(d, expected) PROVE Rest'
  <2>1. \A e \in Drafts : draft'[e].settings = draft[e].settings
    <3>1. /\ [draft[d] EXCEPT !.torn = TRUE].settings = draft[d].settings
          /\ [draft[d] EXCEPT !.generation = @ + 1].settings = draft[d].settings
      BY <1>0 DEF DraftStates
    <3> QED
      BY <1>0, <1>5, <3>1 DEF SavePage
  <2>2. DraftsShareSettings'
    BY <1>5, <2>1 DEF SavePage, server, Rest, DraftsShareSettings, Drafted
  <2> QED
    BY <1>5, <2>2, Undisturbed DEF SavePage, server, Rest
<1>6. ASSUME NEW d \in Drafts, NEW expected \in 1..MaxGeneration, NEW reviewer \in Reviewers,
             NEW upto \in Nothing..Revision, NEW answered \in BOOLEAN,
             Submit(d, reviewer, expected, upto, answered)
      PROVE  Rest'
  <2>1. AcceptedFirst'
    <3>1. [generation |-> expected, reviewer |-> reviewer] # None
      BY SourceReviewAssumption DEF Acceptances
    <3> QED
      BY <1>0, <1>6, <3>1 DEF Submit, Editable, Rest, AcceptedFirst, Nothing, Revision
  <2>2. LoadedIsSealed'
    <3>1. \A e \in Drafts : published[e] = Revision => published'[e] = Revision
      BY <1>0, <1>6 DEF Submit, Nothing, Revision
    <3>2. \A j \in Jobs : jobs[j].source \in Drafts \union {Plain}
      BY <1>0 DEF JobStates
    <3> QED
      BY <1>6, <3>1, <3>2 DEF Submit, Rest, LoadedIsSealed
  <2>3. StartsAreReviewed'
    <3>1. \A e \in Drafts : reviews[e] # None => reviews'[e] # None
      <4>1. reviews[d] \in Reviews
        BY <1>0, <1>6 DEF Submit, Readable, Held
      <4>2. [reviews[d] EXCEPT !.submitted = TRUE] # None
        BY SourceReviewAssumption, <4>1 DEF Reviews
      <4> QED
        BY <1>0, <1>6, <4>2 DEF Submit
    <3> QED
      BY <1>6, <3>1 DEF Submit, Rest, StartsAreReviewed
  <2> QED
    BY <1>6, <2>1, <2>2, <2>3, Undisturbed DEF Submit, Rest
<1>7. ASSUME NEW d \in Drafts, NEW n \in Nonces, Keep(d, n) PROVE Rest'
  <2>1. StartsMakeOnce'
    BY <1>0, <1>7 DEF Keep, Rest, StartsMakeOnce, Starts
  <2>2. StartsAreReviewed'
    BY <1>0, <1>7 DEF Keep, Held, Rest, StartsAreReviewed, Starts
  <2> QED
    BY <1>7, <2>1, <2>2, Undisturbed DEF Keep, disk, Rest
<1>8. ASSUME NEW d \in Drafts, NEW n \in Nonces, StartRaises(d, n) PROVE Rest'
  <2>1. StartsMakeOnce'
    BY <1>0, <1>8 DEF StartRaises, Rest, StartsMakeOnce, Starts
  <2>2. StartsAreReviewed'
    BY <1>0, <1>8 DEF StartRaises, Rest, StartsAreReviewed, Starts
  <2> QED
    BY <1>8, <2>1, <2>2, Undisturbed DEF StartRaises, disk, Rest
<1>9. ASSUME NEW d \in Drafts, NEW n \in Nonces, NEW j \in Jobs, Start(d, n, j) PROVE Rest'
  <2>1. jobs'[j].stage = "queued" /\ jobs'[j].config \in Configs
    <3>1. reviews[d] \in Reviews
      BY <1>0, <1>9 DEF Start, Rest, StartsAreReviewed
    <3> QED
      BY <1>0, <1>9, <3>1 DEF Start, Reviews
  <2>2. \A i \in Jobs \ {j} : jobs'[i] = jobs[i]
    BY <1>0, <1>9 DEF Start
  <2>3. JobsConfigured' /\ LoadedIsSealed' /\ RunnerIsBound'
    BY <1>9, <2>1, <2>2 DEF Start, disk, Rest, JobsConfigured, LoadedIsSealed, RunnerIsBound
  <2>4. StartsMakeOnce'
    BY <1>0, <1>9 DEF Start, Rest, StartsMakeOnce, Starts
  <2>5. StartsAreReviewed'
    BY <1>0, <1>9 DEF Start, Rest, StartsAreReviewed, Starts
  <2> QED
    BY <1>9, <2>3, <2>4, <2>5, Undisturbed DEF Start, disk, Rest
<1>10. ASSUME NEW j \in Jobs, NEW config \in Configs, StartPlain(j, config) PROVE Rest'
  <2>1. jobs'[j].stage = "queued" /\ jobs'[j].config \in Configs
    BY <1>0, <1>10 DEF StartPlain
  <2>2. \A i \in Jobs \ {j} : jobs'[i] = jobs[i]
    BY <1>0, <1>10 DEF StartPlain
  <2>3. JobsConfigured' /\ LoadedIsSealed' /\ RunnerIsBound'
    BY <1>10, <2>1, <2>2 DEF StartPlain, disk, Rest, JobsConfigured, LoadedIsSealed, RunnerIsBound
  <2> QED
    BY <1>10, <2>3, Undisturbed DEF StartPlain, disk, Rest
<1>11. ASSUME NEW i \in Jobs, NEW j \in Jobs, ResumeJob(i, j) PROVE Rest'
  <2>1. jobs'[j].stage = "queued" /\ jobs'[j].config \in Configs
    <3>1. jobs[i] \in JobStates /\ jobs[i].config \in Configs /\ "queued" \in Stages
      BY <1>0, <1>11 DEF ResumeJob, Rest, JobsConfigured, Stages
    <3>2. jobs'[j] = [jobs[i] EXCEPT !.stage = "queued", !.config.resume = TRUE]
      BY <1>0, <1>11 DEF ResumeJob
    <3>3. [jobs[i].config EXCEPT !.resume = TRUE] \in Configs
      BY <3>1 DEF Configs
    <3> QED
      BY <3>1, <3>2, <3>3 DEF JobStates
  <2>2. \A k \in Jobs \ {j} : jobs'[k] = jobs[k]
    BY <1>0, <1>11 DEF ResumeJob
  <2>3. JobsConfigured' /\ LoadedIsSealed' /\ RunnerIsBound'
    BY <1>11, <2>1, <2>2 DEF ResumeJob, disk, Rest, JobsConfigured, LoadedIsSealed, RunnerIsBound
  <2> QED
    BY <1>11, <2>3, Undisturbed DEF ResumeJob, disk, Rest
<1>12. ASSUME NEW j \in Jobs, Reload(j) PROVE Rest'
  <2>1. Goes(j, "queued", "loaded") /\ "loaded" \in Stages
    BY <1>12 DEF Reload, Stages
  <2>2. JobsConfigured' /\ LoadedIsSealed' /\ RunnerIsBound'
    BY <1>0, <1>12, <2>1, Going
       DEF Reload, Retained, disk, Rest, JobsConfigured, LoadedIsSealed, RunnerIsBound
  <2> QED
    BY <1>12, <2>2, Undisturbed DEF Reload, disk, Rest
<1>13. ASSUME NEW j \in Jobs, JobFails(j) PROVE Rest'
  <2>1. PICK stage \in {"queued", "loaded"} : Goes(j, stage, "failed")
    BY <1>13 DEF JobFails
  <2>2. "failed" \in Stages
    BY DEF Stages
  <2>3. JobsConfigured' /\ LoadedIsSealed' /\ RunnerIsBound'
    BY <1>0, <1>13, <2>1, <2>2, Going
       DEF JobFails, disk, Rest, JobsConfigured, LoadedIsSealed, RunnerIsBound
  <2> QED
    BY <1>13, <2>3, Undisturbed DEF JobFails, disk, Rest
<1>14. ASSUME NEW j \in Jobs, Send(j) PROVE Rest'
  BY <1>14, Undisturbed DEF Send, disk, server, Rest
<1>15. ASSUME NEW j \in Jobs, LeaveRun(j) PROVE Rest'
  <2>1. \/ jobs'[j].stage = "failed" /\ jobs'[j].config = jobs[j].config
        \/ jobs'[j].stage = "completed"
    <3>1. "failed" \in Stages
      BY DEF Stages
    <3>2. CASE jobs' = [jobs EXCEPT ![j].stage = "failed"]
      <4>1. jobs'[j] = [jobs[j] EXCEPT !.stage = "failed"]
        BY <1>0, <3>2
      <4>2. jobs[j] \in JobStates
        BY <1>0
      <4> QED
        BY <3>1, <4>1, <4>2 DEF JobStates
    <3>3. CASE jobs' = [jobs EXCEPT ![j] = Completed]
      BY <1>0, <3>3, NewRecords
    <3> QED
      BY <1>15, <3>2, <3>3 DEF LeaveRun
  <2>2. \A i \in Jobs \ {j} : jobs'[i] = jobs[i]
    BY <1>0, <1>15 DEF LeaveRun
  <2>3. \A i \in Jobs : jobs'[i].stage # "running"
    BY <1>15, <2>1, <2>2 DEF LeaveRun, Rest, RunnerIsBound
  <2>4. JobsConfigured' /\ LoadedIsSealed' /\ RunnerIsBound'
    BY <1>15, <2>1, <2>2, <2>3
       DEF LeaveRun, Rest, JobsConfigured, LoadedIsSealed, RunnerIsBound
  <2>5. ReviewedIsStructured'
    <3>1. checkpoint \in Checkpoints
      BY <1>15 DEF LeaveRun, Rest, RunnerIsBound, TypeOK
    <3>2. PICK running \in BOOLEAN : checkpoint' = [checkpoint EXCEPT !.running = running]
      BY <1>15 DEF LeaveRun
    <3> QED
      BY <3>1, <3>2, SourceReviewAssumption DEF Checkpoints, Rest, ReviewedIsStructured
  <2> QED
    BY <1>15, <2>4, <2>5, Undisturbed DEF LeaveRun, Rest
<1>16. ASSUME NEW j \in Jobs, NEW structured \in BOOLEAN, Run(j, structured) PROVE Rest'
  <2>1. Goes(j, "loaded", "running") /\ "running" \in Stages
    BY <1>16 DEF Run, Stages
  <2>2. \A i \in Jobs : jobs[i].stage # "running"
    BY <1>16, SourceReviewAssumption DEF Run, Rest, RunnerIsBound
  <2>3. checkpoint' # None /\ checkpoint'.source = jobs[j].source /\ slot' = j
    <3>1. jobs[j].config \in Configs /\ jobs[j].source \in Drafts \union {Plain}
      BY <1>0, <2>1, Going DEF Rest, JobsConfigured, JobStates
    <3>2. checkpoint' \in Checkpoints
      BY <1>16, <3>1 DEF Run, Checkpoints, Configs
    <3> QED
      BY <1>16, <3>2, SourceReviewAssumption DEF Run
  <2>4. JobsConfigured' /\ LoadedIsSealed' /\ RunnerIsBound'
    BY <1>0, <1>16, <2>1, <2>2, <2>3, Going
       DEF Run, Rest, JobsConfigured, LoadedIsSealed, RunnerIsBound
  <2>5. DraftsShareSettings' /\ ReviewedIsStructured'
    BY <1>16 DEF Run, Rest, DraftsShareSettings, Drafted, ReviewedIsStructured
  <2> QED
    BY <1>16, <2>4, <2>5, Undisturbed DEF Run, Rest
<1>17. CASE Crash
  <2>1. DraftsShareSettings'
    BY <1>17 DEF Crash, disk, Rest, DraftsShareSettings, Drafted
  <2>2. JobsConfigured' /\ LoadedIsSealed' /\ RunnerIsBound'
    BY <1>17, NewRecords DEF Crash, JobsConfigured, LoadedIsSealed, RunnerIsBound
  <2>3. StartsMakeOnce' /\ StartsAreReviewed'
    BY <1>17 DEF Crash, StartsMakeOnce, StartsAreReviewed, Starts
  <2> QED
    BY <1>17, <2>1, <2>2, <2>3, Undisturbed DEF Crash, disk, Rest
<1>18. CASE UNCHANGED vars
  BY <1>18, Undisturbed DEF vars, disk, server, Rest
<1> QED
  BY <1>1, <1>2, <1>3, <1>4, <1>5, <1>6, <1>7, <1>8, <1>9, <1>10, <1>11, <1>12, <1>13, <1>14,
     <1>15, <1>16, <1>17, <1>18 DEF Next

\* What is on disk, in the reviews and in the jobs of a folder fits together at every moment, whatever
\* fails or dies in between: the parts above (browser_source_review.py,
\* ordinary_source_review_service.py).
THEOREM SourceInvariant == Spec => []IInv
<1>1. IInv /\ [Next]_vars => IInv'
  BY TypeStep, RestStep DEF IInv, Rest
<1> QED
  BY <1>1, InitInvariant, PTL DEF Spec

\* SourceReview keeps its types, for all its constants.
THEOREM TypeCorrect == Spec => []TypeOK
<1>1. IInv => TypeOK
  BY DEF IInv
<1> QED
  BY <1>1, SourceInvariant, PTL

-----------------------------------------------------------------------------
(* The refinement *)

\* Initially there is no draft, no acceptance, no checkpoint and no job.
LEMMA InitImplements == Init => Source!Init
<1> SUFFICES ASSUME Init PROVE Source!Init
  OBVIOUS
<1>1. \A d \in Drafts : draft[d] = NoDraft
  BY DEF Init
<1>2. {d \in Drafts : published[d] = Revision} = {}
  BY DEF Init, Nothing, Revision
<1> QED
  BY <1>1, <1>2 DEF Init, Source!Init, NoDraft

\* The variables of AcceptedSource, as SourceReview has them
Owner    == [d \in Drafts |-> draft[d].settings]
Text     == [d \in Drafts |-> draft[d].generation]
Sealed   == {d \in Drafts : published[d] = Revision}
Bound    == IF checkpoint = None THEN None ELSE checkpoint.source

\* What leaves alone all that AcceptedSource speaks of is a stutter.
LEMMA Stutter ==
  UNCHANGED <<Owner, Text, intent, Sealed, Bound, sent, made>> => UNCHANGED Source!vars
BY DEF Source!vars, Owner, Text, Sealed, Bound

\* Every step is a step of AcceptedSource or leaves what it promises about alone.
LEMMA StepImplements == IInv /\ [Next]_vars => [Source!Next]_(Source!vars)
<1> SUFFICES ASSUME IInv, [Next]_vars PROVE [Source!Next]_(Source!vars)
  OBVIOUS
<1>0. /\ draft \in [Drafts -> DraftStates]
      /\ published \in [Drafts -> Nothing..Revision]
      /\ jobs \in [Jobs -> JobStates]
      /\ made \in [Starts -> SUBSET Jobs]
  BY DEF IInv, TypeOK
<1>1. ASSUME NEW d \in Drafts, NEW config \in Configs, Prepare(d, config) PROVE Source!Next
  <2>1. Source!Draft(d, config.settings)
    <3>1. draft[d].settings = None /\ draft[d].generation = 0
      BY <1>1 DEF Prepare, NoDraft
    <3>2. \A e \in Drafts : draft[e].settings \in {None, config.settings}
      BY <1>1, SourceReviewAssumption DEF Prepare, Claimable, IInv, DraftsShareSettings, Drafted
    <3>3. Owner' = [Owner EXCEPT ![d] = config.settings]
      BY <1>0, <1>1 DEF Prepare, Owner
    <3>4. Text' = [Text EXCEPT ![d] = 1]
      BY <1>0, <1>1 DEF Prepare, Text
    <3>5. UNCHANGED <<intent, Sealed, Bound, sent, made>>
      BY <1>1 DEF Prepare, Sealed, Bound
    <3> QED
      BY <3>1, <3>2, <3>3, <3>4, <3>5 DEF Source!Draft, Owner, Text, Sealed, Bound
  <2>2. config.settings \in Settings
    BY DEF Configs
  <2> QED
    BY <2>1, <2>2 DEF Source!Next
<1>2. ASSUME NEW d \in Drafts, NEW expected \in 1..MaxGeneration, SavePage(d, expected)
      PROVE  Source!Next \/ UNCHANGED Source!vars
  <2>1. UNCHANGED <<intent, Sealed, Bound, sent, made>>
    BY <1>2 DEF SavePage, server, Sealed, Bound
  <2>2. draft[d].generation > 0 /\ intent[d] = None
    BY <1>2 DEF SavePage, Readable, Editable, IInv, AcceptedFirst
  <2>3. CASE draft' = [draft EXCEPT ![d].generation = @ + 1]
    <3>1. Owner' = Owner
      BY <1>0, <2>3 DEF Owner, DraftStates
    <3>2. Text' = [Text EXCEPT ![d] = @ + 1]
      BY <1>0, <2>3 DEF Text, DraftStates
    <3>3. Source!Edit(d)
      BY <2>1, <2>2, <3>1, <3>2 DEF Source!Edit, Owner, Text, Sealed, Bound
    <3> QED
      BY <3>3 DEF Source!Next
  <2>4. CASE draft' = [draft EXCEPT ![d].torn = TRUE]
    <3>1. Owner' = Owner /\ Text' = Text
      BY <1>0, <2>4 DEF Owner, Text, DraftStates
    <3> QED
      BY <2>1, <3>1, Stutter
  <2> QED
    BY <1>2, <2>3, <2>4 DEF SavePage
<1>3. ASSUME NEW d \in Drafts, NEW expected \in 1..MaxGeneration, NEW reviewer \in Reviewers,
             NEW upto \in Nothing..Revision, NEW answered \in BOOLEAN,
             Submit(d, reviewer, expected, upto, answered)
      PROVE  Source!Next \/ UNCHANGED Source!vars
  <2>1. UNCHANGED <<Owner, Text, Bound, sent, made>>
    BY <1>3 DEF Submit, Owner, Text, Bound
  <2>2. Sealed' = IF upto = Revision THEN Sealed \union {d} ELSE Sealed
    BY <1>0, <1>3 DEF Submit, Sealed, Nothing, Revision
  <2>3. CASE Editable(d) /\ upto # Nothing
    <3>1. intent[d] = None /\ expected > 1 /\ draft[d].generation = expected
      BY <1>3, <2>3 DEF Submit, Readable, Editable, IInv, AcceptedFirst
    <3>2. intent' = [intent EXCEPT ![d] = [generation |-> expected, reviewer |-> reviewer]]
      BY <1>3, <2>3 DEF Submit
    <3>3. Source!Accept(d, reviewer)
      BY <2>1, <2>2, <3>1, <3>2 DEF Source!Accept, Owner, Text, Sealed, Bound
    <3> QED
      BY <3>3 DEF Source!Next
  <2>4. CASE ~(Editable(d) /\ upto # Nothing)
    <3>1. UNCHANGED intent
      BY <1>3, <2>4 DEF Submit
    <3>2. CASE upto = Revision
      <4>1. intent[d] # None
        BY <1>0, <2>4, <3>2 DEF Editable, IInv, AcceptedFirst, Nothing, Revision
      <4>2. Source!Seal(d)
        BY <2>1, <2>2, <3>1, <3>2, <4>1 DEF Source!Seal, Owner, Text, Sealed, Bound
      <4> QED
        BY <4>2 DEF Source!Next
    <3>3. CASE upto # Revision
      BY <2>1, <2>2, <3>1, <3>3, Stutter
    <3> QED
      BY <3>2, <3>3
  <2> QED
    BY <2>3, <2>4
<1>4. ASSUME NEW d \in Drafts, NEW n \in Nonces, NEW j \in Jobs, Start(d, n, j) PROVE Source!Next
  <2>1. made[<<d, n>>] = {}
    BY <1>4 DEF Start, IInv, StartsMakeOnce, Starts
  <2>2. Source!Make(<<d, n>>, j)
    <3>1. made' = [made EXCEPT ![<<d, n>>] = {j}]
      BY <1>4, <2>1 DEF Start
    <3> QED
      BY <1>4, <2>1, <3>1 DEF Start, disk, Source!Make
  <2> QED
    BY <2>2 DEF Source!Next, Starts
<1>5. ASSUME NEW j \in Jobs, NEW structured \in BOOLEAN, Run(j, structured)
      PROVE  Source!Next \/ UNCHANGED Source!vars
  <2>1. jobs[j].source \in Drafts \union {Plain} /\ jobs[j].stage = "loaded"
    BY <1>0, <1>5 DEF Run, Goes, JobStates
  <2>2. jobs[j].source = Plain \/ jobs[j].source \in Sealed
    BY <2>1 DEF IInv, LoadedIsSealed, Sealed
  <2>3. Bound' = jobs[j].source
    <3>1. jobs[j].config \in Configs
      BY <2>1 DEF IInv, JobsConfigured
    <3>2. checkpoint' \in Checkpoints
      BY <1>5, <2>1, <3>1 DEF Run, Checkpoints, Configs
    <3> QED
      BY <1>5, <3>2, SourceReviewAssumption DEF Run, Bound
  <2>4. UNCHANGED <<Owner, Text, intent, Sealed, sent, made>>
    BY <1>5 DEF Run, Owner, Text, Sealed
  <2>5. CASE checkpoint = None
    <3>1. Source!Bind(jobs[j].source)
      BY <2>2, <2>3, <2>4, <2>5 DEF Source!Bind, Owner, Text, Sealed, Bound
    <3> QED
      BY <2>1, <3>1 DEF Source!Next
  <2>6. CASE checkpoint # None
    <3>1. checkpoint.source = jobs[j].source
      BY <1>5, <2>6 DEF Run, Admits, IInv, ReviewedIsStructured
    <3> QED
      BY <2>3, <2>4, <2>6, <3>1, Stutter DEF Bound
  <2> QED
    BY <2>5, <2>6
<1>6. ASSUME NEW j \in Jobs, Send(j) PROVE Source!Next
  <2>1. checkpoint # None /\ checkpoint.source = jobs[j].source
    BY <1>6 DEF Send, IInv, RunnerIsBound
  <2>2. jobs[j].source # None
    BY <1>0, SourceReviewAssumption DEF JobStates
  <2>3. Source!Send
    BY <1>6, <2>1, <2>2 DEF Send, disk, server, Source!Send
  <2> QED
    BY <2>3 DEF Source!Next
<1>7. CASE Crash
  <2>1. Source!Restart
    BY <1>7 DEF Crash, disk, Source!Restart
  <2> QED
    BY <2>1 DEF Source!Next
<1>8. ASSUME NEW j \in Jobs, LeaveRun(j) PROVE UNCHANGED Source!vars
  <2>1. UNCHANGED Bound
    <3>1. checkpoint \in Checkpoints
      BY <1>8 DEF LeaveRun, IInv, RunnerIsBound, TypeOK
    <3>2. PICK running \in BOOLEAN : checkpoint' = [checkpoint EXCEPT !.running = running]
      BY <1>8 DEF LeaveRun
    <3>3. checkpoint' \in Checkpoints /\ checkpoint'.source = checkpoint.source
      BY <3>1, <3>2 DEF Checkpoints
    <3> QED
      BY <3>1, <3>3, SourceReviewAssumption DEF Bound
  <2> QED
    BY <1>8, <2>1, Stutter DEF LeaveRun, Owner, Text, Sealed
<1>9. ASSUME UNCHANGED <<draft, published, intent, checkpoint, sent, made>>
      PROVE  UNCHANGED Source!vars
  BY <1>9, Stutter DEF Owner, Text, Sealed, Bound
<1>10. \A d \in Drafts, config \in Configs : Restore(d, config) => UNCHANGED Source!vars
  BY <1>9 DEF Restore, disk
<1>11. \A config \in Configs : PrepareDeclined(config) \/ PrepareRaises(config) => UNCHANGED Source!vars
  BY <1>9 DEF PrepareDeclined, PrepareRaises, disk
<1>12. \A d \in Drafts, n \in Nonces : Keep(d, n) \/ StartRaises(d, n) => UNCHANGED Source!vars
  BY <1>9 DEF Keep, StartRaises, disk
<1>13. \A j \in Jobs, config \in Configs : StartPlain(j, config) => UNCHANGED Source!vars
  BY <1>9 DEF StartPlain, disk
<1>14. \A i, j \in Jobs : ResumeJob(i, j) \/ Reload(j) \/ JobFails(j) => UNCHANGED Source!vars
  BY <1>9 DEF ResumeJob, Reload, JobFails, disk
<1>15. CASE UNCHANGED vars
  BY <1>9, <1>15 DEF vars, disk, server
<1> QED
  BY <1>1, <1>2, <1>3, <1>4, <1>5, <1>6, <1>7, <1>8, <1>10, <1>11, <1>12, <1>13, <1>14, <1>15
     DEF Next

\* The source review keeps what AcceptedSource promises, for any number of drafts, settings,
\* reviewers, starts and jobs: one acceptance of the text last saved, one bound source of all that
\* is sent, one job for each start.
THEOREM ImplementsAcceptedSource == Spec => SourceSpec
<1> QED
  BY InitImplements, StepImplements, SourceInvariant, PTL DEF Spec, SourceSpec, Source!Spec

-----------------------------------------------------------------------------
(* What follows for the operator *)

\* All that was sent from the folder is of one source, the one its checkpoint names, and that is a
\* draft only if its acceptance is completely on disk.
OneSourceIsSent ==
  \A source \in sent :
    /\ checkpoint # None /\ checkpoint.source = source
    /\ source # Plain => published[source] = Revision

\* What was accepted is the text that there is, and some page decision was saved in it.
AcceptedIsSaved ==
  \A d \in Drafts : intent[d] # None =>
    intent[d].generation = draft[d].generation /\ draft[d].generation > 1

\* An acceptance stands, with its reviewer.
AcceptancesStand == [][\A d \in Drafts : intent[d] # None => intent'[d] = intent[d]]_vars

\* The steps of AcceptedSource, in the review's own words: of its drafts ...
LEMMA DraftsStep ==
  ASSUME [Source!Next]_(Source!vars)
  PROVE  \/ Text' = Text /\ intent' = intent
         \/ \E d \in Drafts : Text[d] = 0 /\ Text' = [Text EXCEPT ![d] = 1] /\ intent' = intent
         \/ \E d \in Drafts :
              intent[d] = None /\ Text' = [Text EXCEPT ![d] = @ + 1] /\ intent' = intent
         \/ \E d \in Drafts, reviewer \in Reviewers :
              /\ Text[d] > 1 /\ intent[d] = None /\ Text' = Text
              /\ intent' = [intent EXCEPT ![d] = [generation |-> Text[d], reviewer |-> reviewer]]
<1>1. CASE UNCHANGED Source!vars
  BY <1>1 DEF Source!vars, Text
<1>2. ASSUME NEW d \in Drafts, NEW settings \in Settings, Source!Draft(d, settings)
      PROVE  Text[d] = 0 /\ Text' = [Text EXCEPT ![d] = 1] /\ intent' = intent
  BY <1>2 DEF Source!Draft, Text
<1>3. ASSUME NEW d \in Drafts, Source!Edit(d)
      PROVE  intent[d] = None /\ Text' = [Text EXCEPT ![d] = @ + 1] /\ intent' = intent
  BY <1>3 DEF Source!Edit, Text
<1>4. ASSUME NEW d \in Drafts, NEW reviewer \in Reviewers, Source!Accept(d, reviewer)
      PROVE  /\ Text[d] > 1 /\ intent[d] = None /\ Text' = Text
             /\ intent' = [intent EXCEPT ![d] = [generation |-> Text[d], reviewer |-> reviewer]]
  BY <1>4 DEF Source!Accept, Text
<1>5. ASSUME NEW d \in Drafts, Source!Seal(d) PROVE Text' = Text /\ intent' = intent
  BY <1>5 DEF Source!Seal, Text
<1>6. ASSUME NEW source \in Drafts \union {Plain}, Source!Bind(source)
      PROVE  Text' = Text /\ intent' = intent
  BY <1>6 DEF Source!Bind, Text
<1>7. ASSUME NEW s \in Starts, NEW j \in Jobs, Source!Make(s, j)
      PROVE  Text' = Text /\ intent' = intent
  BY <1>7 DEF Source!Make, Text
<1>8. CASE Source!Send \/ Source!Restart
  BY <1>8 DEF Source!Send, Source!Restart, Text
<1> QED
  BY <1>1, <1>2, <1>3, <1>4, <1>5, <1>6, <1>7, <1>8 DEF Source!Next

\* ... and of the source that is bound.
LEMMA BoundStep ==
  ASSUME [Source!Next]_(Source!vars)
  PROVE  \/ Bound' = Bound /\ Sealed \subseteq Sealed' /\ sent' = sent
         \/ \E source \in {Plain} \union Sealed :
              Bound = None /\ Bound' = source /\ Sealed' = Sealed /\ sent' = sent
         \/ /\ Bound # None /\ Bound' = Bound /\ Sealed' = Sealed
            /\ sent' = sent \union {Bound}
<1>1. CASE UNCHANGED Source!vars
  BY <1>1 DEF Source!vars, Bound, Sealed
<1>2. ASSUME NEW d \in Drafts, NEW settings \in Settings, Source!Draft(d, settings)
      PROVE  Bound' = Bound /\ Sealed' = Sealed /\ sent' = sent
  BY <1>2 DEF Source!Draft, Bound, Sealed
<1>3. ASSUME NEW d \in Drafts, Source!Edit(d)
      PROVE  Bound' = Bound /\ Sealed' = Sealed /\ sent' = sent
  BY <1>3 DEF Source!Edit, Bound, Sealed
<1>4. ASSUME NEW d \in Drafts, NEW reviewer \in Reviewers, Source!Accept(d, reviewer)
      PROVE  Bound' = Bound /\ Sealed \subseteq Sealed' /\ sent' = sent
  BY <1>4 DEF Source!Accept, Bound, Sealed
<1>5. ASSUME NEW d \in Drafts, Source!Seal(d)
      PROVE  Bound' = Bound /\ Sealed \subseteq Sealed' /\ sent' = sent
  BY <1>5 DEF Source!Seal, Bound, Sealed
<1>6. ASSUME NEW source \in Drafts \union {Plain}, Source!Bind(source)
      PROVE  /\ source \in {Plain} \union Sealed
             /\ Bound = None /\ Bound' = source /\ Sealed' = Sealed /\ sent' = sent
  BY <1>6 DEF Source!Bind, Bound, Sealed
<1>7. ASSUME NEW s \in Starts, NEW j \in Jobs, Source!Make(s, j)
      PROVE  Bound' = Bound /\ Sealed' = Sealed /\ sent' = sent
  BY <1>7 DEF Source!Make, Bound, Sealed
<1>8. CASE Source!Send
  BY <1>8 DEF Source!Send, Bound, Sealed
<1>9. CASE Source!Restart
  BY <1>9 DEF Source!Restart, Bound, Sealed
<1> QED
  BY <1>1, <1>2, <1>3, <1>4, <1>5, <1>6, <1>7, <1>8, <1>9 DEF Source!Next

\* Restarts, recoveries and jobs started beside each other never send two sources from one folder,
\* nor one whose acceptance could still be undone (submit, start_translate).
THEOREM OneSource == Spec => []OneSourceIsSent
<1> DEFINE Sent == sent \subseteq {Bound} \ {None} /\ Bound \in {None, Plain} \union Sealed
<1>1. Init => Sent
  BY DEF Init, Bound
<1>2. Sent /\ [Source!Next]_(Source!vars) => Sent'
  BY BoundStep
<1>3. Sent => OneSourceIsSent
  BY DEF OneSourceIsSent, Bound, Sealed
<1> QED
  BY <1>1, <1>2, <1>3, ImplementsAcceptedSource, PTL DEF Spec, SourceSpec, Source!Spec

\* Nobody edits what was accepted, and what was accepted was never the bare baseline, whoever saves,
\* submits or restores at the same time (save_page, submit).
THEOREM AcceptedTextStands == Spec => []AcceptedIsSaved
<1>1. Init => AcceptedIsSaved
  BY DEF Init, AcceptedIsSaved
<1>2. TypeOK /\ TypeOK' /\ AcceptedIsSaved /\ [Source!Next]_(Source!vars) => AcceptedIsSaved'
  <2> SUFFICES ASSUME TypeOK, TypeOK', AcceptedIsSaved, [Source!Next]_(Source!vars)
               PROVE  AcceptedIsSaved'
    OBVIOUS
  <2>1. /\ \A d \in Drafts : Text[d] = draft[d].generation /\ Text'[d] = draft'[d].generation
        /\ DOMAIN Text = Drafts /\ DOMAIN intent = Drafts
    BY DEF Text, TypeOK
  <2>2. \A d \in Drafts : intent[d] # None => intent[d].generation = Text[d] /\ Text[d] > 1
    BY <2>1 DEF AcceptedIsSaved
  <2>3. \A d \in Drafts : intent'[d] # None => intent'[d].generation = Text'[d] /\ Text'[d] > 1
    BY DraftsStep, <2>1, <2>2
  <2> QED
    BY <2>1, <2>3 DEF AcceptedIsSaved
<1> QED
  BY <1>1, <1>2, TypeCorrect, ImplementsAcceptedSource, PTL DEF Spec, SourceSpec, Source!Spec

\* An acceptance is never taken back or passed to another reviewer.
THEOREM AcceptedOnce == Spec => AcceptancesStand
<1>1. TypeOK /\ [Source!Next]_(Source!vars) =>
        [\A d \in Drafts : intent[d] # None => intent'[d] = intent[d]]_vars
  BY DraftsStep DEF TypeOK
<1> QED
  BY <1>1, TypeCorrect, ImplementsAcceptedSource, PTL DEF SourceSpec, Source!Spec, AcceptancesStand

===============================================================================
