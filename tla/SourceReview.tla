----------------------------- MODULE SourceReview -----------------------------
(**********************************************************************************)
(* The source review of one run folder: source_review_api.py claims the folder    *)
(* for a configuration, browser_source_review.py keeps the reviews of this        *)
(* server and starts translations from them, and                                  *)
(* ordinary_source_review_service.py keeps drafts and accepted revisions on disk. *)
(* Jobs of the folder, reviewed or plain, run in its workspace slot               *)
(* (RunWorkspaceLock); how they reserve the folder is TranslationJobs' matter.    *)
(**********************************************************************************)
EXTENDS Integers, FiniteSets

CONSTANTS
  Drafts, Settings, Reviewers, Nonces,
  MaxGeneration,  \* bound: the generations of a draft
  MaxJobs,        \* bound: the jobs of the folder in one life of the server
  Plain,          \* the source of a translation that was not reviewed
  None

Jobs        == 1..MaxJobs
Configs     == [settings : Settings, resume : BOOLEAN]
Starts      == Drafts \X Nonces
Reviews     == [config : Configs, editable : BOOLEAN, submitted : BOOLEAN]
Acceptances == [generation : 1..MaxGeneration, reviewer : Reviewers]
Checkpoints == [source : Drafts \union {Plain}, settings : Settings,
                structured : BOOLEAN, running : BOOLEAN]

ASSUME SourceReviewAssumption ==
  /\ MaxGeneration \in Nat \ {0} /\ MaxJobs \in Nat
  /\ Plain \notin Drafts
  /\ None \notin Drafts \union Settings \union Jobs \union {Plain}
  /\ None \notin Configs \union Reviews \union Acceptances \union Checkpoints

VARIABLES
  \* the run folder
  touched,     \* whether it holds more than its lock file
  draft,       \* source_reviews/drafts
  published,   \* how much of a draft's submission is on disk
  intent,      \* submit_intent.json
  checkpoint,  \* run_state.json
  \* the server
  claim,       \* _run_owners
  reviews,     \* _reviews: one of each draft at most (bound)
  operations,  \* what each operation of a review came to, by its nonce
  jobs,        \* the jobs of the folder and their threads
  slot,        \* the job in the workspace slot
  sent,        \* the sources of which something was sent (observation)
  made         \* the jobs each operation made (observation)

disk   == <<touched, draft, published, intent, checkpoint>>
server == <<claim, reviews, operations, jobs, slot>>
vars   == <<disk, server, sent, made>>

\* The writes of a submission, in their order.
Nothing == 0
Intent == 1
Receipt == 2
Revision == 3

NoDraft  == [settings |-> None, generation |-> 0, torn |-> FALSE]
Completed == [stage |-> "completed", source |-> Plain, config |-> None]
NoJob     == [stage |-> "absent", source |-> Plain, config |-> None]

Init ==
  /\ touched = FALSE
  /\ draft = [d \in Drafts |-> NoDraft]
  /\ published = [d \in Drafts |-> Nothing]
  /\ intent = [d \in Drafts |-> None]
  /\ checkpoint = None
  /\ claim = None
  /\ reviews = [d \in Drafts |-> None]
  /\ operations = [s \in Starts |-> "none"]
  /\ jobs = [j \in Jobs |-> NoJob]
  /\ slot = None
  /\ sent = {}
  /\ made = [s \in Starts |-> {}]

-----------------------------------------------------------------------------
(* Preparing a review *)

\* _scope: the slot is free and the checkpoint, if there is one, has these settings.
Scope(settings) ==
  /\ slot = None
  /\ checkpoint # None => checkpoint.settings = settings

\* An operation that may write also wants the run to be over.
IdleScope(settings) == Scope(settings) /\ (checkpoint # None => ~checkpoint.running)

\* SourceReviewRoutes._prepare: the claim that is there, or a new one of an empty folder.
Claimable(config) == claim = config \/ (claim = None /\ ~touched)

\* The baseline of a draft is retained. A full registry gives it no review.
Prepare(d, config) ==
  /\ Claimable(config) /\ IdleScope(config.settings)
  /\ draft[d] = NoDraft
  /\ claim' = config
  /\ touched' = TRUE
  /\ draft' = [draft EXCEPT ![d] = [settings |-> config.settings, generation |-> 1, torn |-> FALSE]]
  /\ reviews' \in {reviews,
       [reviews EXCEPT ![d] = [config |-> config, editable |-> TRUE, submitted |-> FALSE]]}
  /\ UNCHANGED <<published, intent, checkpoint, operations, jobs, slot, sent, made>>

\* A declined preparation wrote nothing; a claim made for it is dropped if the folder is empty.
PrepareDeclined(config) ==
  /\ slot = None
  /\ Claimable(config)
  /\ claim' = IF claim = None /\ ~touched THEN None ELSE config
  /\ UNCHANGED <<disk, reviews, operations, jobs, slot, sent, made>>

\* A preparation that raises may have written some of its directories and objects; the
\* claim stays.
PrepareRaises(config) ==
  /\ slot = None
  /\ Claimable(config)
  /\ claim' = config
  /\ touched' \in {touched, IdleScope(config.settings)}
  /\ touched => touched'
  /\ UNCHANGED <<draft, published, intent, checkpoint, reviews, operations, jobs, slot, sent, made>>

-----------------------------------------------------------------------------
(* Reviewing *)

\* A review that starts a translation holds its lock.
Starting(d) == \E n \in Nonces : operations[<<d, n>>] = "starting"

Held(d) == reviews[d] # None /\ ~Starting(d)

\* _draft and the look at the expected generation: the draft is read at its last one.
Readable(d, expected) ==
  /\ Held(d) /\ reviews[d].editable
  /\ IdleScope(draft[d].settings)
  /\ ~draft[d].torn
  /\ expected = draft[d].generation

EditableUntilReceipt(d) == published[d] < Receipt  \* mutant: the intent is not looked at

\* _editable
Editable(d) == published[d] = Nothing

\* The next generation is written, and may be left half written for good.
SavePage(d, expected) ==
  /\ Readable(d, expected) /\ Editable(d)
  /\ draft[d].generation < MaxGeneration
  /\ draft' \in {[draft EXCEPT ![d].generation = @ + 1], [draft EXCEPT ![d].torn = TRUE]}
  /\ UNCHANGED <<touched, published, intent, checkpoint, server, sent, made>>

\* The intent, the receipt and the revision are published in turn, up to the one with which
\* it stops; a submission that was begun is gone on with, for the same reviewer.
Submit(d, reviewer, expected, upto, answered) ==
  /\ Readable(d, expected)
  /\ IF Editable(d) THEN expected > 1 ELSE intent[d].reviewer = reviewer
  /\ upto \in published[d]..Revision
  /\ answered => upto = Revision
  /\ published' = [published EXCEPT ![d] = upto]
  /\ intent' = IF Editable(d) /\ upto # Nothing
               THEN [intent EXCEPT ![d] = [generation |-> expected, reviewer |-> reviewer]]
               ELSE intent
  /\ reviews' = IF answered THEN [reviews EXCEPT ![d].submitted = TRUE] ELSE reviews
  /\ UNCHANGED <<touched, draft, checkpoint, claim, operations, jobs, slot, sent, made>>

\* load_context: the revision, its receipt and its intent are there and agree.
Retained(d) ==
  /\ published[d] = Revision
  /\ Scope(draft[d].settings)

\* restore: an explicit recovery, with the original settings, of a revision without its draft.
Restore(d, config) ==
  /\ reviews[d] = None
  /\ Retained(d) /\ config.settings = draft[d].settings
  /\ reviews' = [reviews EXCEPT ![d] =
       [config |-> [config EXCEPT !.resume = TRUE], editable |-> FALSE, submitted |-> TRUE]]
  /\ UNCHANGED <<disk, claim, operations, jobs, slot, sent, made>>

-----------------------------------------------------------------------------
(* Starting a translation *)

\* start_translate: the revision is loaded and the nonce kept before the call that may
\* start a job; the same nonce is answered from what was kept.
Keep(d, n) ==
  /\ Held(d) /\ reviews[d].submitted
  /\ operations[<<d, n>>] = "none"
  /\ Retained(d)
  /\ operations' = [operations EXCEPT ![<<d, n>>] = "starting"]
  /\ UNCHANGED <<disk, claim, reviews, jobs, slot, sent, made>>

NextJob(j) == jobs[j] = NoJob /\ \A i \in Jobs : i < j => jobs[i] # NoJob

\* The job was started, and its answer came or was lost.
Start(d, n, j) ==
  /\ operations[<<d, n>>] = "starting"
  /\ NextJob(j)
  /\ jobs' = [jobs EXCEPT ![j] = [stage |-> "queued", source |-> d, config |-> reviews[d].config]]
  /\ \E status \in {"started", "unknown"} : operations' = [operations EXCEPT ![<<d, n>>] = status]
  /\ made' = [made EXCEPT ![<<d, n>>] = @ \union {j}]
  /\ UNCHANGED <<disk, claim, reviews, slot, sent>>

\* The folder is reserved, or the manager refuses for some other reason.
StartRaises(d, n) ==
  /\ operations[<<d, n>>] = "starting"
  /\ operations' = [operations EXCEPT ![<<d, n>>] = "unknown"]
  /\ UNCHANGED <<disk, claim, reviews, jobs, slot, sent, made>>

StartPlain(j, config) ==
  /\ NextJob(j)
  /\ jobs' = [jobs EXCEPT ![j] = [stage |-> "queued", source |-> Plain, config |-> config]]
  /\ UNCHANGED <<disk, claim, reviews, operations, slot, sent, made>>

\* resume_job: the new job has the source and the loader of the one that failed.
ResumeJob(i, j) ==
  /\ jobs[i].stage = "failed" /\ NextJob(j)
  /\ jobs' = [jobs EXCEPT ![j] = [jobs[i] EXCEPT !.stage = "queued", !.config.resume = TRUE]]
  /\ UNCHANGED <<disk, claim, reviews, operations, slot, sent, made>>

-----------------------------------------------------------------------------
(* The jobs *)

Goes(j, from, to) == jobs[j].stage = from /\ jobs' = [jobs EXCEPT ![j].stage = to]

\* load_reviewed_source: the revision is loaded once more before there is any client.
Reload(j) ==
  /\ Goes(j, "queued", "loaded")
  /\ jobs[j].source # Plain => ~Starting(jobs[j].source) /\ Retained(jobs[j].source)
  /\ UNCHANGED <<disk, claim, reviews, operations, slot, sent, made>>

\* The loader, the busy slot or the workflow's refusals.
JobFails(j) ==
  /\ \E stage \in {"queued", "loaded"} : Goes(j, stage, "failed")
  /\ UNCHANGED <<disk, claim, reviews, operations, slot, sent, made>>

\* run: a checkpoint is resumed for the same source and settings, and only one of legacy
\* text is started over, by a legacy run. A reviewed run is structured.
Admits(j, structured) ==
  checkpoint # None =>
    IF jobs[j].config.resume
    THEN /\ checkpoint.source = jobs[j].source
         /\ checkpoint.settings = jobs[j].config.settings
         /\ checkpoint.structured = structured
    ELSE ~checkpoint.structured /\ ~structured

Run(j, structured) ==
  /\ slot = None
  /\ Goes(j, "loaded", "running")
  /\ jobs[j].source # Plain => structured
  /\ Admits(j, structured)
  /\ slot' = j
  /\ touched' = TRUE
  /\ checkpoint' = [source |-> jobs[j].source, settings |-> jobs[j].config.settings,
                    structured |-> structured, running |-> TRUE]
  /\ UNCHANGED <<draft, published, intent, claim, reviews, operations, sent, made>>

\* A page is sent after the source_guard has looked at checkpoint and revision again.
Send(j) ==
  /\ jobs[j].stage = "running"
  /\ jobs[j].source # Plain =>
       checkpoint.source = jobs[j].source /\ published[jobs[j].source] = Revision
  /\ sent' = sent \union {jobs[j].source}
  /\ UNCHANGED <<disk, server, made>>

LeaveRunHoldsSlot(j) ==  \* mutant: a run that raises stays in the slot
  /\ jobs[j].stage = "running"
  /\ \/ jobs' = [jobs EXCEPT ![j].stage = "failed"] /\ UNCHANGED slot
     \/ jobs' = [jobs EXCEPT ![j] = Completed] /\ slot' = None
  /\ \E running \in BOOLEAN : checkpoint' = [checkpoint EXCEPT !.running = running]
  /\ UNCHANGED <<touched, draft, published, intent, claim, reviews, operations, sent, made>>

\* The run returns or raises; some exceptions leave the checkpoint as it was.
LeaveRun(j) ==
  /\ jobs[j].stage = "running"
  /\ jobs' \in {[jobs EXCEPT ![j].stage = "failed"], [jobs EXCEPT ![j] = Completed]}
  /\ slot' = None
  /\ \E running \in BOOLEAN : checkpoint' = [checkpoint EXCEPT !.running = running]
  /\ UNCHANGED <<touched, draft, published, intent, claim, reviews, operations, sent, made>>

\* The process dies; with it its claims, its reviews and its jobs.
Crash ==
  /\ claim' = None
  /\ reviews' = [d \in Drafts |-> None]
  /\ operations' = [s \in Starts |-> "none"]
  /\ jobs' = [j \in Jobs |-> NoJob]
  /\ slot' = None
  /\ made' = [s \in Starts |-> {}]
  /\ UNCHANGED <<disk, sent>>

-----------------------------------------------------------------------------
Next ==
  \/ \E d \in Drafts, config \in Configs : Prepare(d, config) \/ Restore(d, config)
  \/ \E config \in Configs : PrepareDeclined(config) \/ PrepareRaises(config)
  \/ \E d \in Drafts, expected \in 1..MaxGeneration :
       \/ SavePage(d, expected)
       \/ \E reviewer \in Reviewers, upto \in Nothing..Revision, answered \in BOOLEAN :
            Submit(d, reviewer, expected, upto, answered)
  \/ \E d \in Drafts, n \in Nonces :
       \/ Keep(d, n) \/ StartRaises(d, n)
       \/ \E j \in Jobs : Start(d, n, j)
  \/ \E j \in Jobs :
       \/ \E config \in Configs : StartPlain(j, config)
       \/ \E i \in Jobs : ResumeJob(i, j)
       \/ Reload(j) \/ JobFails(j) \/ Send(j) \/ LeaveRun(j)
       \/ \E structured \in BOOLEAN : Run(j, structured)
  \/ Crash

Spec == Init /\ [][Next]_vars

-----------------------------------------------------------------------------
(* Properties *)

DraftStates == [settings : Settings \union {None}, generation : 0..MaxGeneration, torn : BOOLEAN]
Stages      == {"absent", "queued", "loaded", "running", "failed", "completed"}
JobStates   == [stage : Stages, source : Drafts \union {Plain}, config : Configs \union {None}]

\* Every variable stays in its type, and only a job that runs is in the slot.
TypeOK ==
  /\ touched \in BOOLEAN
  /\ draft \in [Drafts -> DraftStates]
  /\ published \in [Drafts -> Nothing..Revision]
  /\ intent \in [Drafts -> Acceptances \union {None}]
  /\ checkpoint \in Checkpoints \union {None}
  /\ claim \in Configs \union {None}
  /\ reviews \in [Drafts -> Reviews \union {None}]
  /\ operations \in [Starts -> {"none", "starting", "started", "unknown"}]
  /\ jobs \in [Jobs -> JobStates]
  /\ slot \in Jobs \union {None} /\ (slot # None => jobs[slot].stage = "running")
  /\ sent \subseteq Drafts \union {Plain}
  /\ made \in [Starts -> SUBSET Jobs]

\* The review keeps the promise of AcceptedSource through failures in the middle of a
\* submission, deaths, retries, several reviews and jobs of the folder and a lost answer to a
\* start: the settings of its drafts, the one acceptance of the text last saved, the one
\* source that is bound and sent, and the one job of a nonce.
Source == INSTANCE AcceptedSource WITH
  owner    <- [d \in Drafts |-> draft[d].settings],
  text     <- [d \in Drafts |-> draft[d].generation],
  accepted <- intent,
  sealed   <- {d \in Drafts : published[d] = Revision},
  bound    <- IF checkpoint = None THEN None ELSE checkpoint.source

SourceSpec == Source!Spec

=============================================================================
