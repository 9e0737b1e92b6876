# LegalPDF Translate: a verification development in TLA+

LegalPDF Translate turns legal PDFs into translated DOCX files page by page with a paid language-model
provider. Most of the repository is document processing, and no subject for a model checker. What is one is
the layer around it that must be right although processes die, writes fail, threads race and users press
buttons at any moment: who may spend money, what the records of the spending claim, which jobs are run again
after an interruption, who may work in a run folder, and what cancelling a job really stops.

The modules here are translations of that layer, checked with TLC on small instances; every safety property
they are found to keep is proved with TLAPS for every instance as well. `PROJECT.json` maps each
definition to the lines it stands for and names, for every property, a mutated definition that breaks it.
Paths below are relative to `src/legalpdf_translate/` in the repository unless they say otherwise.

## 1. Inventory

| Component | State it keeps | Operations | What is hard about it |
|---|---|---|---|
| Reservation budget (`budget_reservations.py`) | one JSON ledger: rows by reservation id, `blocked_reason`; an `_owner` per object | construct, `reserve`, `finalize`, `status` | executions that die between reserve and finalize; writes that raise after the file was replaced; the cap at its boundary |
| Dispatch accounting (`usage_accounting.py`) | append-only begin/finish journal; the flags `_recovered_in_flight`, `_persistence_failed` | construct, `begin`, `finish`, `can_retry`, `summary` | two files that cannot be written together; several page workers; restarts |
| Provider requests (`openai_client.py`) | none that lasts; a deadline and an attempt counter | `create_page_response`, its retry loop and recheck of the endpoint | errors after which nobody knows whether the call was charged |
| Queue runner (`queue_runner.py`) | checkpoint and summary file of a manifest | run, rerun failed only, stop | a crash between two of its writes; runs of two modes over one checkpoint |
| Run workspace lock (`run_workspace_lock.py`) | a lock file per folder, a registry per process | enter, nest, leave | processes, threads, forks, a replaced lock file |
| Translation jobs (`translation_service.py`, `ordinary_auto_layout.py`) | jobs and folder reservations in memory | start, resume, rebuild, cancel, recover the layout | event loop, thread pool and job threads share it; cancel races with completion |
| Workflow run (`workflow.py`, `checkpoint.py`, `structured_artifacts.py`, `new_translation_blocks.py`) | run state file, page files and commit markers, the pool's futures, the cancel event | run, resume, cancel, assemble, purge, rebuild | a death between any two of its writes: commit and status, journal and its identity, purge and deletion; workers that still write when the loop has raised |
| Document layout (`ordinary_layout_service.py`, `ordinary_layout_manager.py`, `ordinary_layout_accounting.py`, `ordinary_auto_layout.py`) | per job a folder of create-once directories: baselines, suggestions with their pages and results, authorizations, selections, the frozen delivery; per run folder the pointer and the candidate of the automatic stage | prepare, suggest, cancel, apply, authorize, select, freeze; the automatic stage, its recovery and repair | a crash or a busy folder between any two files; a paid suggestion that nobody may buy again; operator, stage and suggestion threads in one folder |
| Source review (`browser_source_review.py`, `ordinary_source_review_service.py`, `shadow_web/source_review_api.py`) | drafts, submissions and revisions on disk; reviews, start nonces and claims of run folders in memory | prepare, save a page, submit, restore, translate | a submission is three writes; a start whose outcome is unknown; claims dropped beside a new preparation |
| Saved layout, text correction, formatting review | create-once records beside a DOCX | publish, correct, review | the same conventions as the layout suggestions |
| Acceptance budget (`acceptance_budget.py`, `acceptance_*.py`) | an amendment of a legacy ledger | reserve, finalize, recheck | the ledger's protocol over an older format |
| Word automation (`word_automation.py`, `word_pdf_*.py`) | a control file with process identities | export, recover | an earlier helper that may still run |
| Gmail workspace (`gmail_browser_service.py`, `gmail_batch.py`, `gmail_intake.py`, `gmail_draft.py`) | one workspace in memory: loaded message, pending intake, batch or interpretation session | intake, prepare, confirm, preflight, finalize, draft, reset | slow calls beside intakes that the bridge serves in its own threads; a draft whose creation is not known to have failed |
| Gmail bridge and extension (`browser_gmail_bridge.py`, `gmail_focus_host.py`, `extensions/gmail_intake`) | owner record, native host, browser tabs | hand over a message | two servers that want the bridge; Windows processes and registry |
| Job log, honorarios (`joblog_*.py`, `honorarios_docx.py`) | SQLite rows | insert, update | left to the database |
| Browser application, GUI, extraction, OCR, document writing, validators, tooling | see `PROJECT.json` | | presentation or functions of document content |

How they interact. A **job** of the manager runs a **workflow** in a thread; the workflow takes the
**workspace lock** of its run folder, gives page tasks to a pool, and each page task makes a **provider
request**. A request calls the accountant's `begin`, which reserves in the **ledger** and then appends to
the **journal**; only then is it sent; `finish` settles the ledger and then appends again. The **queue
runner** runs workflows one after another for the desktop GUI. A completed job may go on to its **automatic
layout**, which makes provider requests of its own, in the **layout folder** that the operator's requests
share with it. A **source review** claims a run folder before its first job and starts that job itself. The
**Gmail workspace** hands attachments to jobs and takes their finished documents into one draft.

What makes each part correct:

- ledger: never above its cap; always loadable; a call whose price is unknown stops spending for good; what
  was settled stays settled;
- accounting: nothing is sent untraced; what it calls complete is true; a call lost by a crash stops every
  later one; requests end;
- queue: attempts on disk cover what was run; success reported is success; completed work is not run again,
  failed work is not forgotten;
- workspace lock: one owner per folder through one file, across threads, forks and deaths; if the file is
  replaced, the owner finds out;
- workflow run: paid pages are not bought again; a checkpoint never trusts evidence that is gone; a
  completed document is whole; a run ends;
- jobs: ended jobs stay ended; a cancel that was accepted holds; folders are given back, by who has them;
- layout: a delivery is frozen only when the price of every request is known, and then stays what it is;
  each kind of automatic suggestion is paid for once, however often the stage is entered; no suggestion
  overrides an edit;
- source review: a draft is accepted once, in its last text; one source is bound to a folder and sent; a
  start makes one job, even if its answer is lost;
- Gmail: attachments are confirmed once and in order; an intake is shown as loading only while
  somebody loads it; a batch gets no second draft after one that was reported.

The full list of what can go wrong, line by line, is `hazards` in `PROJECT.json`.

## 2. Modules

### ReservationBudget: the hard-cap ledger

`reservations` and `blocked_reason` are the file. `live` and `drawn` are the owners of objects that exist or
ever existed: a `ReservationBudget` object draws `_owner` from `uuid4`, and freshness of that draw is
assumed (`o \notin drawn`). Every operation holds the file's lock from load to replacement, so one operation
is one action: `Open` (construct), `Close` (the process dies), `Reserve`, `Finalize`. Every rejection in the
code raises and leaves the file unchanged, so it is simply a disabled action here. Money is a natural
number; the sum over the rows is the cardinality of the set `Units` of the money units the rows hold, which
makes it provable. Its initial state, next-state relation and specification are called `LedgerInit`,
`LedgerNext` and `LedgerSpec`, since PaidDispatch extends the module and has its own.

### PaidDispatch: journal, ledger and the attempts of the page workers

Extends `ReservationBudget`: the ledger's variables are its own and its steps call the ledger's actions. Each
worker has a program counter over the steps of one attempt; a step is a section of code under one lock:

| Step | Code |
|---|---|
| `StartRequest`, `Retry` | an attempt enters `begin()` with a fresh call id |
| `CheckFlags` | the test of the two flags, which nothing holds until the append |
| `HoldCeiling`, `ReserveRaises` | the ledger, with the row stored or not when it raises |
| `AppendBegin`, `AppendBeginRaises` | the journal, with the event stored or not when it raises |
| `Withhold`, `Send`, `Answer` | deadline or recheck refuse; the call; answer, error or timeout, priced or not |
| `FinalizeLedger`, `FinalizeRaises`, `AppendFinish`, `AppendFinishRaises`, `FinishRejected` | `finish()`: ledger, then journal, under the journal's lock (`JournalFree`) |
| `GiveUp` | not retryable, no attempt left, `can_retry` false, or the deadline |
| `Launch`, `Crash` | the process is started over the files there are; it dies anywhere |

`FailFinish` is the second `finish()` of a withheld attempt whose first `finish()` raised: the surrounding
handler takes it for a failed dispatch. `charge` is an observation: what the provider really charges, which
the program does not see. The outcomes `refused` and `timeout` of the code behave as `succeeded` and
`failed`. Without `hard_budget`, a variable chosen at the start, the journal alone counts.

### QueueRunner: one manifest, several runs

`checkpoint` and `summary` are the files, `jobs` the rows in memory, `pc` the place in `run_queue_manifest`.
`_persist` is two actions, for it replaces two files. `Crash` is the process dying or a write raising, at
any place. `executions` and `result` are observations for the properties. The branch for a row whose payload
is no object is left out: a manifest that was parsed has no such row.

### RunWorkspaceLock: processes, threads and files

`owners` is the registry `_OWNERS` of each process, `entering` an entry under its guard, `locked` the
processes whose descriptors share the operating system's lock on a file (a fork shares it, an unlock ends it
for all, a close only for one). `Fork` copies registry and descriptors, `AfterFork` is `_after_fork`,
`Replace` puts another file in the lock file's place, `Die` is external: the operating system closes the
descriptors. An `Exit` whose unlock raises closes its descriptor all the same. `shared` are the children that
copied the descriptor of an entry under way, which `_after_fork` does not know of; `forked` is an observation.

### TranslationJobs: the browser's jobs

`request` holds what the event loop and the thread pool are serving, so that a start is the three sections
of the lock that it is in the code (`Reserve`, `Record`, `Claim`), and a cancel is two (`Cancel`, then
`CancelWorkflow` after the lock). `thread` is where a job's thread is: `MarkRunning`, `Enter` (the slot, and
the clearing of the cancel event), `StartPage`, `Assemble`, how it `Comes` back, `MarkFinished` and, in a
section of its own, `Release`. The automatic layout is `LayoutPage`, `BeginPublication`, `LayoutSucceeds`,
`LayoutFails`; `Recover` is `recover_layout_job`. The workspace slot is the RunWorkspaceLock within one
process. Analyze jobs reserve the folder and enter no slot. `pages`, `layout_pages` and `acknowledged` are
observations: how many pages a job and its layout sent, and which cancels were acknowledged. **JobOutcome**
says what the browser may rely on: a report of an end stands, a layout is withdrawn or delivered, a folder
is given back by who has it, once for each end. TranslationJobs implements it (`JobSpec`).

### WorkflowRun: the runs of one folder

`state` is `run_state.json`, `files` what each page's files are (nothing, a part, the complete bundle or
text), `journal` whether there is accounting evidence, `document` the pages of the final DOCX. `mem`,
`task`, `pc`, `cancel` and `stop` are the process and vanish with it (`EndProcess`, `Crash`). `structured`
is the folder's protocol, chosen at the start and then fixed, since the code refuses to mix them.

| Part | Actions | Code |
|---|---|---|
| start | `Resume`; `Start`, `ClearPage`, `ClearState`, `NewState` | the refusals before anything is written (`CanResume`), recovery of commits; a fresh start, in a legacy folder over what was there |
| accounting | `BindJournal`, `Announce` | the journal is made, then its identity saved with the status |
| a page | `Begin`, `Ask`, `Answer`, `Write`, `Commit`, `Return`, `Fail` | the task in the pool; a structured page tests the cancel event before each long step, a legacy page does not |
| the loop | `Submit`, `Withdraw`, `CollectDone`, `CollectFailed`, `CollectSkipped`, `CollectRaises`, `Unwound` | futures, outcomes and saves; an exception waits for the workers, whose outcomes nobody records |
| the end | `Decide`, `Assemble`, `AssembleFails`, `RecordCompleted`, `RecordPurged`, `CleanPage`, `Cleaned`, `EndIncomplete`, `ExportRaises` | document, status, retention, partial runs |
| afterwards | `Rebuild`, `RecordRebuilt` | `rebuild_docx` over the files there are |

A refusal raises and changes nothing, so it is a disabled action. Resumes keep `keep_intermediates`, because
a checkpoint with other settings is refused. The pool's loop is modelled without its batches: the code takes
the outcomes of all futures that are done before it submits again, the model may submit between them, as the
code does when the second future is done a moment later. `bought` and `kept` are observations and start anew
with each checkpoint: a fresh start in a legacy folder gives its pages up by request.

**PagePurchase** is the promise of all that to whoever pays: a page is asked for until its result is kept
and never after, only while there is an account of it that a later run finds; structured evidence is never
given up and nothing else is put into the document; complete means every page is kept and in it. WorkflowRun
implements it (`PageSpec`): `asking` are the pages a task has sent, `accounted` that the checkpoint names
the journal there is, `kept` the pages whose commit marker or status says so.

### OrdinaryLayout: suggestions, stages and deliveries

The jobs are those of one run folder, resumed from one another. `folder` is a job's own layout folder
(baselines prepared, the review's generations by their authors, selection, automatic delivery, frozen
delivery), `op` the directory of each suggestion, `pointer` and `candidate` what the automatic stage keeps
in the run folder; these survive. `stage` and `runner` are threads and do not. An operation of the service
holds the folder's slot, so it is one action; the slot is not waited for, so that every action has a failing
sibling.

| Part | Actions | Code |
|---|---|---|
| baselines | `Prepared`, `Unprepared`, `OperatorPrepares` | `prepare`: objects, manifest, pointer; the pointer alone if an earlier call left it unwritten |
| a suggestion | `Begin`, `BeginFails`, `Page`, `Ask`, `Answer`, `Break`, `Lose`, `Fail`, `Apply`, `ApplyUnreceipted`, `Refuse`, `ApplyNothing`, `Sum`, `SumFails`, `Finish`, `FinishFails` | directory and intent, a request per page, its unknown outcome, the save into the review and its receipt, the cost summary, the result |
| the operator | `Suggest`, `CancelSuggestion`, `OperatorAuthorizes`, `Edit`, `SelectDelivery`, `Freeze` | the manager's routes |
| the automatic stage | `Start`, `Recover`, `Enter`, `Authorize`, `StagePrepares`, `Point`, `StageSuggests`, `RecoverResult`, `WriteResult`, `Build`, `Publish`, `Mark`, `StageFails`, `StageInterrupted` | `run_automatic_layout`, `_recover_settled_result`, `_finish_saved_proposals`, `publish_automatic_candidate` |

**LayoutDelivery** is its promise: a delivery is frozen only when every request sent for the job has a known
price; then neither the document nor the bill changes any more, and a priced suggestion sends nothing else
(`DeliverySpec`).

### SourceReview: drafts, submissions and starts

`published` is how much of a submission is on disk: intent, receipt, revision, in this order. The intent is
the acceptance, for whoever goes on with an interrupted submission must be the same reviewer of the same
text. `claim`, `reviews` and `operations` are the server's memory, which a `Crash` clears; `jobs` are the
jobs of the folder up to the sending of pages, with the loader's second look (`Reload`) and the guard before
each request (`Send`). `operations` holds what each nonce came to; `Start` may lose its answer. How jobs
reserve the folder is left to TranslationJobs. One review of a draft at a time, and the jobs of one life of
the server, are bounds.

**AcceptedSource** is its promise, and SourceReview implements it (`SourceSpec`).

### GmailSession: loads, confirmations, drafts

`workspace` is the registry's `_WorkspaceState`, `session` the batch or notice prepared last, `at` where the
event loop and each thread of the bridge is. A step is the code between two calls that last (Gmail, Word,
file system), because the manager's lock protects only the registry: `_store_loaded_result` is three steps
(`Loads`, `Clears`, `Stores`) of a thread that the loop does not wait for. The deletion of a temporary directory
raises when a file of it is open elsewhere, and ends what called it: `CleanupRaises` and `PreviewsRaise` of a
load, `ResetRaises`, `PrepareRaises`. `abandoned` is an observation: a cleanup has raised in the hands of who
loaded the intake that is shown. A workspace that a reset took out
is `detached`: who still writes to it writes to nothing anybody sees. `drafts` is an observation of Gmail,
where a draft may exist that its tool reported as failed.

## 3. Runs

| Run | Instance | What it shows |
|---|---|---|
| `ledger` | 3 calls, 3 executions, amounts 0, 1, 2, 4, cap 4 | the ledger always loads and stays within the cap, serves one execution at a time, stops after a lost call, never rewrites settled rows |
| `paid_dispatch` | 3 calls, 2 executions, 2 workers, 2 attempts, amounts 0, 1, cap 2, with and without a budget | real spend within the cap, traces before sending, journal and ledger agree, no blind retry, no dispatch after a lost call; a hold is settled at nothing but what its own call was charged (`SettledAtTheCharge`) |
| `queue` | 3 jobs, 3 runs | attempts cover executions, an ordinary run's success is real, only a failed-only run forgets completions |
| `workspace_lock` | 3 processes, 2 threads, 1 folder, 3 lock files, depth 2 | the lock is held while the registry says so and, but for forked children, only then; processes exclude each other, intrusion is noticed |
| `workflow_run` | 3 pages, 2 workers, any number of runs, crashes and rebuilds | WorkflowRun implements PagePurchase, missing evidence is on record, runs work on sound evidence, every run ends |
| `jobs` | 2 jobs, 1 folder, 1 page, 1 recovery | TranslationJobs implements JobOutcome, every job ends with its folder free |
| `jobs_cancel` | the same | the first disagreement of section 6 |
| `source_review` | 2 drafts, 2 settings, 2 reviewers, 1 nonce, 2 generations, 2 jobs in one life of the server | SourceReview implements AcceptedSource |
| `gmail` | 2 messages of which 1 names its reply address, batches of 2, 2 bridge threads, 2 drafts | attachments in order, no intake left as loading but by a cleanup that raised, no second draft |
| `gmail_reply` | the same with 1 bridge thread | the second disagreement of section 6 |
| `gmail_warming` | the same with 1 bridge thread | the third disagreement of section 6 |
| `layout` | 2 jobs, the second resumed from the first, 1 suggestion of the operator, 2 pages, 2 generations of a review, 2 events | suggestions keep edits, automatic payments, OrdinaryLayout implements LayoutDelivery |

Why these bounds are enough to see the interesting cases. Two page workers are what a race on journal or
ledger needs; with three call ids one of them can fail, retry and race with another. A cap of 2 with unit
ceilings, or of 4 with amounts up to 4, reaches the cap exactly, passes it, and leaves room for a cheap call
beside a dear one; the amount 0 is the boundary the withheld call takes. A third execution is needed to see
that a lost call stops *all* later ones; the ledger run has it, and the proof needs no bound. Three queue
runs are an ordinary one, a failed-only one and an ordinary one, in each order. Three processes let a
parent, its child and a stranger meet at one folder; depth 2 is the nesting the program has
(`export_partial_docx` inside `run`); three files are two replacements. Three pages in a pool of two let one
be done, one fail and one not be submitted; runs need no bound, as a folder has finitely many states. Two
jobs of one folder are what reservations are about; jobs of different folders share nothing but the
manager's lock. One page tells "sent" from "not sent". Two drafts let one be bound and the other be accepted
too late; a second generation is the least that can be accepted, as the baseline never is. Two attachments
have an order; two bridge threads can overtake each other and the loop. Two pages let a suggestion be half
answered. The events of the layout run are what an operator does and what goes wrong, in any combination of
two; the process may die any number of times beside them, at any step.

Deadlock is not checked: all these systems may come to rest (no request, the queue stopped, every job
ended), and the bounds on ids, executions, runs and jobs end every behaviour.

### Fairness

Safety properties need none. `workflow_run` assumes weak fairness of the run's own thread and of each page's
task from the time its pages are ready: a thread that can move does, and the provider answers or the request's
timeout fires. Of starts, resumes, cancels and deaths it assumes nothing: a crash ends the run too. `jobs` assumes weak fairness of each
job thread and of each request being served: every call of the workflow and of the layout runs under a
deadline, and nothing is assumed about which way it ends. Waiting for the workspace slot is no wait: a busy
slot raises.

## 4. Proofs

All theorems hold for every value of the constants, from the assumption each module names: that bounds and
amounts are naturals, that `None` and its like are none of the values they stand beside, that the pages of a
run are finitely many and not none, that there are finitely many folders to lock, and that the nonces of an
operator's suggestions (from `uuid4`) are none of the words the automatic stages use for theirs. Each proof has the
same shape: an invariant `IInv` that adds to the properties what a place in the code says about the records
at that moment; `Init => IInv`; one step per action; the properties from `IInv`.

| Module | Theorems | The argument |
|---|---|---|
| `PaidDispatchProof` | of the ledger: `LedgerTypeCorrect`, `LedgerAlwaysLoads`, `SingleExecutionInFlight`, `LedgerLostCallStops`, `SettledRowsNeverChange` | see below |
| | of the dispatch: `TypeCorrect`, `SendsAreTraced`, `JournalAndLedgerAgree`, `CompleteCoverage`, `RetriesKnowThePrice`, `SpendStaysWithinCap`, `LostCallStops`, `HoldsSettleAtTheCharge`, `LedgerPromisesHold` | see below |
| `QueueRunnerProof` | `TypeCorrect`, `AttemptsAreOnDisk`, `SuccessIsReal`, `OrdinaryForgetsNothing` | rows and checkpoint are equal but between a change and its save; an attempt is counted in both before it is made |
| `RunWorkspaceLockProof` | `TypeCorrect`, `OwnersAreLocked`, `FoldersAreGivenBack`, `OwnersExclude`, `IntrusionsAreNoticed` | a registry is each process's own, so exclusion goes by the operating system's lock: no two entries, registered or about to be, are through one file |
| `TranslationJobsProof` | `TypeCorrect`, `ImplementsJobOutcome`, and from it `DeliveredStandsAlone`, `EndsStand`, `FoldersStayTheirs` | each place of a job's thread fixes which statuses the records can have, although the code overwrites them untested; ends are counted against recoveries |
| `WorkflowRunProof` | `TypeCorrect`, `MissingIsRecorded`, `EvidenceSound`, `RunsArePurchases`, and from it `NothingIsBoughtTwice`, `CompletedMeansWhole` | see below |
| `OrdinaryLayoutProof` | `TypeCorrect`, `EditsAreKept`, `PaymentsAreAutomatic`, `ImplementsDelivery`, and from it `FrozenIsPriced`, `FrozenStands`, `PricesStand` | see below |
| `SourceReviewProof` | `TypeCorrect`, `ImplementsAcceptedSource`, and from it `OneSource`, `AcceptedTextStands`, `AcceptedOnce` | the drafts of a folder share the claim's settings; a job that was loaded has a sealed source; who runs is who the checkpoint is bound to |
| `GmailSessionProof` | `TypeCorrect`, `AttachmentsInOrder`, `OnlyCleanupLeavesWarming`, `OneReportedDraft` | the number being confirmed is the session's next, cleared workspace or not; who loads the intake that is shown belongs to the workspace that shows it, unless a cleanup raised in his hands; after a reported draft no finalization is under way |

**The ledger.** `LedgerIInv` is `LedgerTypeOK`, `LedgerFinite`, `OwnersDrawn`, `LedgerLoads` and
`OneExecutionInFlight` together. `LedgerLoads` is the heart of it and is not inductive alone: that a
reservation adds exactly its ceiling to the committed sum (lemma `CommittedAfterAdding`) needs a finite
ledger of typed rows, and that a settlement does not raise it (`CommittedAfterSettling`) needs the row's cost
to be within its ceiling. `LedgerLostCallStops` needs `OwnersDrawn`: a row whose owner is gone stays orphaned
only because no new object draws that owner again, which is what the code asks of `uuid4`.
`OneExecutionInFlight` follows from the owner comparison in `_blocked` and nothing else.

**The dispatch.** Every step of the dispatch is a step of the ledger or leaves it alone (lemma `LedgerStep`),
so that `LedgerIInv` is kept and is a part of `IInv`. That is so by the way the module is written and says
nothing of the code; it is the lemma `ImplementsLedger`, which lets `LedgerPromisesHold` take the ledger's
theorems over to the ledger that a run's workers share. `PlacesFit` says what
each place of an attempt means for the call's row and event (at "recording" a hold and no event, at "sent"
both and unfinished, at "answered" a price that is the real one or unknown), `CostsFit` that a cost on record
is what was charged, `SentFits` that what a request has sent before is priced. `SpendStaysWithinCap` then
follows from `LedgerLoads`: every unit charged is a unit committed (sent calls are held, settled ones cost
what the row says). `HoldsSettleAtTheCharge` is a part of `CostsFit`, whose step at a settlement needs what
`PlacesFit` says of the price that the attempt is about to settle. `LostCallStops` rests on the flag that an execution raises at its start and nothing
lowers.

**The runs.** `KeptFits` is the heart of `WorkflowRunProof`: what is kept was asked for, what the checkpoint
calls done is kept, and what is kept is in the checkpoint or, structured, on disk, so that a recovery finds
it. A page that is asked for is neither (`TaskFits`), hence never kept already; a run that assembles has all
pages done, hence kept. `StateFits` says that nothing is bought under a checkpoint that does not name the
journal. `MemoryFits` says where memory and checkpoint are the same, which is everywhere but between the
making of a state and its save. That the next page to submit exists (lemma `PendingHasMin`) rests on the
well-foundedness of the naturals.

**The layout.** None of the three safety properties of OrdinaryLayout is inductive, and each needs
something of its own. `SuggestionsKeepEdits` speaks of results, but a result is written by a thread that saved
before, or by a stage that found the save after a crash: `HistoryFits` and `SavedFits` say that whoever is
about to report an application has its place in the review, and that a suggestion has no place in its
baseline but the one after the generation it was asked for. `AutomaticPayments` speaks of requests that were
sent, but what authorizes them was looked at by a stage many steps earlier, before its thread waited and
others ran: `StagesFit` says what a stage at each step has established (the pointer is its job's, the
authorization there, the included suggestion failed at a known price), and `PaymentsFit` that this still
holds of every suggestion a stage has begun, because no step takes a pointer, a price or a result back.
Freezing at a known price (`DeliverySpec`) is about what is under way: `OpsFit` and `RunnersFit` say
that without an intent nothing was sent, that a request is sent only for the page after those answered, and
that a suggestion with a summary asks no more; so `Settled` excludes whatever runs, and with `FrozenFits`
nothing that belongs to a frozen job can send. That no page is paid for twice within a suggestion, which is
the part of `TypeOK` that bounds its requests, comes from the same two. The refinement goes through three lemmas by who moves (`StageSays`, `OperatorSays`,
`SuggestionSays`).

**The refinements.** `JobSpec`, `SourceSpec`, `PageSpec` and `DeliverySpec` are proved action
by action: each step, under the invariant, is a step of the abstract specification or stutters. What makes
the source review interesting is that the abstract `Accept` is one step and the code's three writes can stop
after any of them: the first is the acceptance, the last makes it usable.

**What others rely on.** An abstract specification says how its state may move; who reads that state relies on
what never comes of it, and that is stated in the words of the program: `NothingIsBoughtTwice` and
`CompletedMeansWhole` of the runs, `FrozenIsPriced`, `FrozenStands` and `PricesStand` of the deliveries,
`DeliveredStandsAlone`, `EndsStand` and `FoldersStayTheirs` of the jobs, `OneSource`, `AcceptedTextStands` and
`AcceptedOnce` of the review. Each is shown of the steps of the abstract specification alone (lemmas
`PurchaseStep`, `DeliveryStep`, `OutcomeStep`, `DraftsStep`, `BoundStep`) and carried over by the refinement;
some also use a type or a part of `IInv`. They have no runs of their own: the runs that check the refinements
(`JobSpec`, `SourceSpec`, `PageSpec`, `DeliverySpec`) check what they are drawn from.

Only model-checked are the two liveness properties `EveryJobEnds` and `RunEnds`: they
need fairness, and with it ENABLED, which the prover cannot reason about. The three disagreements of section 6
are counterexamples and stay with TLC.

A step that changes several fields of one entry of a function is written with one update inside the other,
`[f EXCEPT ![x] = [@ EXCEPT !.a = .., !.b = ..]]`: version 1.4.5 of the prover mistranslates two updates of
the same entry in one EXCEPT, and a proof over that form cannot be trusted.

## 5. What is not modelled

`PROJECT.json` gives the reason for each component. In short: the Word slot, the Arabic watch and the
acceptance budget have protocols and are planned (section 7); document extraction, OCR, writing and
validation are functions of content; the job log leaves atomicity to SQLite; front end and GUI present what
the managers hold. Inside the modelled parts:

- dispatch: time, and with it that a request ends (the attempts and the deadline see to that, and the model's
  bound on the calls would as well); pricing tables (a cost is one of a few values or unknown), prompt assembly, the billing identity
  that can also make a summary incomplete;
- jobs: result payloads, logging and progress; a thread that the system refuses to start;
- workflow: page routing (extraction, OCR, image fallback, quality gates), the acceptance continuation,
  edited or damaged files;
- layout: the continuations that keep pages of a failed operation (retained, direct, capacity revalidation),
  aliases of a resumed job, text corrections and edited Word copies, dollar amounts of an authorization,
  jobs with a hard budget of their own, building and verification of documents;
- source review: what a page decision says, tampering with retained files, submissions of the earlier format
  without an intent, the browser's own recovery state;
- Gmail: several workspaces (they share only the manager's lock), restoration of a session from its report,
  the demonstration review of the shadow mode, the bridge's owner record and the focus host.

## 6. Where code and documentation disagree

- `jobs_cancel`: the browser tells the user that the job stops after the current page. A cancel that comes
  before the run has cleared its event, or while the document is assembled, is accepted and has no effect on
  what is sent afterwards.
- `gmail_reply`: the app guide says that a reply address which the message names is preferred for its draft.
  The address is read from the workspace when the draft is made, and an intake of another message may have
  replaced it by then.
- `gmail_warming`: the plan of the web application's stabilization says that the pending fields are cleared
  on "unexpected failure paths" too. `_store_loaded_result` cleans the workspace up outside the handler that
  marks a failed intake; when a staged copy is open elsewhere, the deletion of the session's directory raises
  before the fields are cleared, and the intake is shown as loading by nobody. The property that is kept,
  `OnlyCleanupAbandons`, says that this is the only way.

Smaller remarks that no run is about:

- *Queue.* The PDF-to-DOCX guide says that completed jobs stay completed if the queue is stopped. A
  failed-only run marks them skipped in the shared checkpoint, and the next ordinary run executes them
  again; by `OnlyFailedOnlyForgets` that is the only way. A failed-only run that is interrupted leaves a
  failed job pending, which the next failed-only run passes over.
- *Jobs.* Two starts for one folder can both pass `_reserve`; the workspace lock still makes one of them
  fail. If the thread of a job cannot be started, the job stays queued and its folder reserved, so that every
  later start for it is refused. `_job_actions` offers cancel for a job that is queued, but `_mark_cancel_requested` refuses it until
  the workflow is built.
- *Workflow.* A structured page that is cancelled, fails or dies between its first file and its commit
  leaves a bundle that every later resume refuses, and a run that dies between the making of its journal and
  the saving of its identity leaves a folder that can be neither resumed nor, if structured, started again.
  The code asks for explicit recovery there.
- *Layout.* A busy slot or a crash at `finish_suggestion` leaves an operation pending for good, which blocks
  later suggestions and the freezing; so does a failed suggestion without a summary, which happens when it
  fails before its accountant exists. An application whose receipt fails is reported as failed although it
  was applied. A crash between `result.json` and the record of the results in the manager is not repaired by
  a repeat. The check that nothing of the run folder was selected (`ordinary_auto_layout.py:700`) is not
  made again before pages are bought. A frozen automatic delivery can no longer be resolved once the review
  is edited; a frozen reviewed one can (`test_ordinary_layout_service.py:131`).
- *Workspace lock.* A child forked while another thread of its parent enters a folder keeps that lock file
  open, and with it a lock that the parent ends by closing alone: by a refusal, its death, or an unlock that
  raises.
- *Source review.* `save_page` writes the next generation in place, so that a death in mid-write leaves a
  draft that can never be read again. After a restart no route restores a review, and a folder that is not
  empty and has no claim is refused, so that a draft not submitted is lost.
- *Gmail.* A repeated finalization of an interpretation makes a second draft. A preparation that fails
  leaves the old batch active although its staged copies are deleted. An older load may be stored after a
  newer one.

## 7. Plan

Done: ReservationBudget, PaidDispatch over it, QueueRunner, RunWorkspaceLock, WorkflowRun with PagePurchase,
TranslationJobs with JobOutcome, OrdinaryLayout with LayoutDelivery, SourceReview with AcceptedSource,
GmailSession; the proofs of section 4, with what follows from the abstract specifications for those who rely on them.

Next, in this order:

1. `WordPdfSlot` (`word_pdf_control.py`): no second export while helper or Word of the first may run.
2. The retained, direct and capacity continuations of the layout, and text corrections over its deliveries.
3. The quiet period of the Arabic review watch (`browser_arabic_review.py`).

The modules hold no RECURSIVE operator, so that all of them can be proved about.
