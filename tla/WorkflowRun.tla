------------------------------ MODULE WorkflowRun ------------------------------
(*******************************************************************************)
(* workflow.py, checkpoint.py, structured_artifacts.py: the runs of one        *)
(* document in one run folder. A run translates the selected pages in a pool   *)
(* of workers, records each page in the checkpoint run_state.json and, when    *)
(* all are done, assembles the document. It may be cancelled, raise or die at  *)
(* any point, and be resumed or started again on the files that it left.       *)
(*                                                                             *)
(* The folder's protocol is fixed: structured (legal_blocks_v2), whose pages   *)
(* are bundles of files with a commit written last, or legacy (one text file). *)
(* Mixing them is refused. The workspace lock makes runs and rebuilds of a     *)
(* folder follow one another (RunWorkspaceLock); the requests of a page, its   *)
(* correction included, are one Ask here (PaidDispatch has them in detail).    *)
(*******************************************************************************)
EXTENDS Integers, FiniteSets, FiniteSetsExt

CONSTANTS
  Pages,    \* the selected pages
  Workers,  \* the pool's max_workers
  NoState   \* no readable run_state.json

VARIABLES
  structured,  \* whether the folder's protocol is legal_blocks_v2
  state,       \* run_state.json, or NoState
  files,       \* what each page's files are
  journal,     \* whether accounting/ holds a journal
  document,    \* the pages in the final DOCX of the checkpoint's run_started_at
  pc,          \* where the run is; "none" when there is no run
  mem,         \* the RunState in memory
  task,        \* where each page's task is
  cancel,      \* _cancel_event
  stop,        \* stop_submitting after a failed page
  bought,      \* the pages asked for since the checkpoint was made (observation)
  kept         \* the pages whose paid result became durable since then (observation)

folder  == <<structured, state, files, journal, document>>
process == <<pc, mem, task, cancel, stop>>
vars    == <<folder, process, bought, kept>>

Statuses == {"pending", "done", "failed"}

\* A RunState: run_status ("failed" stands for every kind of failure), the pages, whether
\* dispatch_accounting names a journal, whether the structured evidence was purged, and
\* the keep_intermediates of its settings.
States == [status : {"pending", "running", "completed", "cancelled", "failed"},
           page : [Pages -> Statuses], ref : BOOLEAN, purged : BOOLEAN, keep : BOOLEAN]

ASSUME WorkflowAssumption ==
  /\ Pages \subseteq Nat /\ IsFiniteSet(Pages) /\ Pages # {}
  /\ Workers \in Nat \ {0}
  /\ NoState \notin States

FreshState(keep) == [status |-> "pending", page |-> [p \in Pages |-> "pending"],
                     ref |-> FALSE, purged |-> FALSE, keep |-> keep]

Places == {"waiting", "queued", "working", "asked", "answered", "writing", "written",
           "ok", "bad", "skipped", "over"}

Done(s)     == {p \in Pages : s.page[p] = "done"}
Complete    == {p \in Pages : files[p] = "complete"}
PagesExist  == \E p \in Pages : files[p] # "none"
Pending     == {p \in Pages \ Done(mem) : task[p] = "waiting"}

\* The futures: submitted and not taken by the loop.
Futures == {p \in Pages : task[p] \notin {"waiting", "over"}}
Running == {p \in Futures : task[p] \notin {"ok", "bad", "skipped"}}

NoTasks == [p \in Pages |-> "waiting"]

Init ==
  /\ structured \in BOOLEAN
  /\ state = NoState /\ files = [p \in Pages |-> "none"] /\ journal = FALSE /\ document = {}
  /\ pc = "none" /\ mem = NoState /\ task = NoTasks /\ cancel = FALSE /\ stop = FALSE
  /\ bought = {} /\ kept = {}

\* The run is over and gives the folder back, whatever it has just written.
EndProcess ==
  /\ pc' = "none" /\ mem' = NoState /\ task' = NoTasks /\ cancel' = FALSE /\ stop' = FALSE

Save(s) == mem' = s /\ state' = s

-----------------------------------------------------------------------------
(* The start of a run *)

CanResumeUnread(s) ==  \* mutant: the page files are not looked at
  /\ journal => s.ref

\* The checks that refuse a resume before anything is written: a journal needs its
\* identity in the checkpoint, the done pages need their files, and structured evidence
\* must be neither purged nor incomplete on any page.
CanResume(s) ==
  /\ journal => s.ref
  /\ Done(s) \subseteq Complete
  /\ structured => ~s.purged /\ \A p \in Pages : files[p] # "partial"

NothingRecovered(s) == s  \* mutant: a commit without its checkpoint entry is passed over

RecoveredAsCommitted(s) ==  \* mutant: the recovered page gets a status of its own
  [s EXCEPT !.page = [p \in Pages |-> IF structured /\ p \in Complete THEN "committed" ELSE s.page[p]]]

\* recover_structured_commits: a complete bundle was paid for and committed, although the
\* run ended before it was recorded.
Recovered(s) ==
  [s EXCEPT !.page = [p \in Pages |-> IF structured /\ p \in Complete THEN "done" ELSE s.page[p]]]

Resume ==
  /\ pc = "none" /\ state # NoState
  /\ CanResume(state)
  /\ Save(Recovered(state))
  /\ pc' = "bind"
  /\ UNCHANGED <<structured, files, journal, document, task, cancel, stop, bought, kept>>

\* A run with resume off, or without a checkpoint: structured evidence is never given up,
\* a legacy folder is cleared.
Start(keep) ==
  /\ pc = "none"
  /\ structured => state = NoState /\ ~PagesExist
  /\ mem' = FreshState(keep)
  /\ pc' = IF structured THEN "new" ELSE "clear"
  /\ UNCHANGED <<folder, task, cancel, stop, bought, kept>>

RemoveFile(p) == files[p] # "none" /\ files' = [files EXCEPT ![p] = "none"]

\* clear_run_dirs: the pages go first, then the checkpoint.
ClearPage(p) ==
  /\ pc = "clear" /\ RemoveFile(p)
  /\ UNCHANGED <<structured, state, journal, document, process, bought, kept>>

ClearState ==
  /\ pc = "clear" /\ ~PagesExist
  /\ state' = NoState
  /\ pc' = "new"
  /\ UNCHANGED <<structured, files, journal, document, mem, task, cancel, stop, bought, kept>>

\* new_run_state, saved; its run_started_at gives the document a new name.
NewState ==
  /\ pc = "new"
  /\ Save(mem)
  /\ document' = {} /\ bought' = {} /\ kept' = {}
  /\ pc' = "bind"
  /\ UNCHANGED <<structured, files, journal, task, cancel, stop>>

\* _initialize_dispatch_accounting: the saved journal is opened, or a new one made ...
BindJournal ==
  /\ pc = "bind"
  /\ journal' = TRUE
  /\ mem' = [mem EXCEPT !.ref = TRUE]
  /\ pc' = "announce"
  /\ UNCHANGED <<structured, state, files, document, task, cancel, stop, bought, kept>>

\* ... and its identity is saved with the status.
Announce ==
  /\ pc = "announce"
  /\ Save([mem EXCEPT !.status = "running"])
  /\ pc' = "ready"
  /\ UNCHANGED <<structured, files, journal, document, task, cancel, stop, bought, kept>>

\* The estimate is above the budget, or there are no credentials for the pages.
Block ==
  /\ pc = "ready"
  /\ state' = [mem EXCEPT !.status = "failed"]
  /\ EndProcess
  /\ UNCHANGED <<structured, files, journal, document, bought, kept>>

Open ==
  /\ pc = "ready"
  /\ pc' = "pool"
  /\ UNCHANGED <<folder, mem, task, cancel, stop, bought, kept>>

-----------------------------------------------------------------------------
(* The task of page p *)

InPool == pc \in {"pool", "unwind"}

Move(p, from, to) == InPool /\ task[p] = from /\ task' = [task EXCEPT ![p] = to]

\* Structured pages look at the cancel event before each step that lasts.
Heeds == structured => ~cancel

Begin(p) ==
  /\ Move(p, "queued", IF cancel THEN "skipped" ELSE "working")
  /\ UNCHANGED <<folder, pc, mem, cancel, stop, bought, kept>>

Ask(p) ==
  /\ Heeds /\ Move(p, "working", "asked")
  /\ bought' = bought \union {p}
  /\ UNCHANGED <<folder, pc, mem, cancel, stop, kept>>

\* The response passes the validators.
Answer(p) ==
  /\ Heeds /\ Move(p, "asked", "answered")
  /\ UNCHANGED <<folder, pc, mem, cancel, stop, bought, kept>>

\* publish_structured_page refuses to replace files; a legacy text is overwritten.
Write(p) ==
  /\ Heeds /\ Move(p, "answered", "writing")
  /\ structured => files[p] = "none"
  /\ files' = [files EXCEPT ![p] = "partial"]
  /\ UNCHANGED <<structured, state, journal, document, pc, mem, cancel, stop, bought, kept>>

\* The commit, or the end of the text.
Commit(p) ==
  /\ Heeds /\ Move(p, "writing", "written")
  /\ files' = [files EXCEPT ![p] = "complete"]
  /\ kept' = IF structured THEN kept \union {p} ELSE kept
  /\ UNCHANGED <<structured, state, journal, document, pc, mem, cancel, stop, bought>>

Return(p) ==
  /\ Move(p, "written", "ok")
  /\ UNCHANGED <<folder, pc, mem, cancel, stop, bought, kept>>

\* The source, the provider, a validator, a write, a check or the cancel event ends the
\* task with a failed outcome; what is on disk stays, a commit included.
Fail(p) ==
  /\ \E from \in {"working", "asked", "answered", "writing", "written"} : Move(p, from, "bad")
  /\ UNCHANGED <<folder, pc, mem, cancel, stop, bought, kept>>

-----------------------------------------------------------------------------
(* The loop over the futures *)

Submit ==
  /\ pc = "pool" /\ ~stop /\ ~cancel
  /\ Cardinality(Futures) < Workers
  /\ Pending # {}
  /\ task' = [task EXCEPT ![Min(Pending)] = "queued"]
  /\ UNCHANGED <<folder, pc, mem, cancel, stop, bought, kept>>

\* future.cancel() succeeds on a task that has not begun.
Withdraw(p) ==
  /\ pc = "pool" /\ cancel
  /\ task[p] = "queued"
  /\ task' = [task EXCEPT ![p] = "over"]
  /\ UNCHANGED <<folder, pc, mem, cancel, stop, bought, kept>>

\* mark_page_done, which validates a structured bundle, and the save.
CollectDone(p) ==
  /\ pc = "pool" /\ task[p] = "ok"
  /\ structured => p \in Complete
  /\ Save([mem EXCEPT !.page[p] = "done"])
  /\ kept' = kept \union {p}
  /\ task' = [task EXCEPT ![p] = "over"]
  /\ UNCHANGED <<structured, files, journal, document, pc, cancel, stop, bought>>

CollectFailed(p) ==
  /\ pc = "pool" /\ task[p] = "bad"
  /\ Save([mem EXCEPT !.page[p] = "failed"])
  /\ stop' = TRUE
  /\ task' = [task EXCEPT ![p] = "over"]
  /\ UNCHANGED <<structured, files, journal, document, pc, cancel, bought, kept>>

CollectSkipped(p) ==
  /\ pc = "pool" /\ task[p] = "skipped"
  /\ task' = [task EXCEPT ![p] = "over"]
  /\ UNCHANGED <<folder, pc, mem, cancel, stop, bought, kept>>

\* The validation or the save raises out of the loop; leaving the executor waits for the
\* other tasks, and nobody records their outcomes.
CollectRaises(p) ==
  /\ pc = "pool" /\ task[p] \in {"ok", "bad"}
  /\ task' = [task EXCEPT ![p] = "over"]
  /\ pc' = "unwind"
  /\ UNCHANGED <<folder, mem, cancel, stop, bought, kept>>

Unwound ==
  /\ pc = "unwind" /\ Running = {}
  /\ EndProcess
  /\ UNCHANGED <<folder, bought, kept>>

-----------------------------------------------------------------------------
(* The end of a run *)

PoolDrainedOfAll == Futures = {} /\ Pending = {}  \* mutant: waits for pages nobody will submit

PoolDrained == Futures = {} /\ (stop \/ cancel \/ Pending = {})

Whole == ~stop /\ ~cancel /\ Done(mem) = Pages

Decide ==
  /\ pc = "pool" /\ PoolDrained
  /\ pc' = IF Whole THEN "assemble" ELSE "partial"
  /\ UNCHANGED <<folder, mem, task, cancel, stop, bought, kept>>

\* assemble_docx takes the completed pages, in a legacy folder every text there is.
Assembled(s) == IF structured THEN Done(s) ELSE {p \in Pages : files[p] # "none"}

Assemble ==
  /\ pc = "assemble"
  /\ structured => Done(mem) \subseteq Complete
  /\ document' = Assembled(mem)
  /\ pc' = "complete"
  /\ UNCHANGED <<structured, state, files, journal, mem, task, cancel, stop, bought, kept>>

\* docx_write_failed
AssembleFails ==
  /\ pc = "assemble"
  /\ state' = [mem EXCEPT !.status = "failed"]
  /\ EndProcess
  /\ UNCHANGED <<structured, files, journal, document, bought, kept>>

\* The status, and with keep_intermediates the end of the run.
RecordCompleted ==
  /\ pc = "complete"
  /\ LET s == [mem EXCEPT !.status = "completed"] IN
       IF s.keep
       THEN state' = s /\ EndProcess
       ELSE /\ Save(s)
            /\ pc' = IF structured THEN "purge" ELSE "cleanup"
            /\ UNCHANGED <<task, cancel, stop>>
  /\ UNCHANGED <<structured, files, journal, document, bought, kept>>

RecordPurgedUnsaved ==  \* mutant: the purge is not saved before the deletion
  /\ pc = "purge"
  /\ mem' = [mem EXCEPT !.purged = TRUE]
  /\ pc' = "cleanup"
  /\ UNCHANGED <<folder, task, cancel, stop, bought, kept>>

\* Structured evidence is recorded as purged before it is deleted.
RecordPurged ==
  /\ pc = "purge"
  /\ Save([mem EXCEPT !.purged = TRUE])
  /\ pc' = "cleanup"
  /\ UNCHANGED <<structured, files, journal, document, task, cancel, stop, bought, kept>>

\* _cleanup_intermediates deletes what it can and ignores errors.
CleanPage(p) ==
  /\ pc = "cleanup" /\ RemoveFile(p)
  /\ UNCHANGED <<structured, state, journal, document, process, bought, kept>>

Cleaned ==
  /\ pc = "cleanup"
  /\ EndProcess
  /\ UNCHANGED <<folder, bought, kept>>

\* A cancelled or failed run, after its partial export.
EndIncomplete ==
  /\ pc = "partial"
  /\ state' = [mem EXCEPT !.status = IF cancel THEN "cancelled" ELSE "failed"]
  /\ EndProcess
  /\ UNCHANGED <<structured, files, journal, document, bought, kept>>

\* The partial export of a legacy run raises out of the run.
ExportRaises ==
  /\ pc = "partial" /\ ~structured /\ Done(mem) # {}
  /\ EndProcess
  /\ UNCHANGED <<folder, bought, kept>>

\* rebuild_docx: structured pages are the checkpoint's, and their evidence must be there ...
Rebuild ==
  /\ pc = "none" /\ state # NoState
  /\ Assembled(state) # {}
  /\ structured => ~state.purged /\ Done(state) \subseteq Complete
  /\ document' = Assembled(state)
  /\ mem' = state
  /\ pc' = "rebuilt"
  /\ UNCHANGED <<structured, state, files, journal, task, cancel, stop, bought, kept>>

\* ... and a structured document is recorded as completed only if all pages are done.
RecordRebuilt ==
  /\ pc = "rebuilt"
  /\ state' = IF ~structured \/ Done(mem) = Pages THEN [mem EXCEPT !.status = "completed"] ELSE mem
  /\ EndProcess
  /\ UNCHANGED <<structured, files, journal, document, bought, kept>>

Cancel ==
  /\ pc \notin {"none", "rebuilt"} /\ ~cancel
  /\ cancel' = TRUE
  /\ UNCHANGED <<folder, pc, mem, task, stop, bought, kept>>

\* The process dies, or a call outside the pool raises.
Crash ==
  /\ pc # "none"
  /\ EndProcess
  /\ UNCHANGED <<folder, bought, kept>>

-----------------------------------------------------------------------------

Task(p) ==
  Begin(p) \/ Ask(p) \/ Answer(p) \/ Write(p) \/ Commit(p) \/ Return(p) \/ Fail(p)

Collect(p) ==
  Withdraw(p) \/ CollectDone(p) \/ CollectFailed(p) \/ CollectSkipped(p) \/ CollectRaises(p)

\* The run's own thread, from the moment the pages are ready.
Main ==
  \/ Block \/ Open \/ Submit \/ \E p \in Pages : Collect(p)
  \/ Unwound \/ Decide \/ Assemble \/ AssembleFails
  \/ RecordCompleted \/ RecordPurged \/ (\E p \in Pages : CleanPage(p)) \/ Cleaned
  \/ EndIncomplete \/ ExportRaises

Next ==
  \/ Resume \/ (\E keep \in BOOLEAN : Start(keep))
  \/ (\E p \in Pages : ClearPage(p)) \/ ClearState \/ NewState \/ BindJournal \/ Announce
  \/ \E p \in Pages : Task(p)
  \/ Main
  \/ Rebuild \/ RecordRebuilt
  \/ Cancel \/ Crash

Spec == Init /\ [][Next]_vars

\* The threads of a run go on: every request and wait in them has a deadline.
FairSpec == Spec /\ WF_vars(Main) /\ \A p \in Pages : WF_vars(Task(p))

-----------------------------------------------------------------------------
(* Properties *)

\* Every variable stays in its type, and there is a RunState in memory while a run is on.
TypeOK ==
  /\ structured \in BOOLEAN /\ journal \in BOOLEAN /\ cancel \in BOOLEAN /\ stop \in BOOLEAN
  /\ state \in States \union {NoState}
  /\ files \in [Pages -> {"none", "partial", "complete"}]
  /\ document \subseteq Pages /\ bought \subseteq Pages /\ kept \subseteq Pages
  /\ pc \in {"none", "clear", "new", "bind", "announce", "ready", "pool", "unwind", "partial",
             "assemble", "complete", "purge", "cleanup", "rebuilt"}
  /\ IF pc = "none" THEN mem = NoState ELSE mem \in States
  /\ task \in [Pages -> Places]

\* Missing structured evidence never looks reusable: a page that the checkpoint calls done
\* has its bundle, or the checkpoint says that it was purged.
MissingEvidenceIsRecorded ==
  structured /\ state # NoState /\ ~state.purged => Done(state) \subseteq Complete

\* A run works on sound evidence: every page that it counts as done has its files until the
\* document is assembled, and an unfinished structured bundle is one of its own tasks'.
RunEvidence ==
  pc \in {"ready", "pool", "unwind", "assemble", "partial"} =>
    /\ Done(mem) \subseteq Complete
    /\ structured => \A p \in Pages : files[p] = "partial" => task[p] # "waiting"

\* The runs keep the promise of PagePurchase: no later run asks for a page that the
\* checkpoint calls done or whose structured bundle was committed before a run died, no
\* structured page is forgotten, and neither a run that assembles its document nor a
\* structured checkpoint that says completed, by a run or a rebuild, holds less than all;
\* and none is paid for by a run whose checkpoint does not name the journal, so that a
\* crash leaves no dispatch that a resume could not find.
Purchase == INSTANCE PagePurchase WITH
  asking    <- {p \in Pages : task[p] = "asked"},
  accounted <- state # NoState => state.ref,
  complete  <- pc = "complete" \/ (structured /\ state # NoState /\ state.status = "completed")

PageSpec == Purchase!Spec

\* A run whose pages are ready ends, whatever fails and whenever it is cancelled.
RunEnds == pc = "ready" ~> pc = "none"

=============================================================================
