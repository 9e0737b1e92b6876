--------------------------- MODULE TranslationJobs ---------------------------
(*******************************************************************************)
(* translation_service.py: TranslationJobManager, the browser's jobs. Requests *)
(* are served one at a time by the event loop, except that a reviewed          *)
(* translation is started from the thread pool; each job runs in a thread of   *)
(* its own: a workflow (workflow.py) in the run folder's workspace slot, then, *)
(* for some, the automatic layout of its document (ordinary_auto_layout.py).   *)
(* The slot is that of RunWorkspaceLock, here within the one process.          *)
(*******************************************************************************)
EXTENDS Integers, FiniteSets

CONSTANTS
  Folders,
  MaxJobs,        \* bound: the jobs ever started
  Pages,          \* the pages of every document
  MaxRecoveries,  \* bound: the layout recoveries
  None

ASSUME JobsAssumption ==
  /\ MaxJobs \in Nat /\ Pages \in Nat /\ MaxRecoveries \in Nat
  /\ None \notin 1..MaxJobs

VARIABLES
  \* the manager, under its lock
  status, kind, folder, origin,  \* of each job
  reservations,                  \* which job has reserved a folder
  workflow,                      \* the jobs whose _workflow is set
  layout,                        \* the outcome of a job's automatic layout
  layout_cancel,                 \* _automatic_layout_cancel_requested
  publication,                   \* _automatic_layout_publication_started
  recoveries,                    \* bound
  \* the requests being served
  request,
  \* the job threads
  thread, outcome,
  releasing,                     \* how many threads of a job are about to release
  event,                         \* the workflow's _cancel_event
  slot,                          \* who is in the folder's workspace slot
  pages, layout_pages,           \* how many a job has sent (observation)
  acknowledged                   \* the jobs whose cancel was accepted (observation)

records == <<status, kind, folder, origin>>
flags   == <<layout_cancel, publication, recoveries>>
observed == <<pages, layout_pages, acknowledged>>
vars == <<records, reservations, workflow, layout, flags, request, thread, outcome,
          releasing, event, slot, observed>>

Jobs     == 1..MaxJobs
Servers  == {"loop", "pool"}
Idle     == [step |-> "idle", job |-> None]
Active   == {"queued", "running", "cancel_requested", "formatting"}
Terminal == {"completed", "failed", "cancelled"}

Init ==
  /\ status = [j \in Jobs |-> "absent"]
  /\ kind = [j \in Jobs |-> "translate"]
  /\ folder \in [Jobs -> Folders]
  /\ origin = [j \in Jobs |-> None]
  /\ reservations = [f \in Folders |-> None]
  /\ workflow = {} /\ event = {}
  /\ layout = [j \in Jobs |-> "none"]
  /\ layout_cancel = {} /\ publication = {} /\ recoveries = 0
  /\ request = [s \in Servers |-> Idle]
  /\ thread = [j \in Jobs |-> "none"]
  /\ outcome = [j \in Jobs |-> "none"]
  /\ releasing = [j \in Jobs |-> 0]
  /\ slot = [f \in Folders |-> None]
  /\ pages = [j \in Jobs |-> 0] /\ layout_pages = [j \in Jobs |-> 0]
  /\ acknowledged = {}

-----------------------------------------------------------------------------
(* Starting a job *)

\* _reserve: no other active job has the folder.
Reservable(f) == \A j \in Jobs : reservations[f] = j => status[j] \notin Active

\* The job a request is about to start, from its form, or after another job: a resume of
\* one that failed or was cancelled, a rebuild of any.
Startable(s, j, k, o) ==
  /\ status[j] = "absent"
  /\ \A i \in Jobs : i < j => status[i] # "absent" \/ \E r \in Servers : request[r].job = i
  /\ \A r \in Servers : request[r].job # j
  /\ s = "pool" => k = "translate" /\ o = None
  /\ o # None => /\ folder[o] = folder[j]
                 /\ \/ k = "translate" /\ status[o] \in {"failed", "cancelled"}
                    \/ k = "rebuild" /\ status[o] # "absent"
  /\ k = "rebuild" => o # None

Reserve(s, j, k, o) ==
  /\ request[s] = Idle
  /\ Startable(s, j, k, o)
  /\ Reservable(folder[j])
  /\ kind' = [kind EXCEPT ![j] = k]
  /\ origin' = [origin EXCEPT ![j] = o]
  /\ request' = [request EXCEPT ![s] = [step |-> "reserved", job |-> j]]
  /\ UNCHANGED <<status, folder, reservations, workflow, layout, flags, thread, outcome,
                 releasing, event, slot, observed>>

Record(s) ==
  /\ request[s].step = "reserved"
  /\ status' = [status EXCEPT ![request[s].job] = "queued"]
  /\ request' = [request EXCEPT ![s].step = "recorded"]
  /\ UNCHANGED <<kind, folder, origin, reservations, workflow, layout, flags, thread, outcome,
                 releasing, event, slot, observed>>

\* _claim_reservation, and the thread starts.
Claim(s) ==
  /\ request[s].step = "recorded"
  /\ LET j == request[s].job IN
       /\ reservations' = [reservations EXCEPT ![folder[j]] = j]
       /\ thread' = [thread EXCEPT ![j] = "starting"]
  /\ request' = [request EXCEPT ![s] = Idle]
  /\ UNCHANGED <<records, workflow, layout, flags, outcome, releasing, event, slot, observed>>

-----------------------------------------------------------------------------
(* Cancelling and recovering *)

\* _mark_cancel_requested of a job whose layout is being made: only before the publication.
CancelLayoutDuringPublication(j) ==  \* mutant: a publication that has begun can be cancelled
  /\ request["loop"] = Idle
  /\ status[j] = "formatting"
  /\ j \notin layout_cancel
  /\ layout_cancel' = layout_cancel \union {j}
  /\ acknowledged' = acknowledged \union {j}
  /\ UNCHANGED <<records, reservations, workflow, layout, publication, recoveries, request, thread,
                 outcome, releasing, event, slot, pages, layout_pages>>

CancelLayout(j) ==
  /\ request["loop"] = Idle
  /\ status[j] = "formatting"
  /\ j \notin layout_cancel \union publication
  /\ layout_cancel' = layout_cancel \union {j}
  /\ acknowledged' = acknowledged \union {j}
  /\ UNCHANGED <<records, reservations, workflow, layout, publication, recoveries, request, thread,
                 outcome, releasing, event, slot, pages, layout_pages>>

\* _mark_cancel_requested of a job that translates: the workflow is cancelled after the
\* lock, when it may have returned.
Cancel(j) ==
  /\ request["loop"] = Idle
  /\ j \in workflow /\ kind[j] = "translate" /\ status[j] \in {"queued", "running"}
  /\ status' = [status EXCEPT ![j] = "cancel_requested"]
  /\ request' = [request EXCEPT !["loop"] = [step |-> "cancelling", job |-> j]]
  /\ UNCHANGED <<kind, folder, origin, reservations, workflow, layout, flags, thread, outcome,
                 releasing, event, slot, observed>>

CancelWorkflow ==
  /\ request["loop"].step = "cancelling"
  /\ LET j == request["loop"].job IN
       /\ event' = event \union {j}
       /\ acknowledged' = acknowledged \union {j}
  /\ request' = [request EXCEPT !["loop"] = Idle]
  /\ UNCHANGED <<records, reservations, workflow, layout, flags, thread, outcome, releasing, slot,
                 pages, layout_pages>>

\* recover_layout_job: one critical section; a new thread makes the layout again.
Recover(j) ==
  /\ request["loop"] = Idle
  /\ recoveries < MaxRecoveries
  /\ kind[j] = "translate" /\ status[j] = "completed" /\ layout[j] = "raw_fallback"
  /\ Reservable(folder[j])
  /\ reservations' = [reservations EXCEPT ![folder[j]] = j]
  /\ layout_cancel' = layout_cancel \ {j}
  /\ publication' = publication \ {j}
  /\ recoveries' = recoveries + 1
  /\ status' = [status EXCEPT ![j] = "formatting"]
  /\ thread' = [thread EXCEPT ![j] = "layout"]
  /\ acknowledged' = acknowledged \ {j}
  /\ layout_pages' = [layout_pages EXCEPT ![j] = 0]
  /\ UNCHANGED <<kind, folder, origin, workflow, layout, request, outcome, releasing, event, slot,
                 pages>>

-----------------------------------------------------------------------------
(* The thread of a job *)

\* The settings are read and the workflow is built; then _mark_running.
MarkRunning(j) ==
  /\ thread[j] = "starting"
  /\ workflow' = workflow \union {j}
  /\ status' = [status EXCEPT ![j] = "running"]
  /\ thread' = [thread EXCEPT ![j] = "entering"]
  /\ UNCHANGED <<kind, folder, origin, reservations, layout, flags, request, outcome, releasing,
                 event, slot, observed>>

\* run and rebuild_docx enter the slot, analyze does not; only run's _run_locked clears
\* the cancel event.
Enter(j) ==
  /\ thread[j] = "entering"
  /\ IF kind[j] = "analyze" THEN UNCHANGED slot
     ELSE slot[folder[j]] = None /\ slot' = [slot EXCEPT ![folder[j]] = j]
  /\ event' = IF kind[j] = "translate" THEN event \ {j} ELSE event
  /\ thread' = [thread EXCEPT ![j] = "working"]
  /\ UNCHANGED <<records, reservations, workflow, layout, flags, request, outcome, releasing,
                 observed>>

StartPage(j) ==
  /\ thread[j] = "working" /\ kind[j] = "translate"
  /\ j \notin event
  /\ pages[j] < Pages
  /\ pages' = [pages EXCEPT ![j] = @ + 1]
  /\ UNCHANGED <<records, reservations, workflow, layout, flags, request, thread, outcome,
                 releasing, event, slot, layout_pages, acknowledged>>

\* All pages are done and the run was not cancelled: the document is assembled.
Assemble(j) ==
  /\ thread[j] = "working" /\ kind[j] = "translate"
  /\ pages[j] = Pages /\ j \notin event
  /\ thread' = [thread EXCEPT ![j] = "assembling"]
  /\ UNCHANGED <<records, reservations, workflow, layout, flags, request, outcome, releasing,
                 event, slot, observed>>

\* The call comes back, the slot is left. A translation or a rebuild of a document that
\* was laid out automatically goes on to its layout.
Comes(j, how) ==
  /\ thread' = [thread EXCEPT ![j] = "ended"]
  /\ outcome' = [outcome EXCEPT ![j] = how]
  /\ slot' = [f \in Folders |-> IF slot[f] = j THEN None ELSE slot[f]]
  /\ UNCHANGED <<records, reservations, workflow, layout, flags, request, releasing, event, observed>>

Succeeds(j) ==
  \/ thread[j] = "assembling" /\ Comes(j, "completed")
  \/ thread[j] = "assembling" /\ Comes(j, "formatting")
  \/ thread[j] = "working" /\ kind[j] # "translate" /\ Comes(j, "completed")
  \/ /\ thread[j] = "working" /\ kind[j] = "rebuild" /\ layout[origin[j]] = "automatic_unreviewed"
     /\ Comes(j, "formatting")

Cancels(j) == thread[j] = "working" /\ kind[j] = "translate" /\ j \in event /\ Comes(j, "cancelled")

\* Settings, busy slot, page, document: whatever raises or is reported as a failure.
Fails(j) == thread[j] \in {"starting", "entering", "working", "assembling"} /\ Comes(j, "failed")

MarkFinishedNotReleased(j) ==  \* mutant: a cancelled job keeps its reservation
  /\ thread[j] = "ended"
  /\ status' = [status EXCEPT ![j] = outcome[j]]
  /\ workflow' = workflow \ {j}
  /\ thread' = [thread EXCEPT ![j] = IF outcome[j] = "formatting" THEN "layout" ELSE "none"]
  /\ releasing' = [releasing EXCEPT ![j] =
       IF outcome[j] \in {"formatting", "cancelled"} THEN @ ELSE @ + 1]
  /\ UNCHANGED <<kind, folder, origin, reservations, layout, flags, request, outcome, event, slot, observed>>

MarkFinishedReleasesAlways(j) ==  \* mutant: the reservation is released although a layout follows
  /\ thread[j] = "ended"
  /\ status' = [status EXCEPT ![j] = outcome[j]]
  /\ workflow' = workflow \ {j}
  /\ thread' = [thread EXCEPT ![j] = IF outcome[j] = "formatting" THEN "layout" ELSE "none"]
  /\ releasing' = [releasing EXCEPT ![j] = @ + 1]
  /\ UNCHANGED <<kind, folder, origin, reservations, layout, flags, request, outcome, event, slot, observed>>

\* _mark_finished: the status under the lock, the reservation in a section of its own.
MarkFinished(j) ==
  /\ thread[j] = "ended"
  /\ status' = [status EXCEPT ![j] = outcome[j]]
  /\ workflow' = workflow \ {j}
  /\ thread' = [thread EXCEPT ![j] = IF outcome[j] = "formatting" THEN "layout" ELSE "none"]
  /\ releasing' = [releasing EXCEPT ![j] = IF outcome[j] = "formatting" THEN @ ELSE @ + 1]
  /\ UNCHANGED <<kind, folder, origin, reservations, layout, flags, request, outcome, event, slot, observed>>

\* _release_reservation
Release(j) ==
  /\ releasing[j] > 0
  /\ releasing' = [releasing EXCEPT ![j] = @ - 1]
  /\ reservations' = [reservations EXCEPT ![folder[j]] = IF @ = j THEN None ELSE @]
  /\ UNCHANGED <<records, workflow, layout, flags, request, thread, outcome, event, slot, observed>>

-----------------------------------------------------------------------------
(* The automatic layout *)

\* Each page is sent unless the job says that the layout was cancelled.
LayoutPage(j) ==
  /\ thread[j] = "layout"
  /\ j \notin layout_cancel
  /\ layout_pages[j] < Pages
  /\ layout_pages' = [layout_pages EXCEPT ![j] = @ + 1]
  /\ UNCHANGED <<records, reservations, workflow, layout, flags, request, thread, outcome,
                 releasing, event, slot, pages, acknowledged>>

\* begin_automatic_layout_publication, after all pages or for an earlier run's candidate.
BeginPublication(j) ==
  /\ thread[j] = "layout"
  /\ j \notin layout_cancel
  /\ publication' = publication \union {j}
  /\ thread' = [thread EXCEPT ![j] = "publishing"]
  /\ UNCHANGED <<records, reservations, workflow, layout, layout_cancel, recoveries, request,
                 outcome, releasing, event, slot, observed>>

\* _finish_automatic_layout
FinishLayout(j, how) ==
  /\ layout' = [layout EXCEPT ![j] = how]
  /\ status' = [status EXCEPT ![j] = "completed"]
  /\ thread' = [thread EXCEPT ![j] = "none"]
  /\ releasing' = [releasing EXCEPT ![j] = @ + 1]
  /\ UNCHANGED <<kind, folder, origin, reservations, workflow, flags, request, outcome, event,
                 slot, observed>>

LayoutSucceeds(j) == thread[j] = "publishing" /\ FinishLayout(j, "automatic_unreviewed")

\* The runner stops, refuses or raises, or its candidate has changed.
LayoutFails(j) == thread[j] \in {"layout", "publishing"} /\ FinishLayout(j, "raw_fallback")

-----------------------------------------------------------------------------
Works(j) ==
  \/ MarkRunning(j) \/ Enter(j) \/ StartPage(j) \/ Assemble(j)
  \/ Succeeds(j) \/ Cancels(j) \/ Fails(j)
  \/ MarkFinished(j) \/ Release(j)
  \/ LayoutPage(j) \/ BeginPublication(j) \/ LayoutSucceeds(j) \/ LayoutFails(j)

Serves(s) == Record(s) \/ Claim(s) \/ (s = "loop" /\ CancelWorkflow)

Next ==
  \/ \E s \in Servers, j \in Jobs, k \in {"translate", "analyze", "rebuild"}, o \in Jobs \union {None} :
       Reserve(s, j, k, o)
  \/ \E s \in Servers : Serves(s)
  \/ \E j \in Jobs : Works(j) \/ Cancel(j) \/ CancelLayout(j) \/ Recover(j)

Spec == Init /\ [][Next]_vars

\* A request that is being served goes on, and so does a thread: every call of the workflow
\* and of the layout has a deadline.
FairSpec ==
  /\ Spec
  /\ \A s \in Servers : WF_vars(Serves(s))
  /\ \A j \in Jobs : WF_vars(Works(j))

-----------------------------------------------------------------------------
(* Properties *)

\* Every variable stays in its type.
TypeOK ==
  /\ status \in [Jobs -> Active \union Terminal \union {"absent"}]
  /\ kind \in [Jobs -> {"translate", "analyze", "rebuild"}]
  /\ folder \in [Jobs -> Folders] /\ origin \in [Jobs -> Jobs \union {None}]
  /\ reservations \in [Folders -> Jobs \union {None}] /\ slot \in [Folders -> Jobs \union {None}]
  /\ workflow \subseteq Jobs /\ event \subseteq Jobs
  /\ layout_cancel \subseteq Jobs /\ publication \subseteq Jobs
  /\ layout \in [Jobs -> {"none", "raw_fallback", "automatic_unreviewed"}]
  /\ thread \in [Jobs -> {"none", "starting", "entering", "working", "assembling", "ended",
                          "layout", "publishing"}]
  /\ outcome \in [Jobs -> {"none", "formatting"} \union Terminal]
  /\ releasing \in [Jobs -> 0..(MaxRecoveries + 1)] /\ recoveries \in 0..MaxRecoveries
  /\ pages \in [Jobs -> 0..Pages] /\ layout_pages \in [Jobs -> 0..Pages]
  /\ acknowledged \subseteq Jobs
  /\ request \in [Servers -> [step : {"idle", "reserved", "recorded", "cancelling"},
                             job : Jobs \union {None}]]

\* The jobs keep the promise of JobOutcome, however late a cancel, a recovery or a thread's
\* last steps come: a report of the end stands, a cancel of a layout and its publication
\* agree on who came first, and an earlier job of a folder that is only now finishing its
\* release does not give away the folder of a later one.
Outcome == INSTANCE JobOutcome WITH
  report    <- [j \in Jobs |-> IF status[j] \in Active \ {"formatting"} THEN "active" ELSE status[j]],
  delivered <- {j \in Jobs : layout[j] = "automatic_unreviewed"},
  withdrawn <- layout_cancel,
  owing     <- releasing,
  holder    <- reservations

JobSpec == Outcome!Spec

\* Every job that was queued ends, and leaves its folder to others.
EveryJobEnds ==
  \A j \in Jobs :
    status[j] = "queued" ~> status[j] \in Terminal /\ reservations[folder[j]] # j

\* The browser of a job whose cancel was accepted: "Cancellation requested. Waiting for the
\* current page task to stop cleanly." Once a cancel was acknowledged, no further page is
\* sent, to be translated or laid out.
NothingIsSentAfterCancel ==
  [][\A j \in Jobs :
       j \in acknowledged \cap acknowledged'
         => pages'[j] = pages[j] /\ layout_pages'[j] = layout_pages[j]]_<<pages, layout_pages>>

=============================================================================
