----------------------------- MODULE GmailSession -----------------------------
(********************************************************************************)
(* gmail_browser_service.py: the Gmail workspace of the browser application. A  *)
(* message is loaded, attachments of it are prepared as a batch (or one of      *)
(* them as an interpretation notice), their translations are confirmed one      *)
(* after the other, and one reply draft is created for all of them.             *)
(*                                                                              *)
(* The HTTP handlers call the manager from the event loop, so that its          *)
(* operations follow one another, however slow. The bridge of the Gmail         *)
(* extension (gmail_intake.py) serves each intake in a thread of its own and    *)
(* loads the message itself, at any moment. The manager's lock protects the     *)
(* registry and nothing else. A step here is the code between two calls that    *)
(* last: Gmail, Word, the file system, the job log.                             *)
(*                                                                              *)
(* Only the workspace in the registry and the session prepared last are kept: a *)
(* workspace that a reset took out is seen by nobody but a thread that still    *)
(* writes to it, and a session that was replaced by nobody at all.              *)
(********************************************************************************)
EXTENDS Integers, Sequences

CONSTANTS
  Messages,
  Explicit,       \* the messages that name a reply address themselves
  Size,           \* how many attachments of a message are selected for a batch
  Loop, Threads,  \* the event loop; the threads of the bridge
  MaxDrafts,      \* bound: the drafts of one session
  None

VARIABLES
  workspace,  \* the _WorkspaceState in the registry
  session,    \* the session prepared last, a batch or an interpretation notice, or None
  at,         \* where the event loop and each thread of the bridge is
  drafts,     \* the drafts of the session that exist in Gmail (observation)
  abandoned   \* the intake that is warming lost a loader to a cleanup that raised (observation)

vars == <<workspace, session, at, drafts, abandoned>>

Processes == Threads \union {Loop}

\* A _WorkspaceState: the message of loaded_result and whether it is ok; the message that
\* preferred_reply_email is of; the message that is pending with status "warming" (one that
\* failed is treated as none); which session it has; current_batch_index.
Workspaces == [loaded : Messages \union {None}, ok : BOOLEAN, reply : Explicit \union {None},
               warming : Messages \union {None}, session : {"none", "batch", "interpretation"},
               index : Nat]

FreshWorkspace == [loaded |-> None, ok |-> FALSE, reply |-> None, warming |-> None,
                   session |-> "none", index |-> 0]

\* A session: its attachments are 1..size; the confirmed ones; whether their staged copies are
\* intact; whether it still has its temporary directory (_temp_dir); whether finalization_state or
\* status is draft_ready (nothing tells the others apart); draft_created.
Sessions == [kind : {"batch", "interpretation"}, message : Messages, size : {1, Size},
             confirmed : Seq(Nat), intact : BOOLEAN, temporary : BOOLEAN, ready : BOOLEAN, created : BOOLEAN]

ASSUME GmailAssumption ==
  /\ Explicit \subseteq Messages
  /\ Size \in Nat \ {0} /\ MaxDrafts \in Nat
  /\ Loop \notin Threads /\ None \notin Messages \union Sessions

FreshSession(kind, m) ==
  [kind |-> kind, message |-> m, size |-> IF kind = "batch" THEN Size ELSE 1,
   confirmed |-> <<>>, intact |-> TRUE, temporary |-> TRUE, ready |-> FALSE, created |-> FALSE]

Court == "court"  \* the address derived from the case

\* Where a process is, with what it has read: a message, whether the workspace it writes to has
\* left the registry, the number of an attachment, an address.
Steps  == {"idle", "resetting", "accepted", "loading", "cleaning", "storing", "batch",
           "interpretation", "confirming", "finalizing", "preflight", "exporting", "drafting"}
Places == [step : Steps, message : Messages \union {None}, detached : BOOLEAN, number : Nat,
           to : Explicit \union {Court, None}]

Idle == [step |-> "idle", message |-> None, detached |-> FALSE, number |-> 0, to |-> None]

Init ==
  /\ workspace = FreshWorkspace
  /\ session = None
  /\ at = [p \in Processes |-> Idle]
  /\ drafts = <<>>
  /\ abandoned = FALSE

Return(p) == at' = [at EXCEPT ![p] = Idle]

Goto(p, step) == at' = [at EXCEPT ![p].step = step]

\* No copy is staged in the session's directory.
NothingStaged == session.confirmed = <<>> /\ at[Loop].step # "confirming"

HasDirectory == workspace.session # "none" /\ session.temporary

\* The temporary directory of the workspace's session is deleted, and with it the staged copies
\* that there are; a copy made later makes a directory anew, which nobody deletes.
DeleteDirectory ==
  session' = IF HasDirectory THEN [session EXCEPT !.temporary = FALSE, !.intact = NothingStaged]
             ELSE session

\* A file of it is open elsewhere, and the deletion raises with some copies gone or none. The
\* session no longer has the directory, so that the next cleanup succeeds.
DeletionRaises ==
  /\ HasDirectory
  /\ \E intact \in {session.intact, NothingStaged} :
       session' = [session EXCEPT !.temporary = FALSE, !.intact = intact]

\* _WorkspaceState.cleanup keeps the loaded result.
Cleaned ==
  [workspace EXCEPT !.reply = None, !.warming = None, !.session = "none", !.index = 0]

-----------------------------------------------------------------------------
(* Loading a message, by the event loop or by a thread of the bridge *)

SetPending(m) ==
  /\ workspace' = [workspace EXCEPT !.warming = m]
  /\ abandoned' = FALSE

\* load_message
LoadMessage(m) ==
  /\ at[Loop] = Idle
  /\ SetPending(m)
  /\ at' = [at EXCEPT ![Loop] = [@ EXCEPT !.step = "loading", !.message = m]]
  /\ UNCHANGED <<session, drafts>>

\* accept_bridge_intake: the message that is being loaded, or that is loaded, is used again;
\* for another one the settings are read ...
Accept(t, m) ==
  /\ at[t] = Idle
  /\ m \notin {workspace.warming, workspace.loaded}
  /\ at' = [at EXCEPT ![t] = [@ EXCEPT !.step = "accepted", !.message = m]]
  /\ UNCHANGED <<workspace, session, drafts, abandoned>>

\* ... and it is announced as pending.
Announce(t) ==
  /\ at[t].step = "accepted"
  /\ SetPending(at[t].message)
  /\ Goto(t, "loading")
  /\ UNCHANGED <<session, drafts>>

LoadFailsUnmarked(p) ==  \* mutant: the exception leaves the intake as it is
  /\ at[p].step = "loading"
  /\ Return(p)
  /\ UNCHANGED <<workspace, session, drafts, abandoned>>

\* _mark_pending_failure
LoadFails(p) ==
  /\ at[p].step = "loading"
  /\ SetPending(None)
  /\ Return(p)
  /\ UNCHANGED <<session, drafts>>

\* _store_loaded_result, in whatever workspace there is now: the directory of its session is
\* deleted, ...
Loads(p) ==
  /\ at[p].step = "loading"
  /\ DeleteDirectory
  /\ Goto(p, "cleaning")
  /\ UNCHANGED <<workspace, drafts, abandoned>>

\* ... or the deletion raises, outside the handler that marks a failure, and the session and the
\* pending fields stay; ...
CleanupRaises(p) ==
  /\ at[p].step = "loading"
  /\ DeletionRaises
  /\ Return(p)
  /\ abandoned' = (abandoned \/ at[p].message = workspace.warming)
  /\ UNCHANGED <<workspace, drafts>>

\* ... its fields are cleared, ...
Clears(p) ==
  /\ at[p].step = "cleaning"
  /\ IF at[p].detached THEN UNCHANGED <<workspace, abandoned>>
     ELSE workspace' = Cleaned /\ abandoned' = FALSE
  /\ Goto(p, "storing")
  /\ UNCHANGED <<session, drafts>>

StoresSender(p) ==  \* mutant: the sender's address passes for a reply address
  /\ at[p].step = "storing"
  /\ workspace' = IF at[p].detached THEN workspace
                  ELSE [workspace EXCEPT !.loaded = at[p].message, !.ok = TRUE, !.reply = at[p].message]
  /\ Return(p)
  /\ UNCHANGED <<session, drafts, abandoned>>

\* ... the previews of an earlier message are deleted, which raises and nothing is stored, ...
PreviewsRaise(p) ==
  /\ at[p].step = "storing"
  /\ at[p].detached \/ workspace.loaded # None
  /\ Return(p)
  /\ UNCHANGED <<workspace, session, drafts, abandoned>>

\* ... and the result is stored, be it a message or a refusal of Gmail.
Stores(p) ==
  /\ at[p].step = "storing"
  /\ \E ok \in BOOLEAN :
       workspace' =
         IF at[p].detached THEN workspace
         ELSE [workspace EXCEPT !.loaded = at[p].message, !.ok = ok,
                 !.reply = IF ok /\ at[p].message \in Explicit THEN at[p].message ELSE None]
  /\ Return(p)
  /\ UNCHANGED <<session, drafts, abandoned>>

Loading(p) ==
  LoadFails(p) \/ Loads(p) \/ CleanupRaises(p) \/ Clears(p) \/ PreviewsRaise(p) \/ Stores(p)

-----------------------------------------------------------------------------
(* The session, by the event loop *)

\* Another workspace takes the place of the registry's, and the event loop goes to a step; who
\* writes to the old one goes on.
Renew(step) ==
  /\ workspace' = FreshWorkspace
  /\ abandoned' = FALSE
  /\ at' = [p \in Processes |->
              IF p = Loop THEN [Idle EXCEPT !.step = step]
              ELSE [at[p] EXCEPT !.detached = @ \/ at[p].step \in {"cleaning", "storing"}]]

\* clear_workspace: the workspace is taken out and cleaned; what a thread of the bridge finds
\* until the new one is set is lost with it.
Reset ==
  /\ at[Loop] = Idle
  /\ DeleteDirectory
  /\ Renew("resetting")
  /\ UNCHANGED drafts

\* The cleanup raises, of the session's directory or of the previews: whoever looks next makes a
\* workspace of his own, and it stays.
ResetRaises ==
  /\ at[Loop] = Idle
  /\ DeletionRaises \/ (workspace.loaded # None /\ DeleteDirectory)
  /\ Renew("idle")
  /\ UNCHANGED drafts

ResetEnds ==
  /\ at[Loop].step = "resetting"
  /\ Renew("idle")
  /\ UNCHANGED <<session, drafts>>

\* prepare_session: a session of the other kind is dropped, the directory of the session
\* deleted, and attachments of the message that is loaded are downloaded ...
Prepare(kind) ==
  /\ at[Loop] = Idle
  /\ workspace.loaded # None /\ workspace.ok
  /\ DeleteDirectory
  /\ workspace' = [workspace EXCEPT !.session = IF @ = kind THEN @ ELSE "none"]
  /\ at' = [at EXCEPT ![Loop] = [@ EXCEPT !.step = kind, !.message = workspace.loaded]]
  /\ UNCHANGED <<drafts, abandoned>>

\* ... unless the deletion raises, and the workspace keeps the session, ...
PrepareRaises ==
  /\ at[Loop] = Idle
  /\ workspace.loaded # None /\ workspace.ok
  /\ DeletionRaises
  /\ UNCHANGED <<workspace, at, drafts, abandoned>>

PreparedKeepsIndex ==  \* mutant: the new batch goes on at the old one's index
  /\ at[Loop].step \in {"batch", "interpretation"}
  /\ session' = FreshSession(at[Loop].step, at[Loop].message)
  /\ workspace' = [workspace EXCEPT !.session = at[Loop].step]
  /\ drafts' = <<>>
  /\ Return(Loop)
  /\ UNCHANGED abandoned

\* ... into a session of the workspace, whatever that has loaded by then.
Prepared ==
  /\ at[Loop].step \in {"batch", "interpretation"}
  /\ session' = FreshSession(at[Loop].step, at[Loop].message)
  /\ workspace' = [workspace EXCEPT !.session = at[Loop].step, !.index = 0]
  /\ drafts' = <<>>
  /\ Return(Loop)
  /\ UNCHANGED abandoned

\* confirm_current_batch_translation: the translation of the attachment at the index is staged
\* in the session's directory and saved in the job log, ...
Confirm ==
  /\ at[Loop] = Idle
  /\ workspace.session = "batch" /\ workspace.index < session.size
  /\ at' = [at EXCEPT ![Loop] = [@ EXCEPT !.step = "confirming", !.number = workspace.index + 1]]
  /\ UNCHANGED <<workspace, session, drafts, abandoned>>

\* ... the item is appended to the session, and the index of the workspace moves on.
Confirmed ==
  /\ at[Loop].step = "confirming"
  /\ session' = [session EXCEPT !.confirmed = Append(@, at[Loop].number)]
  /\ workspace' = [workspace EXCEPT !.index = @ + 1]
  /\ Return(Loop)
  /\ UNCHANGED <<drafts, abandoned>>

-----------------------------------------------------------------------------
(* The draft, by the event loop *)

AllConfirmed == Len(session.confirmed) = session.size

HasDraftCreated == session.created  \* mutant: the states are not looked at

HasDraft == session.created \/ session.ready

\* finalize_batch, which refuses a batch that has its draft or whose staged copies are gone,
\* begins with the check of Word that preflight_batch_finalization also does alone.
Finalize ==
  /\ at[Loop] = Idle
  /\ workspace.session = "batch"
  /\ ~HasDraft /\ session.intact /\ AllConfirmed
  /\ Goto(Loop, "finalizing")
  /\ UNCHANGED <<workspace, session, drafts, abandoned>>

Preflight ==
  /\ at[Loop] = Idle
  /\ workspace.session = "batch"
  /\ AllConfirmed
  /\ Goto(Loop, "preflight")
  /\ UNCHANGED <<workspace, session, drafts, abandoned>>

\* Word is not ready; the states that an earlier finalization has left stay.
Blocked ==
  /\ at[Loop].step \in {"finalizing", "preflight"}
  /\ session' = [session EXCEPT !.created = FALSE]
  /\ Return(Loop)
  /\ UNCHANGED <<workspace, drafts, abandoned>>

\* Word is ready. A finalization whose batch a thread of the bridge has dropped meanwhile ends.
Ready ==
  /\ at[Loop].step \in {"finalizing", "preflight"}
  /\ at[Loop].step = "finalizing" => workspace.session = "none"
  /\ Return(Loop)
  /\ UNCHANGED <<workspace, session, drafts, abandoned>>

Proceed ==
  /\ at[Loop].step = "finalizing" /\ workspace.session = "batch"
  /\ session' = [session EXCEPT !.created = FALSE]
  /\ Goto(Loop, "exporting")
  /\ UNCHANGED <<workspace, drafts, abandoned>>

\* finalize_interpretation asks for no earlier draft.
FinalizeInterpretation ==
  /\ at[Loop] = Idle
  /\ workspace.session = "interpretation"
  /\ Goto(Loop, "exporting")
  /\ UNCHANGED <<workspace, session, drafts, abandoned>>

\* The PDF of the fee document fails, or Gmail is not available.
NotDrafted ==
  /\ at[Loop].step = "exporting"
  /\ session' = [session EXCEPT !.created = FALSE]
  /\ Return(Loop)
  /\ UNCHANGED <<workspace, drafts, abandoned>>

\* The staged copies are verified again and the address is taken from the workspace.
Request ==
  /\ at[Loop].step = "exporting" /\ Len(drafts) < MaxDrafts
  /\ session.intact
  /\ at' = [at EXCEPT ![Loop] =
              [@ EXCEPT !.step = "drafting",
                        !.to = IF workspace.reply # None THEN workspace.reply ELSE Court]]
  /\ UNCHANGED <<workspace, session, drafts, abandoned>>

\* Gmail made the draft, or did not, or made it and its tool says that it failed.
Drafted ==
  /\ at[Loop].step = "drafting"
  /\ \E made, ok \in BOOLEAN :
       /\ ok => made
       /\ drafts' = IF made THEN Append(drafts, [to |-> at[Loop].to, reported |-> ok]) ELSE drafts
       /\ session' = [session EXCEPT !.ready = ok, !.created = ok]
  /\ Return(Loop)
  /\ UNCHANGED <<workspace, abandoned>>

\* A download, a check, a save or an export raises, which ends the request.
Raises ==
  /\ at[Loop].step \in {"batch", "interpretation", "confirming", "finalizing", "preflight", "exporting",
                        "drafting"}
  /\ Return(Loop)
  /\ UNCHANGED <<workspace, session, drafts, abandoned>>

-----------------------------------------------------------------------------

Next ==
  \/ \E m \in Messages : LoadMessage(m) \/ \E t \in Threads : Accept(t, m)
  \/ \E t \in Threads : Announce(t)
  \/ \E p \in Processes : Loading(p)
  \/ Reset \/ ResetRaises \/ ResetEnds
  \/ \E kind \in {"batch", "interpretation"} : Prepare(kind)
  \/ PrepareRaises \/ Prepared \/ Confirm \/ Confirmed
  \/ Finalize \/ Preflight \/ Blocked \/ Ready \/ Proceed \/ FinalizeInterpretation
  \/ NotDrafted \/ Request \/ Drafted \/ Raises

Spec == Init /\ [][Next]_vars

-----------------------------------------------------------------------------
(* Properties *)

\* Every variable stays in its type, and a workspace that has a session has the last one.
TypeOK ==
  /\ workspace \in Workspaces
  /\ session \in Sessions \union {None}
  /\ at \in [Processes -> Places]
  /\ abandoned \in BOOLEAN
  /\ workspace.session # "none" => session # None /\ session.kind = workspace.session
  /\ \A p \in Processes : at[p].detached => at[p].step \in {"cleaning", "storing"}
  /\ \A d \in DOMAIN drafts : drafts[d] \in [to : Explicit \union {Court}, reported : BOOLEAN]

\* The attachments of a batch are confirmed once each and in their order, and the index of the
\* workspace counts them, whatever the bridge clears while one is being confirmed.
ConfirmedInOrder ==
  /\ session # None => \A i \in DOMAIN session.confirmed : session.confirmed[i] = i
  /\ workspace.session = "batch" => workspace.index = Len(session.confirmed)

BeingLoaded(m) ==
  \E p \in Processes : at[p].step \in {"loading", "cleaning"} /\ at[p].message = m

\* The plan of the web application's stabilization: "clear pending fields on success, reset, and
\* unexpected failure paths". So an intake that the workspace shows as loading is being loaded.
WarmingHasALoader == workspace.warming # None => BeingLoaded(workspace.warming)

\* Nothing but a cleanup that raises leaves an intake shown as loading that nobody loads: loads
\* that overtake one another, that fail, that meet a reset or its failure, or that are cleared
\* by the load of another message leave no page waiting for ever.
OnlyCleanupAbandons == workspace.warming # None /\ ~abandoned => BeingLoaded(workspace.warming)

\* A batch whose draft was reported as made gets no second one, however often it is finalized
\* or checked again, and however the checks end.
NoSecondDraft ==
  session # None /\ session.kind = "batch" =>
    \A d, e \in DOMAIN drafts : drafts[d].reported => e <= d

\* The app guide: "When the original Gmail message explicitly names a reply email, the app now
\* prefers that reply address for the Gmail draft instead of a weaker derived guess."
ReplyAddressIsTheMessages ==
  \A d \in DOMAIN drafts : session.message \in Explicit => drafts[d].to = session.message

=============================================================================
