--------------------------- MODULE GmailSessionProof ---------------------------
(******************************************************************************)
(* The Gmail workspace keeps its types, confirms the attachments of a batch   *)
(* once each and in order, abandons no intake but by a cleanup that raises,   *)
(* and makes no second draft of a batch, for every set of messages and of     *)
(* threads of the bridge, every size of a batch and every number of drafts.   *)
(******************************************************************************)
EXTENDS GmailSession, TLAPS

LoaderSteps == {"accepted", "loading", "cleaning", "storing"}

\* The steps of the event loop that prepare a session, and those that have one.
PreparingSteps == {"batch", "interpretation"}
SessionSteps   == {"confirming", "finalizing", "preflight", "exporting", "drafting"}

\* A thread of the bridge only loads; who loads or prepares has a message, who drafts an address.
PlacesFit ==
  \A p \in Processes :
    /\ p # Loop => at[p].step \in {"idle"} \union LoaderSteps
    /\ at[p].step \in LoaderSteps \union PreparingSteps => at[p].message \in Messages
    /\ at[p].step = "drafting" => at[p].to \in Explicit \union {Court}

\* The drafts are a sequence, and the event loop has a session where it works on one; only an
\* interpretation is drafted without a look at earlier drafts.
LoopFits ==
  /\ drafts \in Seq([to : Explicit \union {Court}, reported : BOOLEAN])
  /\ at[Loop].step \in SessionSteps => session # None
  /\ at[Loop].step \in {"confirming", "finalizing", "preflight"} => session.kind = "batch"

\* The attachment that is being confirmed is the next one of the session, be its workspace
\* cleared or not.
NumberFits ==
  at[Loop].step = "confirming" => at[Loop].number = Len(session.confirmed) + 1

\* Who loads the intake that is shown as loading does so for the workspace that shows it, unless
\* a cleanup raised.
WarmingIsAttached ==
  workspace.warming # None /\ ~abandoned =>
    \E p \in Processes :
      /\ at[p].step \in {"loading", "cleaning"} /\ at[p].message = workspace.warming
      /\ ~at[p].detached

\* While a draft of a batch is reported, the batch is ready and none is on its way.
ReportedIsReady ==
  session # None /\ session.kind = "batch" /\ (\E d \in DOMAIN drafts : drafts[d].reported) =>
      session.ready /\ at[Loop].step \notin {"finalizing", "exporting", "drafting"}

IInv ==
  /\ TypeOK
  /\ PlacesFit
  /\ LoopFits
  /\ ConfirmedInOrder
  /\ NumberFits
  /\ WarmingIsAttached
  /\ ReportedIsReady
  /\ NoSecondDraft

\* Who loads the intake that is shown goes on doing so, where a step leaves both alone.
LEMMA StaysAttached ==
  ASSUME WarmingIsAttached, workspace'.warming = workspace.warming, abandoned' = abandoned,
         \A p \in Processes :
           at[p].step \in {"loading", "cleaning"} /\ ~at[p].detached =>
             /\ at'[p].step \in {"loading", "cleaning"} /\ at'[p].message = at[p].message
             /\ ~at'[p].detached
  PROVE  WarmingIsAttached'
  BY DEF WarmingIsAttached

\* The place of a process after an action that returns, or that goes to another step.
LEMMA Returned ==
  ASSUME at \in [Processes -> Places], NEW p \in Processes, Return(p)
  PROVE  /\ at' \in [Processes -> Places] /\ at'[p] = Idle
         /\ \A q \in Processes : q # p => at'[q] = at[q]
<1>1. Idle \in Places
  BY DEF Idle, Places, Steps
<1> QED
  BY <1>1 DEF Return

\* The same of an action that goes to another step.
LEMMA Went ==
  ASSUME at \in [Processes -> Places], NEW p \in Processes, NEW step \in Steps, Goto(p, step)
  PROVE  /\ at' \in [Processes -> Places]
         /\ at'[p] = [at[p] EXCEPT !.step = step]
         /\ \A q \in Processes : q # p => at'[q] = at[q]
<1>1. [at[p] EXCEPT !.step = step] \in Places
  BY DEF Places
<1> QED
  BY <1>1 DEF Goto

\* The same of one that takes a place of its own.
LEMMA Moved ==
  ASSUME at \in [Processes -> Places], NEW p \in Processes, NEW place \in Places,
         at' = [at EXCEPT ![p] = place]
  PROVE  /\ at' \in [Processes -> Places] /\ at'[p] = place
         /\ \A q \in Processes : q # p => at'[q] = at[q]
  OBVIOUS

\* Deleting a directory changes nothing of a session but its copies.
LEMMA DirectoryDeleted ==
  ASSUME session \in Sessions \union {None}, DeleteDirectory,
         workspace.session # "none" => session # None
  PROVE  /\ session' \in Sessions \union {None}
         /\ session' = None <=> session = None
         /\ session # None => /\ session'.kind = session.kind /\ session'.ready = session.ready
                              /\ session'.confirmed = session.confirmed
<1>1. CASE ~HasDirectory
  BY <1>1 DEF DeleteDirectory
<1>2. CASE HasDirectory
  <2>1. session \in Sessions
    BY <1>2 DEF HasDirectory
  <2>2. PICK intact \in BOOLEAN :
          session' = [session EXCEPT !.temporary = FALSE, !.intact = intact]
    BY <1>2 DEF DeleteDirectory, NothingStaged
  <2>3. session' \in Sessions
    BY <2>1, <2>2 DEF Sessions
  <2> QED
    BY <2>1, <2>2, <2>3, GmailAssumption
<1> QED
  BY <1>1, <1>2

\* Nor does a deletion that raises.
LEMMA DeletionRaised ==
  ASSUME session \in Sessions \union {None}, DeletionRaises,
         workspace.session # "none" => session # None
  PROVE  /\ session' \in Sessions /\ session # None
         /\ session'.kind = session.kind /\ session'.ready = session.ready
         /\ session'.confirmed = session.confirmed
<1>1. session \in Sessions
  BY DEF DeletionRaises, HasDirectory
<1>2. PICK intact \in BOOLEAN : session' = [session EXCEPT !.temporary = FALSE, !.intact = intact]
  BY <1>1 DEF DeletionRaises, NothingStaged, Sessions
<1>3. session' \in Sessions
  BY <1>1, <1>2 DEF Sessions
<1> QED
  BY <1>1, <1>2, <1>3, GmailAssumption DEF Sessions

\* What is reported stays so, where a step leaves the drafts alone and begins none.
LEMMA StaysReady ==
  ASSUME ReportedIsReady, drafts' = drafts,
         session' # None =>
           session # None /\ session'.kind = session.kind /\ session'.ready = session.ready,
         at'[Loop].step \in {"finalizing", "exporting", "drafting"} =>
           at[Loop].step \in {"finalizing", "exporting", "drafting"}
  PROVE  ReportedIsReady'
  BY DEF ReportedIsReady

\* A workspace that takes the place of another has no session and no intake; the threads go on
\* where they are.
LEMMA RenewKeeps ==
  ASSUME IInv, NEW step \in {"idle", "resetting"}, Renew(step), drafts' = drafts,
         session' \in Sessions \union {None}, session' = None <=> session = None,
         session # None => /\ session'.kind = session.kind /\ session'.ready = session.ready
                           /\ session'.confirmed = session.confirmed
  PROVE  IInv'
<1> USE GmailAssumption
<1>1. /\ at' \in [Processes -> Places]
      /\ at'[Loop].step = step /\ ~at'[Loop].detached
      /\ \A q \in Processes : q # Loop =>
           /\ at'[q].step = at[q].step /\ at'[q].message = at[q].message /\ at'[q].to = at[q].to
           /\ at'[q].detached => at[q].detached \/ at[q].step \in {"cleaning", "storing"}
  <2> DEFINE left(q) == at[q].detached \/ at[q].step \in {"cleaning", "storing"}
  <2>1. \A q \in Processes : at[q] \in Places /\ left(q) \in BOOLEAN
    BY DEF IInv, TypeOK
  <2>2. [Idle EXCEPT !.step = step] \in Places
    BY DEF Idle, Places, Steps
  <2>3. at' = [q \in Processes |-> IF q = Loop THEN [Idle EXCEPT !.step = step]
                                  ELSE [at[q] EXCEPT !.detached = left(q)]]
    BY DEF Renew
  <2>4. \A q \in Processes : q # Loop => at'[q] = [at[q] EXCEPT !.detached = left(q)]
    BY <2>3
  <2>5. Loop \in Processes /\ at'[Loop] = [Idle EXCEPT !.step = step]
    BY <2>3 DEF Processes
  <2> HIDE DEF left
  <2>6. \A q \in Processes : at'[q] \in Places
    <3>1. ASSUME NEW q \in Processes, q # Loop PROVE at'[q] \in Places
      <4>1. PICK flag \in BOOLEAN : at'[q] = [at[q] EXCEPT !.detached = flag]
        BY <2>1, <2>4, <3>1
      <4> QED
        BY <2>1, <4>1 DEF Places
    <3> QED
      BY <2>2, <2>5, <3>1
  <2>7. at'[Loop].step = step /\ ~at'[Loop].detached
    BY <2>5 DEF Idle
  <2>8. \A q \in Processes : q # Loop =>
          /\ at'[q].step = at[q].step /\ at'[q].message = at[q].message /\ at'[q].to = at[q].to
          /\ at'[q].detached => left(q)
    <3> SUFFICES ASSUME NEW q \in Processes, q # Loop
                 PROVE  /\ at'[q].step = at[q].step /\ at'[q].message = at[q].message
                        /\ at'[q].to = at[q].to /\ (at'[q].detached => left(q))
      OBVIOUS
    <3>1. at[q] \in Places /\ at'[q] = [at[q] EXCEPT !.detached = left(q)]
      BY <2>1, <2>4
    <3> QED
      BY <3>1 DEF Places
  <2> QED
    BY <2>3, <2>6, <2>7, <2>8 DEF left
<1>2. TypeOK'
  <2>1. workspace' \in Workspaces
    BY DEF Renew, FreshWorkspace, Workspaces
  <2>2. workspace'.session # "none" => session' # None /\ session'.kind = workspace'.session
    BY DEF Renew, FreshWorkspace
  <2>3. \A q \in Processes : at'[q].detached => at'[q].step \in {"cleaning", "storing"}
    BY <1>1 DEF IInv, TypeOK
  <2>4. \A i \in DOMAIN drafts' : drafts'[i] \in [to : Explicit \union {Court}, reported : BOOLEAN]
    BY DEF IInv, TypeOK
  <2>5. abandoned' \in BOOLEAN
    BY DEF Renew
  <2> QED
    BY <1>1, <2>1, <2>2, <2>3, <2>4, <2>5 DEF TypeOK
<1>3. PlacesFit'
  BY <1>1 DEF IInv, PlacesFit, LoaderSteps, PreparingSteps
<1>4. LoopFits'
  BY <1>1 DEF IInv, LoopFits, SessionSteps
<1>5. ConfirmedInOrder'
  BY DEF Renew, FreshWorkspace, IInv, ConfirmedInOrder
<1>6. NumberFits'
  BY <1>1 DEF NumberFits
<1>7. WarmingIsAttached'
  BY DEF Renew, FreshWorkspace, WarmingIsAttached
<1>8. ReportedIsReady'
  BY <1>1, StaysReady DEF IInv
<1>9. NoSecondDraft'
  BY DEF IInv, NoSecondDraft
<1> QED
  BY <1>2, <1>3, <1>4, <1>5, <1>6, <1>7, <1>8, <1>9 DEF IInv

\* The manager starts with a fresh workspace.
LEMMA Initially == Init => IInv
<1> SUFFICES ASSUME Init PROVE IInv
  OBVIOUS
<1>1. Idle \in Places /\ Idle.step = "idle" /\ ~Idle.detached
  BY DEF Idle, Places, Steps
<1>2. TypeOK
  <2>1. workspace \in Workspaces /\ workspace.session = "none"
    BY DEF Init, Workspaces, FreshWorkspace
  <2>2. at \in [Processes -> Places] /\ \A p \in Processes : ~at[p].detached
    BY <1>1 DEF Init
  <2>3. drafts = <<>> /\ abandoned \in BOOLEAN /\ session = None
    BY DEF Init
  <2> QED
    BY <2>1, <2>2, <2>3 DEF TypeOK
<1>3. PlacesFit /\ LoopFits /\ NumberFits /\ ReportedIsReady
  BY <1>1 DEF Init, PlacesFit, LoaderSteps, PreparingSteps, SessionSteps, LoopFits, NumberFits,
              ReportedIsReady, Processes
<1>4. ConfirmedInOrder /\ WarmingIsAttached /\ NoSecondDraft
  BY DEF Init, ConfirmedInOrder, WarmingIsAttached, NoSecondDraft, FreshWorkspace
<1> QED
  BY <1>2, <1>3, <1>4 DEF IInv

\* One step per action, and under it one per part of the invariant.
LEMMA Inductive == IInv /\ [Next]_vars => IInv'
<1> SUFFICES ASSUME IInv, [Next]_vars PROVE IInv'
  OBVIOUS
<1> USE GmailAssumption
<1>1. ASSUME NEW m \in Messages, LoadMessage(m) PROVE IInv'
  <2>1. /\ at' \in [Processes -> Places]
        /\ at'[Loop] = [Idle EXCEPT !.step = "loading", !.message = m]
        /\ \A q \in Processes : q # Loop => at'[q] = at[q]
    <3>1. /\ [Idle EXCEPT !.step = "loading", !.message = m] \in Places
          /\ at' = [at EXCEPT ![Loop] = [Idle EXCEPT !.step = "loading", !.message = m]]
      BY <1>1 DEF LoadMessage, Idle, Places, Steps
    <3> QED
      BY <3>1, Moved DEF IInv, TypeOK, Processes
  <2>11. at'[Loop].step = "loading" /\ at'[Loop].message = m /\ ~at'[Loop].detached
    BY <2>1 DEF Idle
  <2>2. TypeOK'
    <3>1. workspace' \in Workspaces
      BY <1>1 DEF LoadMessage, SetPending, IInv, TypeOK, Workspaces
    <3>2. session' \in Sessions \union {None}
      BY <1>1 DEF LoadMessage, IInv, TypeOK
    <3>3. workspace'.session # "none" => session' # None /\ session'.kind = workspace'.session
      BY <1>1 DEF LoadMessage, SetPending, IInv, TypeOK
    <3>4. \A q \in Processes : at'[q].detached => at'[q].step \in {"cleaning", "storing"}
      BY <2>1, <2>11 DEF IInv, TypeOK
    <3>5. \A i \in DOMAIN drafts' : drafts'[i] \in [to : Explicit \union {Court}, reported : BOOLEAN]
      BY <1>1 DEF LoadMessage, IInv, TypeOK
    <3>6. abandoned' \in BOOLEAN
      BY <1>1 DEF LoadMessage, SetPending
    <3> QED
      BY <2>1, <3>1, <3>2, <3>3, <3>4, <3>5, <3>6 DEF TypeOK
  <2>3. PlacesFit'
    BY <2>1, <2>11 DEF IInv, PlacesFit, LoaderSteps, PreparingSteps
  <2>4. LoopFits'
    BY <1>1, <2>1 DEF LoadMessage, Idle, IInv, LoopFits, SessionSteps
  <2>5. ConfirmedInOrder'
    BY <1>1 DEF LoadMessage, SetPending, IInv, ConfirmedInOrder
  <2>6. NumberFits'
    BY <2>1 DEF Idle, NumberFits
  <2>7. WarmingIsAttached'
    <3>1. workspace'.warming = m
      BY <1>1 DEF LoadMessage, SetPending, IInv, TypeOK, Workspaces
    <3> QED
      BY <2>1, <3>1 DEF WarmingIsAttached, Idle, Processes
  <2>8. ReportedIsReady'
    BY <1>1, <2>1, StaysReady DEF LoadMessage, Idle, IInv
  <2>9. NoSecondDraft'
    BY <1>1 DEF LoadMessage, IInv, NoSecondDraft
  <2> QED
    BY <2>2, <2>3, <2>4, <2>5, <2>6, <2>7, <2>8, <2>9 DEF IInv
<1>2. ASSUME NEW t \in Threads, NEW m \in Messages, Accept(t, m) PROVE IInv'
  <2>1. /\ at' \in [Processes -> Places] /\ t \in Processes /\ t # Loop
        /\ at'[t] = [Idle EXCEPT !.step = "accepted", !.message = m]
        /\ \A q \in Processes : q # t => at'[q] = at[q]
    <3>1. /\ [Idle EXCEPT !.step = "accepted", !.message = m] \in Places
          /\ at' = [at EXCEPT ![t] = [Idle EXCEPT !.step = "accepted", !.message = m]]
      BY <1>2 DEF Accept, Idle, Places, Steps
    <3>2. t \in Processes /\ t # Loop
      BY DEF Processes
    <3> QED
      BY <3>1, <3>2, Moved DEF IInv, TypeOK
  <2>11. at'[t].step = "accepted" /\ at'[t].message = m /\ ~at'[t].detached
    BY <2>1 DEF Idle
  <2>2. TypeOK'
    <3>1. workspace' \in Workspaces
      BY <1>2 DEF Accept, IInv, TypeOK
    <3>2. session' \in Sessions \union {None}
      BY <1>2 DEF Accept, IInv, TypeOK
    <3>3. workspace'.session # "none" => session' # None /\ session'.kind = workspace'.session
      BY <1>2 DEF Accept, IInv, TypeOK
    <3>4. \A q \in Processes : at'[q].detached => at'[q].step \in {"cleaning", "storing"}
      BY <2>1, <2>11 DEF IInv, TypeOK
    <3>5. \A i \in DOMAIN drafts' : drafts'[i] \in [to : Explicit \union {Court}, reported : BOOLEAN]
      BY <1>2 DEF Accept, IInv, TypeOK
    <3>6. abandoned' \in BOOLEAN
      BY <1>2 DEF Accept, IInv, TypeOK
    <3> QED
      BY <2>1, <3>1, <3>2, <3>3, <3>4, <3>5, <3>6 DEF TypeOK
  <2>3. PlacesFit'
    BY <2>1, <2>11 DEF IInv, PlacesFit, LoaderSteps, PreparingSteps
  <2>4. LoopFits'
    BY <1>2, <2>1 DEF Accept, IInv, LoopFits, Processes
  <2>5. ConfirmedInOrder'
    BY <1>2 DEF Accept, IInv, ConfirmedInOrder
  <2>6. NumberFits'
    BY <1>2, <2>1 DEF Accept, IInv, NumberFits, Processes
  <2>7. WarmingIsAttached'
    <3>1. at[t].step = "idle"
      BY <1>2 DEF Accept, Idle
    <3> QED
      BY <1>2, <2>1, <3>1, StaysAttached DEF Accept, IInv
  <2>8. ReportedIsReady'
    BY <1>2, <2>1, StaysReady DEF Accept, IInv, Processes
  <2>9. NoSecondDraft'
    BY <1>2 DEF Accept, IInv, NoSecondDraft
  <2> QED
    BY <2>2, <2>3, <2>4, <2>5, <2>6, <2>7, <2>8, <2>9 DEF IInv
<1>3. ASSUME NEW t \in Threads, Announce(t) PROVE IInv'
  <2>1. /\ at' \in [Processes -> Places] /\ at'[t] = [at[t] EXCEPT !.step = "loading"]
        /\ \A q \in Processes : q # t => at'[q] = at[q]
    BY <1>3, Went DEF Announce, Steps, IInv, TypeOK, Processes
  <2>2. TypeOK'
    <3>1. workspace' \in Workspaces
      BY <1>3 DEF Announce, SetPending, IInv, TypeOK, PlacesFit, Workspaces, Processes
    <3>2. session' \in Sessions \union {None}
      BY <1>3 DEF Announce, IInv, TypeOK
    <3>3. workspace'.session # "none" => session' # None /\ session'.kind = workspace'.session
      BY <1>3 DEF Announce, SetPending, IInv, TypeOK
    <3>4. \A q \in Processes : at'[q].detached => at'[q].step \in {"cleaning", "storing"}
      BY <1>3, <2>1 DEF Announce, IInv, TypeOK, Places
    <3>5. \A i \in DOMAIN drafts' : drafts'[i] \in [to : Explicit \union {Court}, reported : BOOLEAN]
      BY <1>3 DEF Announce, IInv, TypeOK
    <3>6. abandoned' \in BOOLEAN
      BY <1>3 DEF Announce, SetPending, IInv, TypeOK
    <3> QED
      BY <2>1, <3>1, <3>2, <3>3, <3>4, <3>5, <3>6 DEF TypeOK
  <2>3. PlacesFit'
    BY <1>3, <2>1 DEF Announce, IInv, PlacesFit, Places, LoaderSteps
  <2>4. LoopFits'
    BY <1>3, <2>1 DEF Announce, IInv, LoopFits, Processes
  <2>5. ConfirmedInOrder'
    BY <1>3 DEF Announce, SetPending, IInv, ConfirmedInOrder
  <2>6. NumberFits'
    BY <1>3, <2>1 DEF Announce, IInv, Processes, NumberFits
  <2>7. WarmingIsAttached'
    BY <1>3, <2>1 DEF Announce, SetPending, IInv, TypeOK, WarmingIsAttached, Places, Processes
  <2>8. ReportedIsReady'
    BY <1>3, <2>1, StaysReady DEF IInv, Processes, Announce
  <2>9. NoSecondDraft'
    BY <1>3 DEF Announce, IInv, NoSecondDraft
  <2> QED
    BY <2>2, <2>3, <2>4, <2>5, <2>6, <2>7, <2>8, <2>9 DEF IInv
<1>4. ASSUME NEW p \in Processes, LoadFails(p) PROVE IInv'
  <2>1. /\ at' \in [Processes -> Places] /\ at'[p] = Idle
        /\ \A q \in Processes : q # p => at'[q] = at[q]
    BY <1>4, Returned DEF LoadFails, IInv, TypeOK
  <2>2. TypeOK'
    <3>1. workspace' \in Workspaces
      BY <1>4 DEF LoadFails, SetPending, IInv, TypeOK, Workspaces
    <3>2. session' \in Sessions \union {None}
      BY <1>4 DEF LoadFails, IInv, TypeOK
    <3>3. workspace'.session # "none" => session' # None /\ session'.kind = workspace'.session
      BY <1>4 DEF LoadFails, SetPending, IInv, TypeOK
    <3>4. \A q \in Processes : at'[q].detached => at'[q].step \in {"cleaning", "storing"}
      BY <2>1 DEF IInv, TypeOK, Idle
    <3>5. \A i \in DOMAIN drafts' : drafts'[i] \in [to : Explicit \union {Court}, reported : BOOLEAN]
      BY <1>4 DEF LoadFails, IInv, TypeOK
    <3>6. abandoned' \in BOOLEAN
      BY <1>4 DEF LoadFails, SetPending
    <3> QED
      BY <2>1, <3>1, <3>2, <3>3, <3>4, <3>5, <3>6 DEF TypeOK
  <2>3. PlacesFit'
    BY <2>1 DEF IInv, PlacesFit, Idle, LoaderSteps, PreparingSteps
  <2>4. LoopFits'
    BY <1>4, <2>1 DEF LoadFails, Idle, IInv, LoopFits, Processes, SessionSteps
  <2>5. ConfirmedInOrder'
    BY <1>4 DEF LoadFails, SetPending, IInv, ConfirmedInOrder
  <2>6. NumberFits'
    BY <1>4, <2>1 DEF LoadFails, Idle, IInv, Processes, NumberFits, LoaderSteps
  <2>7. WarmingIsAttached'
    BY <1>4 DEF LoadFails, SetPending, WarmingIsAttached
  <2>8. ReportedIsReady'
    BY <1>4, <2>1, StaysReady DEF Idle, IInv, Processes, LoadFails
  <2>9. NoSecondDraft'
    BY <1>4 DEF LoadFails, IInv, NoSecondDraft
  <2> QED
    BY <2>2, <2>3, <2>4, <2>5, <2>6, <2>7, <2>8, <2>9 DEF IInv
<1>5. ASSUME NEW p \in Processes, Loads(p) PROVE IInv'
  <2>1. /\ at' \in [Processes -> Places] /\ at'[p] = [at[p] EXCEPT !.step = "cleaning"]
        /\ \A q \in Processes : q # p => at'[q] = at[q]
    BY <1>5, Went DEF Loads, Steps, IInv, TypeOK
  <2>2. TypeOK'
    <3>1. workspace' \in Workspaces
      BY <1>5 DEF Loads, IInv, TypeOK
    <3>2. /\ session' \in Sessions \union {None} /\ (session' = None <=> session = None)
          /\ session # None => session'.kind = session.kind
      BY <1>5, DirectoryDeleted DEF Loads, IInv, TypeOK
    <3>3. workspace'.session # "none" => session' # None /\ session'.kind = workspace'.session
      BY <1>5, <3>2 DEF Loads, IInv, TypeOK
    <3>4. \A q \in Processes : at'[q].detached => at'[q].step \in {"cleaning", "storing"}
      BY <2>1 DEF IInv, TypeOK, Places
    <3>5. \A i \in DOMAIN drafts' : drafts'[i] \in [to : Explicit \union {Court}, reported : BOOLEAN]
      BY <1>5 DEF Loads, IInv, TypeOK
    <3>6. abandoned' \in BOOLEAN
      BY <1>5 DEF Loads, IInv, TypeOK
    <3> QED
      BY <2>1, <3>1, <3>2, <3>3, <3>4, <3>5, <3>6 DEF TypeOK
  <2>3. PlacesFit'
    BY <1>5, <2>1 DEF Loads, IInv, PlacesFit, Places, LoaderSteps
  <2>4. LoopFits'
    BY <1>5, <2>1, DirectoryDeleted
       DEF Loads, IInv, TypeOK, LoopFits, Places, Processes, SessionSteps
  <2>5. ConfirmedInOrder'
    BY <1>5, DirectoryDeleted DEF Loads, IInv, TypeOK, ConfirmedInOrder
  <2>6. NumberFits'
    BY <1>5, <2>1 DEF Loads, DeleteDirectory, IInv, Processes, NumberFits, Places
  <2>7. WarmingIsAttached'
    BY <1>5, <2>1, StaysAttached DEF Loads, IInv, Places
  <2>8. ReportedIsReady'
    BY <1>5, <2>1, DirectoryDeleted, StaysReady DEF IInv, Processes, Loads, TypeOK, Places
  <2>9. NoSecondDraft'
    BY <1>5, DirectoryDeleted DEF Loads, IInv, TypeOK, NoSecondDraft
  <2> QED
    BY <2>2, <2>3, <2>4, <2>5, <2>6, <2>7, <2>8, <2>9 DEF IInv
<1>6. ASSUME NEW p \in Processes, Clears(p) PROVE IInv'
  <2>1. /\ at' \in [Processes -> Places] /\ at'[p] = [at[p] EXCEPT !.step = "storing"]
        /\ \A q \in Processes : q # p => at'[q] = at[q]
    BY <1>6, Went DEF Clears, Steps, IInv, TypeOK
  <2>10. /\ workspace' \in Workspaces
         /\ workspace' # workspace => workspace'.session = "none" /\ workspace'.warming = None
    <3>1. CASE at[p].detached
      BY <1>6, <3>1 DEF Clears, IInv, TypeOK
    <3>2. CASE ~at[p].detached
      <4>1. /\ workspace \in Workspaces
            /\ workspace' = [workspace EXCEPT !.reply = None, !.warming = None, !.session = "none",
                                             !.index = 0]
        BY <1>6, <3>2 DEF Clears, Cleaned, IInv, TypeOK
      <4> QED
        BY <4>1 DEF Workspaces
    <3> QED
      BY <3>1, <3>2
  <2>2. TypeOK'
    <3>1. workspace' \in Workspaces
      BY <2>10
    <3>2. session' \in Sessions \union {None}
      BY <1>6 DEF Clears, IInv, TypeOK
    <3>3. workspace'.session # "none" => session' # None /\ session'.kind = workspace'.session
      BY <1>6, <2>10 DEF Clears, IInv, TypeOK
    <3>4. \A q \in Processes : at'[q].detached => at'[q].step \in {"cleaning", "storing"}
      BY <2>1 DEF IInv, TypeOK, Places
    <3>5. \A i \in DOMAIN drafts' : drafts'[i] \in [to : Explicit \union {Court}, reported : BOOLEAN]
      BY <1>6 DEF Clears, IInv, TypeOK
    <3>6. abandoned' \in BOOLEAN
      BY <1>6 DEF Clears, IInv, TypeOK
    <3> QED
      BY <2>1, <3>1, <3>2, <3>3, <3>4, <3>5, <3>6 DEF TypeOK
  <2>3. PlacesFit'
    BY <1>6, <2>1 DEF Clears, IInv, PlacesFit, Places, LoaderSteps
  <2>4. LoopFits'
    BY <1>6, <2>1 DEF Clears, IInv, LoopFits, Places, Processes, SessionSteps
  <2>5. ConfirmedInOrder'
    BY <1>6, <2>10 DEF Clears, IInv, ConfirmedInOrder
  <2>6. NumberFits'
    BY <1>6, <2>1 DEF Clears, IInv, Processes, NumberFits, Places, LoaderSteps
  <2>7. WarmingIsAttached'
    <3>1. CASE at[p].detached
      BY <1>6, <2>1, <3>1, StaysAttached DEF Clears, IInv
    <3>2. CASE ~at[p].detached
      BY <1>6, <3>2 DEF Clears, Cleaned, IInv, TypeOK, Workspaces, WarmingIsAttached
    <3> QED
      BY <3>1, <3>2
  <2>8. ReportedIsReady'
    BY <1>6, <2>1, StaysReady DEF IInv, Processes, Clears, Places
  <2>9. NoSecondDraft'
    BY <1>6 DEF Clears, IInv, NoSecondDraft
  <2> QED
    BY <2>2, <2>3, <2>4, <2>5, <2>6, <2>7, <2>8, <2>9 DEF IInv
<1>7. ASSUME NEW p \in Processes, Stores(p) PROVE IInv'
  <2>1. /\ at' \in [Processes -> Places] /\ at'[p] = Idle
        /\ \A q \in Processes : q # p => at'[q] = at[q]
    BY <1>7, Returned DEF Stores, IInv, TypeOK
  <2>2. TypeOK'
    <3>1. workspace' \in Workspaces
      <4>1. at[p].message \in Messages
        BY <1>7 DEF Stores, IInv, PlacesFit, LoaderSteps
      <4>2. PICK ok \in BOOLEAN :
              workspace' =
                IF at[p].detached THEN workspace
                ELSE [workspace EXCEPT !.loaded = at[p].message, !.ok = ok,
                        !.reply = IF ok /\ at[p].message \in Explicit THEN at[p].message ELSE None]
        BY <1>7 DEF Stores
      <4> DEFINE reply == IF ok /\ at[p].message \in Explicit THEN at[p].message ELSE None
      <4>3. reply \in Explicit \union {None}
        OBVIOUS
      <4>4. workspace' = IF at[p].detached THEN workspace
                         ELSE [workspace EXCEPT !.loaded = at[p].message, !.ok = ok, !.reply = reply]
        BY <4>2
      <4> HIDE DEF reply
      <4>5. workspace \in Workspaces
        BY DEF IInv, TypeOK
      <4> QED
        BY <4>1, <4>3, <4>4, <4>5 DEF Workspaces
    <3>2. session' \in Sessions \union {None}
      BY <1>7 DEF Stores, IInv, TypeOK
    <3>3. workspace'.session # "none" => session' # None /\ session'.kind = workspace'.session
      BY <1>7 DEF Stores, IInv, TypeOK
    <3>4. \A q \in Processes : at'[q].detached => at'[q].step \in {"cleaning", "storing"}
      BY <2>1 DEF IInv, TypeOK, Idle
    <3>5. \A i \in DOMAIN drafts' : drafts'[i] \in [to : Explicit \union {Court}, reported : BOOLEAN]
      BY <1>7 DEF Stores, IInv, TypeOK
    <3>6. abandoned' \in BOOLEAN
      BY <1>7 DEF Stores, IInv, TypeOK
    <3> QED
      BY <2>1, <3>1, <3>2, <3>3, <3>4, <3>5, <3>6 DEF TypeOK
  <2>3. PlacesFit'
    BY <2>1 DEF IInv, PlacesFit, Idle, LoaderSteps, PreparingSteps
  <2>4. LoopFits'
    BY <1>7, <2>1 DEF Stores, Idle, IInv, LoopFits, Processes, LoaderSteps, SessionSteps
  <2>5. ConfirmedInOrder'
    BY <1>7 DEF Stores, IInv, ConfirmedInOrder
  <2>6. NumberFits'
    BY <1>7, <2>1 DEF Stores, Idle, IInv, Processes, NumberFits
  <2>7. WarmingIsAttached'
    BY <1>7, <2>1, StaysAttached DEF Stores, IInv
  <2>8. ReportedIsReady'
    BY <1>7, <2>1, StaysReady DEF Idle, IInv, Processes, Stores
  <2>9. NoSecondDraft'
    BY <1>7 DEF Stores, IInv, NoSecondDraft
  <2> QED
    BY <2>2, <2>3, <2>4, <2>5, <2>6, <2>7, <2>8, <2>9 DEF IInv
<1>8. ASSUME Reset PROVE IInv'
  <2>1. /\ session' \in Sessions \union {None} /\ (session' = None <=> session = None)
        /\ session # None => /\ session'.kind = session.kind /\ session'.ready = session.ready
                             /\ session'.confirmed = session.confirmed
    BY <1>8, DirectoryDeleted DEF Reset, IInv, TypeOK
  <2> QED
    BY <1>8, <2>1, RenewKeeps DEF Reset
<1>9. ASSUME ResetEnds PROVE IInv'
  BY <1>9, RenewKeeps DEF ResetEnds, IInv, TypeOK
<1>10. ASSUME NEW kind \in {"batch", "interpretation"}, Prepare(kind) PROVE IInv'
  <2>1. /\ at' \in [Processes -> Places]
        /\ at'[Loop] = [Idle EXCEPT !.step = kind, !.message = workspace.loaded]
        /\ \A q \in Processes : q # Loop => at'[q] = at[q]
    <3>1. workspace.loaded \in Messages
      BY <1>10 DEF Prepare, IInv, TypeOK, Workspaces
    <3>2. /\ [Idle EXCEPT !.step = kind, !.message = workspace.loaded] \in Places
          /\ at' = [at EXCEPT ![Loop] = [Idle EXCEPT !.step = kind, !.message = workspace.loaded]]
      BY <1>10, <3>1 DEF Prepare, Idle, Places, Steps
    <3> QED
      BY <3>2, Moved DEF IInv, TypeOK, Processes
  <2>0. /\ session' \in Sessions \union {None} /\ (session' = None <=> session = None)
        /\ session # None => /\ session'.kind = session.kind /\ session'.ready = session.ready
                             /\ session'.confirmed = session.confirmed
    BY <1>10, DirectoryDeleted DEF Prepare, IInv, TypeOK
  <2>10. /\ workspace' \in Workspaces
         /\ workspace'.session \in {workspace.session, "none"}
         /\ workspace'.index = workspace.index /\ workspace'.warming = workspace.warming
    <3> DEFINE kept == IF workspace.session = kind THEN workspace.session ELSE "none"
    <3>1. kept \in {workspace.session, "none"} /\ workspace \in Workspaces
      BY DEF IInv, TypeOK
    <3>2. workspace' = [workspace EXCEPT !.session = kept]
      BY <1>10 DEF Prepare
    <3> HIDE DEF kept
    <3> QED
      BY <3>1, <3>2 DEF Workspaces
  <2>11. at'[Loop].step = kind /\ at'[Loop].message = workspace.loaded /\ ~at'[Loop].detached
    BY <2>1 DEF Idle
  <2>2. TypeOK'
    <3>1. workspace' \in Workspaces
      BY <2>10
    <3>2. session' \in Sessions \union {None}
      BY <2>0
    <3>3. workspace'.session # "none" => session' # None /\ session'.kind = workspace'.session
      BY <2>0, <2>10 DEF IInv, TypeOK
    <3>4. \A q \in Processes : at'[q].detached => at'[q].step \in {"cleaning", "storing"}
      BY <2>1 DEF IInv, TypeOK, Idle
    <3>5. \A i \in DOMAIN drafts' : drafts'[i] \in [to : Explicit \union {Court}, reported : BOOLEAN]
      BY <1>10 DEF Prepare, IInv, TypeOK
    <3>6. abandoned' \in BOOLEAN
      BY <1>10 DEF Prepare, IInv, TypeOK
    <3> QED
      BY <2>1, <3>1, <3>2, <3>3, <3>4, <3>5, <3>6 DEF TypeOK
  <2>3. PlacesFit'
    <3>1. workspace.loaded \in Messages
      BY <1>10 DEF Prepare, IInv, TypeOK, Workspaces
    <3> QED
      BY <2>1, <2>11, <3>1 DEF IInv, PlacesFit, LoaderSteps, PreparingSteps
  <2>4. LoopFits'
    BY <1>10, <2>1 DEF Prepare, Idle, IInv, LoopFits, SessionSteps
  <2>5. ConfirmedInOrder'
    BY <2>0, <2>10 DEF IInv, TypeOK, ConfirmedInOrder
  <2>6. NumberFits'
    BY <2>1 DEF Idle, NumberFits
  <2>7. WarmingIsAttached'
    <3>1. at[Loop].step = "idle"
      BY <1>10 DEF Prepare, Idle
    <3> QED
      BY <1>10, <2>1, <2>10, <3>1, StaysAttached DEF Prepare, IInv
  <2>8. ReportedIsReady'
    BY <1>10, <2>0, <2>1, StaysReady DEF Prepare, Idle, IInv
  <2>9. NoSecondDraft'
    BY <1>10, <2>0 DEF Prepare, IInv, NoSecondDraft
  <2> QED
    BY <2>2, <2>3, <2>4, <2>5, <2>6, <2>7, <2>8, <2>9 DEF IInv
<1>11. ASSUME Prepared PROVE IInv'
  <2>1. /\ at' \in [Processes -> Places] /\ at'[Loop] = Idle
        /\ \A q \in Processes : q # Loop => at'[q] = at[q]
    BY <1>11, Returned DEF Prepared, IInv, TypeOK, Processes
  <2>2. TypeOK'
    <3>1. workspace' \in Workspaces
      BY <1>11 DEF Prepared, IInv, TypeOK, Workspaces
    <3>2. session' \in Sessions
      <4>1. at[Loop].message \in Messages /\ Size \in {1, Size}
        BY <1>11 DEF Prepared, IInv, PlacesFit, PreparingSteps, Processes
      <4> QED
        BY <1>11, <4>1 DEF Prepared, FreshSession, Sessions
    <3>3. workspace'.session # "none" => session' # None /\ session'.kind = workspace'.session
      BY <1>11, <3>1, <3>2 DEF Prepared, FreshSession, Workspaces
    <3>4. \A q \in Processes : at'[q].detached => at'[q].step \in {"cleaning", "storing"}
      BY <2>1 DEF IInv, TypeOK, Idle
    <3>5. \A i \in DOMAIN drafts' : drafts'[i] \in [to : Explicit \union {Court}, reported : BOOLEAN]
      BY <1>11 DEF Prepared
    <3>6. abandoned' \in BOOLEAN
      BY <1>11 DEF Prepared, IInv, TypeOK
    <3> QED
      BY <2>1, <3>1, <3>2, <3>3, <3>4, <3>5, <3>6 DEF TypeOK
  <2>3. PlacesFit'
    BY <2>1 DEF IInv, PlacesFit, Idle, LoaderSteps, PreparingSteps
  <2>4. LoopFits'
    BY <1>11, <2>1 DEF Prepared, Idle, LoopFits, SessionSteps
  <2>5. ConfirmedInOrder'
    BY <1>11 DEF Prepared, FreshSession, ConfirmedInOrder
  <2>6. NumberFits'
    BY <2>1 DEF Idle, NumberFits
  <2>7. WarmingIsAttached'
    BY <1>11, <2>1, StaysAttached DEF Prepared, IInv
  <2>8. ReportedIsReady'
    BY <1>11 DEF Prepared, ReportedIsReady
  <2>9. NoSecondDraft'
    BY <1>11 DEF Prepared, NoSecondDraft
  <2> QED
    BY <2>2, <2>3, <2>4, <2>5, <2>6, <2>7, <2>8, <2>9 DEF IInv
<1>12. ASSUME Confirm PROVE IInv'
  <2>10. workspace.index + 1 \in Nat
    BY DEF IInv, TypeOK, Workspaces
  <2>11. /\ at' \in [Processes -> Places]
         /\ at'[Loop] = [Idle EXCEPT !.step = "confirming", !.number = workspace.index + 1]
         /\ \A q \in Processes : q # Loop => at'[q] = at[q]
    <3>1. /\ [Idle EXCEPT !.step = "confirming", !.number = workspace.index + 1] \in Places
          /\ at' = [at EXCEPT ![Loop] =
                     [Idle EXCEPT !.step = "confirming", !.number = workspace.index + 1]]
      BY <1>12, <2>10 DEF Confirm, Idle, Places, Steps
    <3> QED
      BY <3>1, Moved DEF IInv, TypeOK, Processes
  <2>1. /\ at' \in [Processes -> Places] /\ at'[Loop].step = "confirming" /\ ~at'[Loop].detached
        /\ at'[Loop].number = workspace.index + 1 /\ at[Loop].step = "idle"
        /\ \A q \in Processes : q # Loop => at'[q] = at[q]
    BY <1>12, <2>11 DEF Confirm, Idle
  <2>2. TypeOK'
    BY <1>12, <2>1 DEF Confirm, Idle, IInv, TypeOK
  <2>3. PlacesFit'
    BY <1>12, <2>1 DEF Confirm, IInv, PlacesFit, LoaderSteps, PreparingSteps
  <2>4. LoopFits'
    BY <1>12 DEF Confirm, IInv, TypeOK, LoopFits
  <2>5. ConfirmedInOrder'
    BY <1>12 DEF Confirm, IInv, ConfirmedInOrder
  <2>6. NumberFits'
    BY <1>12, <2>1 DEF Confirm, IInv, ConfirmedInOrder, NumberFits
  <2>7. WarmingIsAttached'
    BY <1>12, <2>1, StaysAttached DEF Confirm, Idle, IInv
  <2>8. ReportedIsReady'
    BY <1>12, <2>1 DEF Confirm, IInv, ReportedIsReady
  <2>9. NoSecondDraft'
    BY <1>12 DEF Confirm, IInv, NoSecondDraft
  <2> QED
    BY <2>2, <2>3, <2>4, <2>5, <2>6, <2>7, <2>8, <2>9 DEF IInv
<1>13. ASSUME Confirmed PROVE IInv'
  <2>1. /\ at' \in [Processes -> Places] /\ at'[Loop] = Idle
        /\ \A q \in Processes : q # Loop => at'[q] = at[q]
    BY <1>13, Returned DEF Confirmed, IInv, TypeOK, Processes
  <2>2. TypeOK'
    <3>1. workspace' \in Workspaces
      BY <1>13 DEF Confirmed, IInv, TypeOK, Workspaces
    <3>2. session' \in Sessions
      <4>1. session \in Sessions /\ at[Loop].number \in Nat
        BY <1>13 DEF Confirmed, IInv, TypeOK, LoopFits, SessionSteps, Places, Processes
      <4> DEFINE longer == Append(session.confirmed, at[Loop].number)
      <4>2. longer \in Seq(Nat)
        BY <4>1 DEF Sessions
      <4>3. session' = [session EXCEPT !.confirmed = longer]
        BY <1>13 DEF Confirmed
      <4> HIDE DEF longer
      <4> QED
        BY <4>1, <4>2, <4>3 DEF Sessions
    <3>3. workspace'.session # "none" => session' # None /\ session'.kind = workspace'.session
      BY <1>13, <3>2 DEF Confirmed, IInv, TypeOK, Sessions, Workspaces
    <3>4. \A q \in Processes : at'[q].detached => at'[q].step \in {"cleaning", "storing"}
      BY <2>1 DEF IInv, TypeOK, Processes, Idle
    <3>5. \A i \in DOMAIN drafts' : drafts'[i] \in [to : Explicit \union {Court}, reported : BOOLEAN]
      BY <1>13 DEF Confirmed, IInv, TypeOK
    <3>6. abandoned' \in BOOLEAN
      BY <1>13 DEF Confirmed, IInv, TypeOK
    <3> QED
      BY <2>1, <3>1, <3>2, <3>3, <3>4, <3>5, <3>6 DEF TypeOK
  <2>3. PlacesFit'
    BY <2>1 DEF IInv, PlacesFit, Idle, LoaderSteps, PreparingSteps
  <2>4. LoopFits'
    BY <1>13, <2>1 DEF Confirmed, Idle, IInv, LoopFits, SessionSteps
  <2>5. ConfirmedInOrder'
    <3>1. session \in Sessions /\ at[Loop].number = Len(session.confirmed) + 1
      BY <1>13 DEF Confirmed, IInv, TypeOK, LoopFits, SessionSteps, NumberFits
    <3>2. session'.confirmed = Append(session.confirmed, at[Loop].number)
      BY <1>13, <3>1 DEF Confirmed, Sessions
    <3>3. session.confirmed \in Seq(Nat) /\ \A i \in DOMAIN session.confirmed : session.confirmed[i] = i
      BY <3>1, GmailAssumption DEF IInv, ConfirmedInOrder, Sessions
    <3>4. /\ Len(session'.confirmed) = Len(session.confirmed) + 1
          /\ \A i \in DOMAIN session'.confirmed : session'.confirmed[i] = i
      BY <3>1, <3>2, <3>3
    <3>5. /\ workspace'.session = workspace.session /\ workspace'.index = workspace.index + 1
          /\ session # None
      BY <1>13 DEF Confirmed, IInv, TypeOK, Workspaces, LoopFits, SessionSteps
    <3> QED
      BY <3>4, <3>5 DEF IInv, ConfirmedInOrder
  <2>6. NumberFits'
    BY <2>1 DEF Idle, NumberFits
  <2>7. WarmingIsAttached'
    BY <1>13, <2>1, StaysAttached DEF Confirmed, IInv
  <2>8. ReportedIsReady'
    BY <1>13, <2>1 DEF Confirmed, Idle, IInv, LoopFits, ReportedIsReady, SessionSteps
  <2>9. NoSecondDraft'
    BY <1>13 DEF Confirmed, IInv, LoopFits, NoSecondDraft, SessionSteps
  <2> QED
    BY <2>2, <2>3, <2>4, <2>5, <2>6, <2>7, <2>8, <2>9 DEF IInv
<1>14. ASSUME Finalize PROVE IInv'
  <2>1. /\ at' \in [Processes -> Places] /\ at'[Loop] = [at[Loop] EXCEPT !.step = "finalizing"]
        /\ \A q \in Processes : q # Loop => at'[q] = at[q]
    <3>1. Goto(Loop, "finalizing") /\ "finalizing" \in Steps
      BY <1>14 DEF Finalize, Steps
    <3> QED
      BY <3>1, Went DEF IInv, TypeOK, Processes
  <2>2. TypeOK'
    <3>1. workspace' \in Workspaces
      BY <1>14 DEF Finalize, IInv, TypeOK
    <3>2. session' \in Sessions \union {None}
      BY <1>14 DEF Finalize, IInv, TypeOK
    <3>3. workspace'.session # "none" => session' # None /\ session'.kind = workspace'.session
      BY <1>14 DEF Finalize, IInv, TypeOK
    <3>4. \A q \in Processes : at'[q].detached => at'[q].step \in {"cleaning", "storing"}
      BY <1>14, <2>1 DEF Finalize, IInv, TypeOK, Idle
    <3>5. \A i \in DOMAIN drafts' : drafts'[i] \in [to : Explicit \union {Court}, reported : BOOLEAN]
      BY <1>14 DEF Finalize, IInv, TypeOK
    <3>6. abandoned' \in BOOLEAN
      BY <1>14 DEF Finalize, IInv, TypeOK
    <3> QED
      BY <2>1, <3>1, <3>2, <3>3, <3>4, <3>5, <3>6 DEF TypeOK
  <2>3. PlacesFit'
    BY <2>1 DEF IInv, PlacesFit, Places, LoaderSteps, PreparingSteps
  <2>4. LoopFits'
    BY <1>14 DEF Finalize, IInv, TypeOK, LoopFits
  <2>5. ConfirmedInOrder'
    BY <1>14 DEF Finalize, IInv, ConfirmedInOrder
  <2>6. NumberFits'
    BY <2>1 DEF NumberFits
  <2>7. WarmingIsAttached'
    BY <1>14, <2>1, StaysAttached DEF Finalize, Idle, IInv
  <2>8. ReportedIsReady'
    BY <1>14 DEF Finalize, HasDraft, IInv, ReportedIsReady
  <2>9. NoSecondDraft'
    BY <1>14 DEF Finalize, IInv, NoSecondDraft
  <2> QED
    BY <2>2, <2>3, <2>4, <2>5, <2>6, <2>7, <2>8, <2>9 DEF IInv
<1>15. ASSUME Preflight PROVE IInv'
  <2>1. /\ at' \in [Processes -> Places] /\ at'[Loop] = [at[Loop] EXCEPT !.step = "preflight"]
        /\ \A q \in Processes : q # Loop => at'[q] = at[q]
    <3>1. Goto(Loop, "preflight") /\ "preflight" \in Steps
      BY <1>15 DEF Preflight, Steps
    <3> QED
      BY <3>1, Went DEF IInv, TypeOK, Processes
  <2>2. TypeOK'
    <3>1. workspace' \in Workspaces
      BY <1>15 DEF Preflight, IInv, TypeOK
    <3>2. session' \in Sessions \union {None}
      BY <1>15 DEF Preflight, IInv, TypeOK
    <3>3. workspace'.session # "none" => session' # None /\ session'.kind = workspace'.session
      BY <1>15 DEF Preflight, IInv, TypeOK
    <3>4. \A q \in Processes : at'[q].detached => at'[q].step \in {"cleaning", "storing"}
      BY <1>15, <2>1 DEF Preflight, IInv, TypeOK, Idle
    <3>5. \A i \in DOMAIN drafts' : drafts'[i] \in [to : Explicit \union {Court}, reported : BOOLEAN]
      BY <1>15 DEF Preflight, IInv, TypeOK
    <3>6. abandoned' \in BOOLEAN
      BY <1>15 DEF Preflight, IInv, TypeOK
    <3> QED
      BY <2>1, <3>1, <3>2, <3>3, <3>4, <3>5, <3>6 DEF TypeOK
  <2>3. PlacesFit'
    BY <2>1 DEF IInv, PlacesFit, Places, LoaderSteps, PreparingSteps
  <2>4. LoopFits'
    BY <1>15 DEF Preflight, IInv, TypeOK, LoopFits
  <2>5. ConfirmedInOrder'
    BY <1>15 DEF Preflight, IInv, ConfirmedInOrder
  <2>6. NumberFits'
    BY <2>1 DEF NumberFits
  <2>7. WarmingIsAttached'
    BY <1>15, <2>1, StaysAttached DEF Preflight, Idle, IInv
  <2>8. ReportedIsReady'
    BY <1>15, <2>1 DEF Preflight, IInv, ReportedIsReady
  <2>9. NoSecondDraft'
    BY <1>15 DEF Preflight, IInv, NoSecondDraft
  <2> QED
    BY <2>2, <2>3, <2>4, <2>5, <2>6, <2>7, <2>8, <2>9 DEF IInv
<1>16. ASSUME Blocked PROVE IInv'
  <2>1. /\ at' \in [Processes -> Places] /\ at'[Loop] = Idle
        /\ \A q \in Processes : q # Loop => at'[q] = at[q]
    BY <1>16, Returned DEF Blocked, IInv, TypeOK, Processes
  <2>2. TypeOK'
    <3>1. workspace' \in Workspaces
      BY <1>16 DEF Blocked, IInv, TypeOK
    <3>2. session' \in Sessions \union {None}
      BY <1>16 DEF Blocked, IInv, TypeOK, LoopFits, SessionSteps, Sessions
    <3>3. workspace'.session # "none" => session' # None /\ session'.kind = workspace'.session
      BY <1>16 DEF Blocked, IInv, TypeOK, Sessions
    <3>4. \A q \in Processes : at'[q].detached => at'[q].step \in {"cleaning", "storing"}
      BY <2>1 DEF IInv, TypeOK, Idle
    <3>5. \A i \in DOMAIN drafts' : drafts'[i] \in [to : Explicit \union {Court}, reported : BOOLEAN]
      BY <1>16 DEF Blocked, IInv, TypeOK
    <3>6. abandoned' \in BOOLEAN
      BY <1>16 DEF Blocked, IInv, TypeOK
    <3> QED
      BY <2>1, <3>1, <3>2, <3>3, <3>4, <3>5, <3>6 DEF TypeOK
  <2>3. PlacesFit'
    BY <2>1 DEF IInv, PlacesFit, Idle, LoaderSteps, PreparingSteps
  <2>4. LoopFits'
    BY <1>16, <2>1 DEF Blocked, Idle, IInv, LoopFits, SessionSteps
  <2>5. ConfirmedInOrder'
    BY <1>16 DEF Blocked, IInv, LoopFits, SessionSteps, ConfirmedInOrder
  <2>6. NumberFits'
    BY <2>1 DEF Idle, NumberFits
  <2>7. WarmingIsAttached'
    BY <1>16, <2>1, StaysAttached DEF Blocked, IInv
  <2>8. ReportedIsReady'
    BY <1>16, <2>1 DEF Blocked, Idle, IInv, LoopFits, ReportedIsReady, SessionSteps
  <2>9. NoSecondDraft'
    BY <1>16 DEF Blocked, IInv, LoopFits, NoSecondDraft, SessionSteps
  <2> QED
    BY <2>2, <2>3, <2>4, <2>5, <2>6, <2>7, <2>8, <2>9 DEF IInv
<1>17. ASSUME Ready PROVE IInv'
  <2>1. /\ at' \in [Processes -> Places] /\ at'[Loop] = Idle
        /\ \A q \in Processes : q # Loop => at'[q] = at[q]
    BY <1>17, Returned DEF Ready, IInv, TypeOK, Processes
  <2>2. TypeOK'
    BY <1>17, <2>1 DEF Ready, Idle, IInv, TypeOK
  <2>3. PlacesFit'
    BY <2>1 DEF IInv, PlacesFit, Idle, LoaderSteps, PreparingSteps
  <2>4. LoopFits'
    BY <1>17 DEF Ready, IInv, LoopFits, SessionSteps
  <2>5. ConfirmedInOrder'
    BY <1>17 DEF Ready, IInv, ConfirmedInOrder
  <2>6. NumberFits'
    BY <2>1 DEF Idle, NumberFits
  <2>7. WarmingIsAttached'
    BY <1>17, <2>1, StaysAttached DEF Ready, IInv
  <2>8. ReportedIsReady'
    BY <1>17, <2>1 DEF Ready, Idle, IInv, ReportedIsReady
  <2>9. NoSecondDraft'
    BY <1>17 DEF Ready, IInv, NoSecondDraft
  <2> QED
    BY <2>2, <2>3, <2>4, <2>5, <2>6, <2>7, <2>8, <2>9 DEF IInv
<1>18. ASSUME Proceed PROVE IInv'
  <2>1. /\ at' \in [Processes -> Places] /\ at'[Loop] = [at[Loop] EXCEPT !.step = "exporting"]
        /\ \A q \in Processes : q # Loop => at'[q] = at[q]
    BY <1>18, Went DEF Proceed, Steps, IInv, TypeOK, Processes
  <2>2. TypeOK'
    <3>1. workspace' \in Workspaces
      BY <1>18 DEF Proceed, IInv, TypeOK
    <3>2. session' \in Sessions \union {None}
      BY <1>18 DEF Proceed, IInv, TypeOK, Sessions
    <3>3. workspace'.session # "none" => session' # None /\ session'.kind = workspace'.session
      BY <1>18 DEF Proceed, IInv, TypeOK, Sessions
    <3>4. \A q \in Processes : at'[q].detached => at'[q].step \in {"cleaning", "storing"}
      BY <1>18, <2>1 DEF Proceed, IInv, TypeOK, Places
    <3>5. \A i \in DOMAIN drafts' : drafts'[i] \in [to : Explicit \union {Court}, reported : BOOLEAN]
      BY <1>18 DEF Proceed, IInv, TypeOK
    <3>6. abandoned' \in BOOLEAN
      BY <1>18 DEF Proceed, IInv, TypeOK
    <3> QED
      BY <2>1, <3>1, <3>2, <3>3, <3>4, <3>5, <3>6 DEF TypeOK
  <2>3. PlacesFit'
    BY <2>1 DEF IInv, PlacesFit, Places, LoaderSteps, PreparingSteps
  <2>4. LoopFits'
    <3>1. session \in Sessions /\ session.kind = "batch"
      BY <1>18 DEF Proceed, IInv, TypeOK, LoopFits, SessionSteps
    <3>2. session' # None /\ session'.kind = "batch"
      BY <1>18, <3>1, GmailAssumption DEF Proceed, Sessions
    <3> QED
      BY <1>18, <2>1, <3>2 DEF Proceed, IInv, LoopFits, SessionSteps
  <2>5. ConfirmedInOrder'
    BY <1>18 DEF Proceed, IInv, TypeOK, ConfirmedInOrder
  <2>6. NumberFits'
    BY <2>1 DEF NumberFits
  <2>7. WarmingIsAttached'
    BY <1>18, <2>1, StaysAttached DEF Proceed, IInv
  <2>8. ReportedIsReady'
    BY <1>18 DEF Proceed, IInv, TypeOK, ReportedIsReady
  <2>9. NoSecondDraft'
    BY <1>18 DEF Proceed, IInv, TypeOK, NoSecondDraft
  <2> QED
    BY <2>2, <2>3, <2>4, <2>5, <2>6, <2>7, <2>8, <2>9 DEF IInv
<1>19. ASSUME FinalizeInterpretation PROVE IInv'
  <2>1. /\ at' \in [Processes -> Places] /\ at'[Loop] = [at[Loop] EXCEPT !.step = "exporting"]
        /\ \A q \in Processes : q # Loop => at'[q] = at[q]
    <3>1. Goto(Loop, "exporting") /\ "exporting" \in Steps
      BY <1>19 DEF FinalizeInterpretation, Steps
    <3> QED
      BY <3>1, Went DEF IInv, TypeOK, Processes
  <2>2. TypeOK'
    <3>1. workspace' \in Workspaces
      BY <1>19 DEF FinalizeInterpretation, IInv, TypeOK
    <3>2. session' \in Sessions \union {None}
      BY <1>19 DEF FinalizeInterpretation, IInv, TypeOK
    <3>3. workspace'.session # "none" => session' # None /\ session'.kind = workspace'.session
      BY <1>19 DEF FinalizeInterpretation, IInv, TypeOK
    <3>4. \A q \in Processes : at'[q].detached => at'[q].step \in {"cleaning", "storing"}
      BY <1>19, <2>1 DEF FinalizeInterpretation, IInv, TypeOK, Idle
    <3>5. \A i \in DOMAIN drafts' : drafts'[i] \in [to : Explicit \union {Court}, reported : BOOLEAN]
      BY <1>19 DEF FinalizeInterpretation, IInv, TypeOK
    <3>6. abandoned' \in BOOLEAN
      BY <1>19 DEF FinalizeInterpretation, IInv, TypeOK
    <3> QED
      BY <2>1, <3>1, <3>2, <3>3, <3>4, <3>5, <3>6 DEF TypeOK
  <2>3. PlacesFit'
    BY <2>1 DEF IInv, PlacesFit, Places, LoaderSteps, PreparingSteps
  <2>4. LoopFits'
    BY <1>19, <2>1 DEF FinalizeInterpretation, IInv, TypeOK, LoopFits
  <2>5. ConfirmedInOrder'
    BY <1>19 DEF FinalizeInterpretation, IInv, ConfirmedInOrder
  <2>6. NumberFits'
    BY <2>1 DEF NumberFits
  <2>7. WarmingIsAttached'
    BY <1>19, <2>1, StaysAttached DEF FinalizeInterpretation, Idle, IInv
  <2>8. ReportedIsReady'
    BY <1>19, <2>2 DEF FinalizeInterpretation, TypeOK, ReportedIsReady
  <2>9. NoSecondDraft'
    BY <1>19 DEF FinalizeInterpretation, IInv, NoSecondDraft
  <2> QED
    BY <2>2, <2>3, <2>4, <2>5, <2>6, <2>7, <2>8, <2>9 DEF IInv
<1>20. ASSUME NotDrafted PROVE IInv'
  <2>1. /\ at' \in [Processes -> Places] /\ at'[Loop] = Idle
        /\ \A q \in Processes : q # Loop => at'[q] = at[q]
    BY <1>20, Returned DEF NotDrafted, IInv, TypeOK, Processes
  <2>2. TypeOK'
    <3>1. workspace' \in Workspaces
      BY <1>20 DEF NotDrafted, IInv, TypeOK
    <3>2. session' \in Sessions \union {None}
      BY <1>20 DEF NotDrafted, IInv, TypeOK, LoopFits, SessionSteps, Sessions
    <3>3. workspace'.session # "none" => session' # None /\ session'.kind = workspace'.session
      BY <1>20 DEF NotDrafted, IInv, TypeOK, Sessions
    <3>4. \A q \in Processes : at'[q].detached => at'[q].step \in {"cleaning", "storing"}
      BY <2>1 DEF IInv, TypeOK, Idle
    <3>5. \A i \in DOMAIN drafts' : drafts'[i] \in [to : Explicit \union {Court}, reported : BOOLEAN]
      BY <1>20 DEF NotDrafted, IInv, TypeOK
    <3>6. abandoned' \in BOOLEAN
      BY <1>20 DEF NotDrafted, IInv, TypeOK
    <3> QED
      BY <2>1, <3>1, <3>2, <3>3, <3>4, <3>5, <3>6 DEF TypeOK
  <2>3. PlacesFit'
    BY <2>1 DEF IInv, PlacesFit, Idle, LoaderSteps, PreparingSteps
  <2>4. LoopFits'
    BY <1>20, <2>1 DEF NotDrafted, Idle, IInv, LoopFits, SessionSteps
  <2>5. ConfirmedInOrder'
    BY <1>20 DEF NotDrafted, IInv, LoopFits, SessionSteps, ConfirmedInOrder
  <2>6. NumberFits'
    BY <2>1 DEF Idle, NumberFits
  <2>7. WarmingIsAttached'
    BY <1>20, <2>1, StaysAttached DEF NotDrafted, IInv
  <2>8. ReportedIsReady'
    BY <1>20 DEF NotDrafted, IInv, LoopFits, ReportedIsReady, SessionSteps
  <2>9. NoSecondDraft'
    BY <1>20 DEF NotDrafted, IInv, LoopFits, NoSecondDraft, SessionSteps
  <2> QED
    BY <2>2, <2>3, <2>4, <2>5, <2>6, <2>7, <2>8, <2>9 DEF IInv
<1>21. ASSUME Request PROVE IInv'
  <2> DEFINE address == IF workspace.reply # None THEN workspace.reply ELSE Court
  <2> DEFINE place == [at[Loop] EXCEPT !.step = "drafting", !.to = address]
  <2>1. /\ at' \in [Processes -> Places] /\ at'[Loop] = place
        /\ \A q \in Processes : q # Loop => at'[q] = at[q]
    <3>1. at' = [at EXCEPT ![Loop] = place]
      BY <1>21 DEF Request
    <3>2. place \in Places
      <4>1. address \in Explicit \union {Court}
        BY DEF IInv, TypeOK, Workspaces
      <4>2. at[Loop] \in Places
        BY DEF IInv, TypeOK, Processes
      <4> HIDE DEF address
      <4> QED
        BY <4>1, <4>2 DEF Places, Steps
    <3> HIDE DEF place
    <3> QED
      BY <3>1, <3>2 DEF IInv, TypeOK, Processes
  <2>2. TypeOK'
    <3>1. workspace' \in Workspaces
      BY <1>21 DEF Request, IInv, TypeOK
    <3>2. session' \in Sessions \union {None}
      BY <1>21 DEF Request, IInv, TypeOK
    <3>3. workspace'.session # "none" => session' # None /\ session'.kind = workspace'.session
      BY <1>21 DEF Request, IInv, TypeOK
    <3>4. \A q \in Processes : at'[q].detached => at'[q].step \in {"cleaning", "storing"}
      BY <1>21 DEF Request, IInv, TypeOK
    <3>5. \A i \in DOMAIN drafts' : drafts'[i] \in [to : Explicit \union {Court}, reported : BOOLEAN]
      BY <1>21 DEF Request, IInv, TypeOK
    <3>6. abandoned' \in BOOLEAN
      BY <1>21 DEF Request, IInv, TypeOK
    <3> QED
      BY <2>1, <3>1, <3>2, <3>3, <3>4, <3>5, <3>6 DEF TypeOK
  <2>3. PlacesFit'
    <3>1. at'[Loop].step = "drafting" /\ at'[Loop].to \in Explicit \union {Court}
      <4>1. address \in Explicit \union {Court}
        BY DEF IInv, TypeOK, Workspaces
      <4>2. at[Loop] \in Places
        BY DEF IInv, TypeOK, Processes
      <4> HIDE DEF address
      <4> QED
        BY <2>1, <4>1, <4>2 DEF Places
    <3> QED
      BY <2>1, <3>1 DEF IInv, PlacesFit, LoaderSteps, PreparingSteps
  <2>4. LoopFits'
    BY <1>21, <2>1 DEF Request, IInv, LoopFits, SessionSteps
  <2>5. ConfirmedInOrder'
    BY <1>21 DEF Request, IInv, ConfirmedInOrder
  <2>6. NumberFits'
    BY <2>1 DEF NumberFits
  <2>7. WarmingIsAttached'
    BY <1>21, <2>1, StaysAttached DEF Request, IInv
  <2>8. ReportedIsReady'
    BY <1>21 DEF Request, IInv, ReportedIsReady
  <2>9. NoSecondDraft'
    BY <1>21 DEF Request, IInv, NoSecondDraft
  <2> QED
    BY <2>2, <2>3, <2>4, <2>5, <2>6, <2>7, <2>8, <2>9 DEF IInv
<1>22. ASSUME Drafted PROVE IInv'
  <2>1. /\ at' \in [Processes -> Places] /\ at'[Loop] = Idle
        /\ \A q \in Processes : q # Loop => at'[q] = at[q]
    BY <1>22, Returned DEF Drafted, IInv, TypeOK, Processes
  <2>2. TypeOK'
    <3>1. workspace' \in Workspaces
      BY <1>22 DEF Drafted, IInv, TypeOK
    <3>2. session' \in Sessions
      <4>1. session \in Sessions
        BY <1>22 DEF Drafted, IInv, TypeOK, LoopFits, SessionSteps
      <4> QED
        BY <1>22, <4>1 DEF Drafted, Sessions
    <3>3. workspace'.session # "none" => session' # None /\ session'.kind = workspace'.session
      BY <1>22, <3>2 DEF Drafted, IInv, TypeOK
    <3>4. \A q \in Processes : at'[q].detached => at'[q].step \in {"cleaning", "storing"}
      BY <2>1 DEF IInv, TypeOK, Processes, Idle
    <3>5. \A i \in DOMAIN drafts' : drafts'[i] \in [to : Explicit \union {Court}, reported : BOOLEAN]
      BY <1>22 DEF Drafted, IInv, TypeOK, Processes, PlacesFit
    <3>6. abandoned' \in BOOLEAN
      BY <1>22 DEF Drafted, IInv, TypeOK
    <3> QED
      BY <2>1, <3>1, <3>2, <3>3, <3>4, <3>5, <3>6 DEF TypeOK
  <2>3. PlacesFit'
    BY <2>1 DEF IInv, PlacesFit, Idle, LoaderSteps, PreparingSteps
  <2>4. LoopFits'
    <3>1. at[Loop].to \in Explicit \union {Court}
      BY <1>22 DEF Drafted, IInv, PlacesFit, Processes
    <3>2. PICK made, ok \in BOOLEAN :
            drafts' = IF made THEN Append(drafts, [to |-> at[Loop].to, reported |-> ok]) ELSE drafts
      BY <1>22 DEF Drafted
    <3> DEFINE Draft == [to : Explicit \union {Court}, reported : BOOLEAN]
               last == [to |-> at[Loop].to, reported |-> ok]
    <3>4. last \in Draft /\ drafts \in Seq(Draft)
      BY <3>1 DEF IInv, LoopFits
    <3>5. drafts' = IF made THEN Append(drafts, last) ELSE drafts
      BY <3>2
    <3> HIDE DEF Draft, last
    <3>6. drafts' \in Seq(Draft)
      BY <3>4, <3>5
    <3>3. drafts' \in Seq([to : Explicit \union {Court}, reported : BOOLEAN])
      BY <3>6 DEF Draft
    <3> QED
      BY <2>1, <3>3 DEF LoopFits, Idle, SessionSteps
  <2>5. ConfirmedInOrder'
    BY <1>22 DEF Drafted, IInv, LoopFits, SessionSteps, ConfirmedInOrder
  <2>6. NumberFits'
    BY <2>1 DEF Idle, NumberFits
  <2>7. WarmingIsAttached'
    BY <1>22, <2>1, StaysAttached DEF Drafted, IInv
  <2>8. ReportedIsReady'
    BY <1>22, <2>1 DEF Drafted, Idle, IInv, LoopFits, ReportedIsReady, SessionSteps
  <2>9. NoSecondDraft'
    BY <1>22 DEF Drafted, IInv, LoopFits, ReportedIsReady, NoSecondDraft, SessionSteps
  <2> QED
    BY <2>2, <2>3, <2>4, <2>5, <2>6, <2>7, <2>8, <2>9 DEF IInv
<1>23. ASSUME Raises PROVE IInv'
  <2>1. /\ at' \in [Processes -> Places] /\ at'[Loop] = Idle
        /\ \A q \in Processes : q # Loop => at'[q] = at[q]
    BY <1>23, Returned DEF Raises, IInv, TypeOK, Processes
  <2>2. TypeOK'
    BY <1>23, <2>1 DEF Raises, Idle, IInv, TypeOK
  <2>3. PlacesFit'
    BY <2>1 DEF IInv, PlacesFit, Idle, LoaderSteps, PreparingSteps
  <2>4. LoopFits'
    BY <1>23, <2>1 DEF Raises, Idle, IInv, LoopFits, SessionSteps
  <2>5. ConfirmedInOrder'
    BY <1>23 DEF Raises, IInv, ConfirmedInOrder
  <2>6. NumberFits'
    BY <2>1 DEF Idle, NumberFits
  <2>7. WarmingIsAttached'
    BY <1>23, <2>1, StaysAttached DEF Raises, IInv
  <2>8. ReportedIsReady'
    BY <1>23, <2>1 DEF Raises, Idle, IInv, ReportedIsReady
  <2>9. NoSecondDraft'
    BY <1>23 DEF Raises, IInv, NoSecondDraft
  <2> QED
    BY <2>2, <2>3, <2>4, <2>5, <2>6, <2>7, <2>8, <2>9 DEF IInv
<1>24. CASE UNCHANGED vars
  BY <1>24
     DEF vars, IInv, TypeOK, PlacesFit, LoopFits, ConfirmedInOrder, NumberFits, WarmingIsAttached,
         ReportedIsReady, NoSecondDraft
<1>25. ASSUME NEW p \in Processes, CleanupRaises(p) PROVE IInv'
  <2>1. /\ at' \in [Processes -> Places] /\ at'[p] = Idle
        /\ \A q \in Processes : q # p => at'[q] = at[q]
    BY <1>25, Returned DEF CleanupRaises, IInv, TypeOK
  <2>10. /\ session' \in Sessions /\ session # None /\ session' # None
         /\ session'.kind = session.kind /\ session'.ready = session.ready
         /\ session'.confirmed = session.confirmed
    BY <1>25, DeletionRaised DEF CleanupRaises, IInv, TypeOK
  <2>2. TypeOK'
    <3>1. workspace' \in Workspaces
      BY <1>25 DEF CleanupRaises, IInv, TypeOK
    <3>2. session' \in Sessions \union {None}
      BY <2>10
    <3>3. workspace'.session # "none" => session' # None /\ session'.kind = workspace'.session
      BY <1>25, <2>10 DEF CleanupRaises, IInv, TypeOK
    <3>4. \A q \in Processes : at'[q].detached => at'[q].step \in {"cleaning", "storing"}
      BY <2>1 DEF IInv, TypeOK, Idle
    <3>5. \A i \in DOMAIN drafts' : drafts'[i] \in [to : Explicit \union {Court}, reported : BOOLEAN]
      BY <1>25 DEF CleanupRaises, IInv, TypeOK
    <3>6. abandoned' \in BOOLEAN
      BY <1>25 DEF CleanupRaises, IInv, TypeOK
    <3> QED
      BY <2>1, <3>1, <3>2, <3>3, <3>4, <3>5, <3>6 DEF TypeOK
  <2>3. PlacesFit'
    BY <2>1 DEF IInv, PlacesFit, Idle, LoaderSteps, PreparingSteps
  <2>4. LoopFits'
    BY <1>25, <2>1, <2>10 DEF CleanupRaises, Idle, IInv, LoopFits, Processes, SessionSteps
  <2>5. ConfirmedInOrder'
    BY <1>25, <2>10 DEF CleanupRaises, IInv, ConfirmedInOrder
  <2>6. NumberFits'
    BY <1>25, <2>1, <2>10 DEF CleanupRaises, Idle, IInv, Processes, NumberFits
  <2>7. WarmingIsAttached'
    <3>1. CASE abandoned'
      BY <3>1 DEF WarmingIsAttached
    <3>2. CASE ~abandoned'
      <4>1. ~abandoned /\ at[p].message # workspace.warming /\ workspace' = workspace
        BY <1>25, <3>2 DEF CleanupRaises
      <4>2. ASSUME workspace.warming # None
            PROVE  \E q \in Processes : /\ q # p /\ at[q].step \in {"loading", "cleaning"}
                                        /\ at[q].message = workspace.warming /\ ~at[q].detached
        BY <4>1, <4>2 DEF IInv, WarmingIsAttached
      <4> QED
        BY <2>1, <4>1, <4>2 DEF WarmingIsAttached
    <3> QED
      BY <3>1, <3>2
  <2>8. ReportedIsReady'
    BY <1>25, <2>1, <2>10, StaysReady DEF CleanupRaises, Idle, IInv, Processes
  <2>9. NoSecondDraft'
    BY <1>25, <2>10 DEF CleanupRaises, IInv, NoSecondDraft
  <2> QED
    BY <2>2, <2>3, <2>4, <2>5, <2>6, <2>7, <2>8, <2>9 DEF IInv
<1>26. ASSUME NEW p \in Processes, PreviewsRaise(p) PROVE IInv'
  <2>1. /\ at' \in [Processes -> Places] /\ at'[p] = Idle
        /\ \A q \in Processes : q # p => at'[q] = at[q]
    BY <1>26, Returned DEF PreviewsRaise, IInv, TypeOK
  <2>2. TypeOK'
    <3>1. workspace' \in Workspaces
      BY <1>26 DEF PreviewsRaise, IInv, TypeOK
    <3>2. session' \in Sessions \union {None}
      BY <1>26 DEF PreviewsRaise, IInv, TypeOK
    <3>3. workspace'.session # "none" => session' # None /\ session'.kind = workspace'.session
      BY <1>26 DEF PreviewsRaise, IInv, TypeOK
    <3>4. \A q \in Processes : at'[q].detached => at'[q].step \in {"cleaning", "storing"}
      BY <2>1 DEF IInv, TypeOK, Idle
    <3>5. \A i \in DOMAIN drafts' : drafts'[i] \in [to : Explicit \union {Court}, reported : BOOLEAN]
      BY <1>26 DEF PreviewsRaise, IInv, TypeOK
    <3>6. abandoned' \in BOOLEAN
      BY <1>26 DEF PreviewsRaise, IInv, TypeOK
    <3> QED
      BY <2>1, <3>1, <3>2, <3>3, <3>4, <3>5, <3>6 DEF TypeOK
  <2>3. PlacesFit'
    BY <2>1 DEF IInv, PlacesFit, Idle, LoaderSteps, PreparingSteps
  <2>4. LoopFits'
    BY <1>26, <2>1 DEF PreviewsRaise, Idle, IInv, LoopFits, Processes, SessionSteps
  <2>5. ConfirmedInOrder'
    BY <1>26 DEF PreviewsRaise, IInv, ConfirmedInOrder
  <2>6. NumberFits'
    BY <1>26, <2>1 DEF PreviewsRaise, Idle, IInv, Processes, NumberFits
  <2>7. WarmingIsAttached'
    BY <1>26, <2>1, StaysAttached DEF PreviewsRaise, IInv
  <2>8. ReportedIsReady'
    BY <1>26, <2>1, StaysReady DEF PreviewsRaise, Idle, IInv, Processes
  <2>9. NoSecondDraft'
    BY <1>26 DEF PreviewsRaise, IInv, NoSecondDraft
  <2> QED
    BY <2>2, <2>3, <2>4, <2>5, <2>6, <2>7, <2>8, <2>9 DEF IInv
<1>27. ASSUME ResetRaises PROVE IInv'
  <2>1. /\ session' \in Sessions \union {None} /\ (session' = None <=> session = None)
        /\ session # None => /\ session'.kind = session.kind /\ session'.ready = session.ready
                             /\ session'.confirmed = session.confirmed
    <3>1. CASE DeletionRaises
      BY <3>1, DeletionRaised DEF IInv, TypeOK
    <3>2. CASE DeleteDirectory
      BY <3>2, DirectoryDeleted DEF IInv, TypeOK
    <3> QED
      BY <1>27, <3>1, <3>2 DEF ResetRaises
  <2> QED
    BY <1>27, <2>1, RenewKeeps DEF ResetRaises
<1>28. ASSUME PrepareRaises PROVE IInv'
  <2>1. UNCHANGED <<workspace, at, drafts, abandoned>>
    BY <1>28 DEF PrepareRaises
  <2>10. /\ session' \in Sessions /\ session # None /\ session' # None
         /\ session'.kind = session.kind /\ session'.ready = session.ready
         /\ session'.confirmed = session.confirmed
    BY <1>28, DeletionRaised DEF PrepareRaises, IInv, TypeOK
  <2>2. TypeOK' /\ PlacesFit' /\ WarmingIsAttached'
    BY <2>1, <2>10 DEF IInv, TypeOK, PlacesFit, WarmingIsAttached
  <2>3. LoopFits' /\ NumberFits' /\ ConfirmedInOrder'
    BY <2>1, <2>10 DEF IInv, LoopFits, NumberFits, ConfirmedInOrder
  <2>4. ReportedIsReady' /\ NoSecondDraft'
    BY <2>1, <2>10 DEF IInv, ReportedIsReady, NoSecondDraft
  <2> QED
    BY <2>2, <2>3, <2>4 DEF IInv
<1> QED
  BY <1>1, <1>2, <1>3, <1>4, <1>5, <1>6, <1>7, <1>8, <1>9, <1>10, <1>11, <1>12, <1>13, <1>14,
     <1>15, <1>16, <1>17, <1>18, <1>19, <1>20, <1>21, <1>22, <1>23, <1>24, <1>25, <1>26, <1>27,
     <1>28
     DEF Next, Loading

\* The strengthened invariant: what the places of the event loop and of the bridge's threads
\* mean for workspace, session and drafts, beside the properties below.
THEOREM SessionInvariant == Spec => []IInv
  BY Initially, Inductive, PTL DEF Spec

\* The manager never leaves its types, whatever Gmail answers and when (gmail_browser_service.py).
THEOREM TypeCorrect == Spec => []TypeOK
  BY SessionInvariant, PTL DEF IInv

\* confirm_current_batch_translation takes the attachments of a batch once each and in their
\* order, however many intakes of the bridge clear the workspace meanwhile.
THEOREM AttachmentsInOrder == Spec => []ConfirmedInOrder
  BY SessionInvariant, PTL DEF IInv

\* Of all loads that overtake one another, fail or meet a reset, none leaves the workspace
\* warming for ever but one whose cleanup raised (_mark_pending_failure, _store_loaded_result).
THEOREM OnlyCleanupLeavesWarming == Spec => []OnlyCleanupAbandons
<1>1. IInv => OnlyCleanupAbandons
  BY DEF IInv, WarmingIsAttached, OnlyCleanupAbandons, BeingLoaded
<1> QED
  BY <1>1, SessionInvariant, PTL

\* finalize_batch makes no draft after one that was reported as made.
THEOREM OneReportedDraft == Spec => []NoSecondDraft
  BY SessionInvariant, PTL DEF IInv

=============================================================================
