--------------------------- MODULE WorkflowRunProof ---------------------------
(*******************************************************************************)
(* WorkflowRun implements PagePurchase, for every set of pages and number of   *)
(* workers. The invariant says what the checkpoint, the files of the pages and *)
(* what was paid for have to do with one another at each place of a run, which *)
(* the code never compares.                                                    *)
(*******************************************************************************)
EXTENDS WorkflowRun, TLAPS, WellFoundedInduction

\* Only what was asked for is kept, and what is kept is in the checkpoint or, structured, on
\* disk as long as there is a checkpoint.
KeptFits ==
  /\ kept \subseteq bought
  /\ structured => Complete \subseteq kept
  /\ structured /\ state = NoState => bought = {} /\ document = {}
  /\ state # NoState => /\ Done(state) \subseteq kept
                        /\ kept \subseteq Done(state) \union (IF structured THEN Complete ELSE {})

\* Nothing is bought under a checkpoint that does not name the journal, and a structured
\* checkpoint says completed of all pages only.
StateFits ==
  state # NoState =>
    /\ ~state.ref => bought = {}
    /\ structured /\ state.status = "completed" => Done(state) = Pages

\* What the memory of a run has to do with the checkpoint.
MemoryFits ==
  /\ pc \in {"clear", "new"} => mem = FreshState(mem.keep)
  /\ pc = "clear" => ~structured
  /\ pc = "new" => state = NoState /\ ~PagesExist
  /\ pc = "announce" => state # NoState /\ mem = [state EXCEPT !.ref = TRUE]
  /\ pc \notin {"none", "clear", "new", "announce"} => mem = state
  /\ pc \in {"ready", "pool", "unwind", "partial", "assemble", "complete"} =>
       mem.ref /\ mem.status = "running"

\* What is true of the pages once a run is assembling.
WholeFits ==
  /\ pc \in {"assemble", "complete", "purge", "cleanup"} => Done(mem) = Pages
  /\ pc = "purge" => structured
  /\ pc \in {"purge", "cleanup"} => mem.status = "completed"
  /\ pc = "cleanup" /\ structured => mem.purged
  /\ pc = "rebuilt" /\ structured => document = Done(mem)

Collecting == {"bind", "announce", "ready", "pool", "unwind", "partial", "assemble"}

\* RunEvidence from the moment the checkpoint is taken up.
EvidenceFits ==
  pc \in Collecting =>
    /\ Done(mem) \subseteq Complete
    /\ structured => \A p \in Pages : files[p] = "partial" => task[p] # "waiting"

Paid == {"asked", "answered", "writing", "written", "ok"}

\* A task is about a page that is not done, and is followed by what its page's files are.
TaskFits(p) ==
  /\ ~InPool => task[p] \in {"waiting", "over"}
  /\ InPool /\ task[p] \notin {"waiting", "over"} => p \notin Done(mem)
  /\ InPool /\ task[p] \in Paid => p \in bought
  /\ InPool /\ task[p] \in {"written", "ok"} => p \in Complete
  /\ pc \in Collecting /\ structured /\ p \in Complete \ Done(mem) =>
       task[p] \in {"written", "ok", "bad", "over"}

TasksFit == \A p \in Pages : TaskFits(p)

IInv ==
  /\ TypeOK
  /\ MissingEvidenceIsRecorded
  /\ KeptFits
  /\ StateFits
  /\ MemoryFits
  /\ WholeFits
  /\ EvidenceFits
  /\ TasksFit

\* A run that is over, whatever it has written.
LEMMA Ended ==
  ASSUME TypeOK, EndProcess
  PROVE  MemoryFits' /\ WholeFits' /\ EvidenceFits' /\ TasksFit'
  BY DEF EndProcess, MemoryFits, WholeFits, EvidenceFits, TasksFit, TaskFits, InPool, Collecting,
         NoTasks

\* A step that moves tasks only.
LEMMA TaskMoved ==
  ASSUME IInv, UNCHANGED <<folder, pc, mem, cancel, stop, bought, kept>>,
         task' \in [Pages -> Places], \A q \in Pages : task'[q] = "waiting" => task[q] = "waiting",
         TasksFit'
  PROVE  IInv'
<1> USE DEF folder
<1>1. TypeOK'
  BY DEF IInv, TypeOK
<1>2. MissingEvidenceIsRecorded' /\ KeptFits' /\ StateFits' /\ MemoryFits' /\ WholeFits'
  BY DEF IInv, MissingEvidenceIsRecorded, KeptFits, StateFits, MemoryFits, WholeFits, Complete,
         PagesExist
<1>3. EvidenceFits'
  BY DEF IInv, EvidenceFits, Complete
<1> QED
  BY <1>1, <1>2, <1>3 DEF IInv

\* A RunState after its status is recorded.
LEMMA StatusRecorded ==
  ASSUME NEW s \in States, NEW x \in {"pending", "running", "completed", "cancelled", "failed"},
         NEW t, t = [s EXCEPT !.status = x]
  PROVE  /\ t \in States /\ t # NoState
         /\ t.status = x /\ t.page = s.page /\ t.ref = s.ref /\ t.purged = s.purged
  BY WorkflowAssumption DEF States

\* The same of the accounting's identity ...
LEMMA RefRecorded ==
  ASSUME NEW s \in States, NEW t, t = [s EXCEPT !.ref = TRUE]
  PROVE  /\ t \in States /\ t # NoState
         /\ t.status = s.status /\ t.page = s.page /\ t.ref /\ t.purged = s.purged
  BY WorkflowAssumption DEF States

\* ... of the purge ...
LEMMA PurgedRecorded ==
  ASSUME NEW s \in States, NEW t, t = [s EXCEPT !.purged = TRUE]
  PROVE  /\ t \in States /\ t # NoState
         /\ t.status = s.status /\ t.page = s.page /\ t.ref = s.ref /\ t.purged
  BY WorkflowAssumption DEF States

\* ... and of a page.
LEMMA PageRecorded ==
  ASSUME NEW s \in States, NEW p \in Pages, NEW x \in Statuses, NEW t,
         t = [s EXCEPT !.page[p] = x]
  PROVE  /\ t \in States /\ t # NoState
         /\ t.status = s.status /\ t.page = [s.page EXCEPT ![p] = x]
         /\ t.ref = s.ref /\ t.purged = s.purged
<1> DEFINE page == [s.page EXCEPT ![p] = x]
<1>1. page \in [Pages -> Statuses]
  BY DEF States
<1>2. t = [s EXCEPT !.page = page]
  OBVIOUS
<1>3. t \in States /\ t.status = s.status /\ t.page = page /\ t.ref = s.ref /\ t.purged = s.purged
  <2> HIDE DEF page
  <2> QED
    BY <1>1, <1>2 DEF States
<1> QED
  BY <1>3, WorkflowAssumption

\* The state of a run that begins anew has nothing done and names no journal.
LEMMA FreshIs ==
  ASSUME NEW keep \in BOOLEAN
  PROVE  /\ FreshState(keep) \in States /\ FreshState(keep) # NoState
         /\ FreshState(keep).keep = keep /\ Done(FreshState(keep)) = {}
         /\ FreshState(keep).status = "pending" /\ ~FreshState(keep).ref
<1>1. FreshState(keep) \in States
  BY DEF FreshState, States, Statuses
<1> QED
  BY <1>1, WorkflowAssumption DEF FreshState, Done

\* A recovery adds the committed pages to those that are done, and changes nothing else.
LEMMA RecoveredIs ==
  ASSUME NEW s \in States
  PROVE  /\ Recovered(s) \in States /\ Recovered(s) # NoState
         /\ Recovered(s).status = s.status /\ Recovered(s).ref = s.ref
         /\ Recovered(s).purged = s.purged
         /\ Done(Recovered(s)) = Done(s) \union (IF structured THEN Complete ELSE {})
<1> DEFINE page == [p \in Pages |-> IF structured /\ p \in Complete THEN "done" ELSE s.page[p]]
<1>1. page \in [Pages -> Statuses]
  BY DEF States, Statuses
<1>2. Recovered(s) = [s EXCEPT !.page = page]
  BY DEF Recovered
<1>3. /\ Recovered(s) \in States /\ Recovered(s).page = page
      /\ Recovered(s).status = s.status /\ Recovered(s).ref = s.ref /\ Recovered(s).purged = s.purged
  <2> HIDE DEF page
  <2> QED
    BY <1>1, <1>2 DEF States
<1> QED
  BY <1>3, WorkflowAssumption DEF Done, Complete

\* The next page to submit is one that is pending.
LEMMA PendingHasMin == ASSUME TypeOK, Pending # {} PROVE Min(Pending) \in Pending
<1>1. PICK p \in Pending : \A q \in Pending : ~ (<<q, p>> \in OpToRel(<, Nat))
  BY WFMin, NatLessThanWellFounded, WorkflowAssumption DEF Pending
<1>2. \A q \in Pending : p <= q
  <2> SUFFICES ASSUME NEW q \in Pending PROVE p <= q
    OBVIOUS
  <2>1. p \in Nat /\ q \in Nat
    BY WorkflowAssumption DEF Pending
  <2>2. ~ (q < p)
    BY <1>1, <2>1 DEF OpToRel
  <2> QED
    BY <2>1, <2>2
<1> QED
  BY <1>2 DEF Min

\* The folder is empty and nothing was bought.
LEMMA InitInvariant == Init => IInv
<1> SUFFICES ASSUME Init PROVE IInv
  OBVIOUS
<1> USE WorkflowAssumption DEF Init
<1>1. TypeOK
  BY DEF TypeOK, Places, NoTasks
<1>2. MissingEvidenceIsRecorded
  BY DEF MissingEvidenceIsRecorded
<1>3. KeptFits
  BY DEF KeptFits, Complete
<1>4. StateFits
  BY DEF StateFits
<1>5. MemoryFits
  BY DEF MemoryFits
<1>6. WholeFits
  BY DEF WholeFits
<1>7. EvidenceFits
  BY DEF EvidenceFits, Collecting
<1>8. TasksFit
  BY DEF TasksFit, TaskFits, InPool, Collecting, NoTasks
<1> QED
  BY <1>1, <1>2, <1>3, <1>4, <1>5, <1>6, <1>7, <1>8 DEF IInv

\* One step per action, and under it one per part of the invariant.
LEMMA StepInvariant == IInv /\ [Next]_vars => IInv'
<1> SUFFICES ASSUME IInv, [Next]_vars PROVE IInv'
  OBVIOUS
<1> USE WorkflowAssumption DEF IInv, vars, folder, process
<1>1. ASSUME Resume PROVE IInv'
  <2>b. state \in States /\ state # NoState
    BY <1>1 DEF Resume, TypeOK
  <2>c. mem' = Recovered(state) /\ state' = Recovered(state)
    BY <1>1 DEF Resume, Save
  <2>a. /\ state \in States /\ state # NoState /\ state' = mem' /\ mem' \in States /\ state' # NoState
        /\ state'.status = state.status /\ state'.ref = state.ref /\ state'.purged = state.purged
        /\ Done(mem') = Done(state) \union (IF structured THEN Complete ELSE {})
    BY <2>b, <2>c, RecoveredIs
  <2>1. TypeOK'
    BY <1>1, <2>a DEF Resume, TypeOK
  <2>2. MissingEvidenceIsRecorded'
    BY <1>1, <2>a DEF Resume, MissingEvidenceIsRecorded, Complete
  <2>3. KeptFits'
    BY <1>1, <2>a DEF Resume, KeptFits, Complete
  <2>4. StateFits'
    BY <1>1, <2>a DEF Resume, StateFits, Done
  <2>5. MemoryFits'
    BY <1>1, <2>a DEF Resume, MemoryFits
  <2>6. WholeFits'
    BY <1>1 DEF Resume, WholeFits
  <2>7. EvidenceFits'
    BY <1>1, <2>a DEF Resume, CanResume, EvidenceFits, Complete
  <2>8. TasksFit'
    BY <1>1, <2>a DEF Resume, TasksFit, TaskFits, InPool, Complete
  <2> QED
    BY <2>1, <2>2, <2>3, <2>4, <2>5, <2>6, <2>7, <2>8
<1>2. ASSUME NEW keep \in BOOLEAN, Start(keep) PROVE IInv'
  <2>a. /\ mem' = FreshState(mem'.keep) /\ mem' \in States
    BY <1>2, FreshIs DEF Start
  <2>1. TypeOK'
    BY <1>2, <2>a DEF Start, TypeOK
  <2>2. MissingEvidenceIsRecorded'
    BY <1>2 DEF Start, MissingEvidenceIsRecorded
  <2>3. KeptFits'
    BY <1>2 DEF Start, KeptFits, Complete
  <2>4. StateFits'
    BY <1>2 DEF Start, StateFits
  <2>5. MemoryFits'
    BY <1>2, <2>a DEF Start, PagesExist, MemoryFits
  <2>6. WholeFits'
    BY <1>2 DEF Start, WholeFits
  <2>7. EvidenceFits'
    BY <1>2 DEF Start, EvidenceFits, Collecting
  <2>8. TasksFit'
    BY <1>2 DEF Start, TasksFit, TaskFits, InPool, Collecting
  <2> QED
    BY <2>1, <2>2, <2>3, <2>4, <2>5, <2>6, <2>7, <2>8
<1>3. ASSUME NEW p \in Pages, ClearPage(p) PROVE IInv'
  <2>a. /\ ~structured /\ \A q \in Pages : files'[q] \in {files[q], "none"}
        /\ files' \in [Pages -> {"none", "partial", "complete"}]
    BY <1>3 DEF ClearPage, RemoveFile, TypeOK, MemoryFits
  <2>1. TypeOK'
    BY <1>3, <2>a DEF ClearPage, TypeOK
  <2>2. MissingEvidenceIsRecorded'
    BY <1>3, <2>a DEF ClearPage, MissingEvidenceIsRecorded
  <2>3. KeptFits'
    BY <1>3, <2>a DEF ClearPage, KeptFits
  <2>4. StateFits'
    BY <1>3 DEF ClearPage, StateFits
  <2>5. MemoryFits'
    BY <1>3 DEF ClearPage, MemoryFits
  <2>6. WholeFits'
    BY <1>3 DEF ClearPage, WholeFits
  <2>7. EvidenceFits'
    BY <1>3 DEF ClearPage, EvidenceFits, Collecting
  <2>8. TasksFit'
    BY <1>3, <2>a DEF ClearPage, TasksFit, TaskFits, InPool
  <2> QED
    BY <2>1, <2>2, <2>3, <2>4, <2>5, <2>6, <2>7, <2>8
<1>4. ASSUME ClearState PROVE IInv'
  <2>a. ~structured
    BY <1>4 DEF ClearState, MemoryFits
  <2>1. TypeOK'
    BY <1>4 DEF ClearState, TypeOK
  <2>2. MissingEvidenceIsRecorded'
    BY <1>4 DEF ClearState, MissingEvidenceIsRecorded
  <2>3. KeptFits'
    BY <1>4, <2>a DEF ClearState, KeptFits
  <2>4. StateFits'
    BY <1>4 DEF ClearState, StateFits
  <2>5. MemoryFits'
    BY <1>4 DEF ClearState, PagesExist, MemoryFits
  <2>6. WholeFits'
    BY <1>4 DEF ClearState, WholeFits
  <2>7. EvidenceFits'
    BY <1>4 DEF ClearState, EvidenceFits, Collecting
  <2>8. TasksFit'
    BY <1>4, <2>a DEF ClearState, TasksFit, TaskFits, InPool
  <2> QED
    BY <2>1, <2>2, <2>3, <2>4, <2>5, <2>6, <2>7, <2>8
<1>5. ASSUME NewState PROVE IInv'
  <2>a. /\ mem = FreshState(mem.keep) /\ mem' = mem /\ state' = mem /\ mem \in States /\ mem # NoState
        /\ Done(mem) = {} /\ mem.status = "pending" /\ ~mem.ref
        /\ state = NoState /\ \A p \in Pages : files[p] = "none"
    BY <1>5, FreshIs DEF NewState, TypeOK, MemoryFits, Save, PagesExist, States
  <2>1. TypeOK'
    BY <1>5, <2>a DEF NewState, TypeOK
  <2>2. MissingEvidenceIsRecorded'
    BY <2>a DEF MissingEvidenceIsRecorded
  <2>3. KeptFits'
    BY <1>5, <2>a
       DEF NewState, KeptFits, Done, Complete
  <2>4. StateFits'
    BY <1>5, <2>a DEF NewState, StateFits
  <2>5. MemoryFits'
    BY <1>5, <2>a DEF NewState, MemoryFits
  <2>6. WholeFits'
    BY <1>5 DEF NewState, WholeFits
  <2>7. EvidenceFits'
    BY <1>5, <2>a DEF NewState, EvidenceFits
  <2>8. TasksFit'
    BY <1>5, <2>a DEF NewState, TasksFit, TaskFits, InPool, Complete
  <2> QED
    BY <2>1, <2>2, <2>3, <2>4, <2>5, <2>6, <2>7, <2>8
<1>6. ASSUME BindJournal PROVE IInv'
  <2>b. /\ state # NoState /\ mem \in States /\ state \in States /\ mem = state
    BY <1>6 DEF BindJournal, TypeOK, MemoryFits
  <2>a. /\ state # NoState /\ mem = state /\ mem' \in States /\ mem'.page = mem.page
    BY <1>6, <2>b, RefRecorded DEF BindJournal
  <2>1. TypeOK'
    BY <1>6, <2>a DEF BindJournal, TypeOK
  <2>2. MissingEvidenceIsRecorded'
    BY <1>6 DEF BindJournal, MissingEvidenceIsRecorded, Complete
  <2>3. KeptFits'
    BY <1>6 DEF BindJournal, KeptFits, Complete
  <2>4. StateFits'
    BY <1>6 DEF BindJournal, StateFits
  <2>5. MemoryFits'
    BY <1>6, <2>a DEF BindJournal, MemoryFits
  <2>6. WholeFits'
    BY <1>6 DEF BindJournal, WholeFits
  <2>7. EvidenceFits'
    BY <1>6 DEF BindJournal, EvidenceFits, Collecting, Done, Complete
  <2>8. TasksFit'
    BY <1>6 DEF BindJournal, TasksFit, TaskFits, InPool, Collecting, Done, Complete
  <2> QED
    BY <2>1, <2>2, <2>3, <2>4, <2>5, <2>6, <2>7, <2>8
<1>7. ASSUME Announce PROVE IInv'
  <2>b. /\ state # NoState /\ mem \in States /\ state \in States
        /\ mem = [state EXCEPT !.ref = TRUE]
    BY <1>7 DEF Announce, TypeOK, MemoryFits
  <2>c. mem \in States /\ mem.page = state.page /\ mem.ref /\ mem.purged = state.purged
    BY <2>b
  <2>a. /\ state # NoState /\ state' = mem' /\ mem' \in States /\ state' # NoState
        /\ state'.page = state.page /\ state'.ref /\ state'.purged = state.purged
        /\ state'.status = "running" /\ mem.page = state.page
    <3>1. state' = [mem EXCEPT !.status = "running"] /\ mem' = state'
      BY <1>7 DEF Announce, Save
    <3>2. /\ state' \in States /\ state' # NoState /\ state'.status = "running"
          /\ state'.page = mem.page /\ state'.ref = mem.ref /\ state'.purged = mem.purged
      BY ONLY <2>c, <3>1, WorkflowAssumption DEF States
    <3> QED
      BY <2>b, <3>1, <3>2
  <2>1. TypeOK'
    BY <1>7, <2>a DEF Announce, TypeOK
  <2>2. MissingEvidenceIsRecorded'
    BY <1>7, <2>a DEF Announce, MissingEvidenceIsRecorded, Done, Complete
  <2>3. KeptFits'
    BY <1>7, <2>a DEF Announce, KeptFits, Done, Complete
  <2>4. StateFits'
    BY <2>a DEF StateFits
  <2>5. MemoryFits'
    BY <1>7, <2>a DEF Announce, MemoryFits
  <2>6. WholeFits'
    BY <1>7 DEF Announce, WholeFits
  <2>7. EvidenceFits'
    BY <1>7, <2>a DEF Announce, EvidenceFits, Collecting, Done, Complete
  <2>8. TasksFit'
    BY <1>7, <2>a DEF Announce, TasksFit, TaskFits, InPool, Collecting, Done, Complete
  <2> QED
    BY <2>1, <2>2, <2>3, <2>4, <2>5, <2>6, <2>7, <2>8
<1>8. ASSUME Block PROVE IInv'
  <2>b. /\ state # NoState /\ mem \in States /\ state \in States /\ mem = state
    BY <1>8 DEF Block, TypeOK, MemoryFits
  <2>a. /\ state # NoState /\ mem = state
        /\ state' \in States /\ state' # NoState /\ state'.page = state.page
        /\ state'.ref = state.ref /\ state'.purged = state.purged /\ state'.status # "completed"
    BY <1>8, <2>b, StatusRecorded DEF Block
  <2>1. TypeOK'
    BY <1>8, <2>a DEF Block, EndProcess, TypeOK, Places, NoTasks
  <2>2. MissingEvidenceIsRecorded'
    BY <1>8, <2>a DEF Block, MissingEvidenceIsRecorded, Done, Complete
  <2>3. KeptFits'
    BY <1>8, <2>a DEF Block, KeptFits, Done, Complete
  <2>4. StateFits'
    BY <1>8, <2>a DEF Block, StateFits
  <2>9. EndProcess
    BY <1>8 DEF Block
  <2> QED
    BY <2>1, <2>2, <2>3, <2>4, <2>9, Ended
<1>9. ASSUME Open PROVE IInv'
  <2>1. TypeOK'
    BY <1>9 DEF Open, TypeOK
  <2>2. MissingEvidenceIsRecorded'
    BY <1>9 DEF Open, MissingEvidenceIsRecorded, Complete
  <2>3. KeptFits'
    BY <1>9 DEF Open, KeptFits, Complete
  <2>4. StateFits'
    BY <1>9 DEF Open, StateFits
  <2>5. MemoryFits'
    BY <1>9 DEF Open, MemoryFits
  <2>6. WholeFits'
    BY <1>9 DEF Open, WholeFits
  <2>7. EvidenceFits'
    BY <1>9 DEF Open, EvidenceFits, Collecting, Complete
  <2>8. TasksFit'
    BY <1>9 DEF Open, TasksFit, TaskFits, InPool, Paid, Collecting, Complete
  <2> QED
    BY <2>1, <2>2, <2>3, <2>4, <2>5, <2>6, <2>7, <2>8
<1>10. ASSUME NEW p \in Pages, Begin(p) PROVE IInv'
  <2>1. task' \in [Pages -> Places] /\ \A q \in Pages : task'[q] = "waiting" => task[q] = "waiting"
    BY <1>10 DEF Begin, Move, TypeOK, Places
  <2>2. TasksFit'
    BY <1>10 DEF Begin, Move, TaskFits, InPool, Paid, Complete, TasksFit
  <2> QED
    BY <1>10, <2>1, <2>2, TaskMoved DEF Begin
<1>11. ASSUME NEW p \in Pages, Ask(p) PROVE IInv'
  <2>a. /\ InPool /\ pc \in Collecting /\ mem = state /\ mem \in States /\ state # NoState /\ state.ref
        /\ p \notin Done(mem) /\ task[p] \in {"working", "answered", "writing"}
    BY <1>11 DEF Ask, Move, InPool, Collecting, MemoryFits, TypeOK, TasksFit, TaskFits
  <2>1. TypeOK'
    BY <1>11 DEF Ask, Move, TypeOK, Places
  <2>2. MissingEvidenceIsRecorded'
    BY <1>11 DEF Ask, MissingEvidenceIsRecorded, Complete
  <2>3. KeptFits'
    BY <1>11, <2>a DEF Ask, KeptFits, Complete
  <2>4. StateFits'
    BY <1>11, <2>a DEF Ask, StateFits
  <2>5. MemoryFits'
    BY <1>11, <2>a DEF Ask, MemoryFits
  <2>6. WholeFits'
    BY <1>11 DEF Ask, WholeFits
  <2>7. EvidenceFits'
    BY <1>11 DEF Ask, Move, EvidenceFits, Complete
  <2>8. TasksFit'
    BY <1>11 DEF Ask, Move, TasksFit, TaskFits, InPool, Complete
  <2> QED
    BY <2>1, <2>2, <2>3, <2>4, <2>5, <2>6, <2>7, <2>8
<1>12. ASSUME NEW p \in Pages, Answer(p) PROVE IInv'
  <2>1. task' \in [Pages -> Places] /\ \A q \in Pages : task'[q] = "waiting" => task[q] = "waiting"
    BY <1>12 DEF Answer, Move, TypeOK, Places
  <2>2. TasksFit'
    BY <1>12 DEF Answer, Move, TaskFits, InPool, Paid, Complete, TasksFit
  <2> QED
    BY <1>12, <2>1, <2>2, TaskMoved DEF Answer
<1>13. ASSUME NEW p \in Pages, Write(p) PROVE IInv'
  <2>a. /\ InPool /\ pc \in Collecting /\ mem = state /\ mem \in States /\ state # NoState /\ state.ref
        /\ p \notin Done(mem) /\ task[p] \in {"working", "answered", "writing"}
    BY <1>13 DEF Write, Move, InPool, Collecting, MemoryFits, TypeOK, TasksFit, TaskFits
  <2>1. TypeOK'
    BY <1>13 DEF Write, Move, TypeOK, Places
  <2>2. MissingEvidenceIsRecorded'
    BY <1>13 DEF Write, MissingEvidenceIsRecorded, Complete
  <2>3. KeptFits'
    BY <1>13 DEF Write, KeptFits, Complete
  <2>4. StateFits'
    BY <1>13 DEF Write, StateFits
  <2>5. MemoryFits'
    BY <1>13, <2>a DEF Write, MemoryFits
  <2>6. WholeFits'
    BY <1>13 DEF Write, WholeFits
  <2>7. EvidenceFits'
    BY <1>13, <2>a DEF Write, Move, EvidenceFits, Complete
  <2>8. TasksFit'
    BY <1>13 DEF Write, Move, TasksFit, TaskFits, InPool, Paid, Complete
  <2> QED
    BY <2>1, <2>2, <2>3, <2>4, <2>5, <2>6, <2>7, <2>8
<1>14. ASSUME NEW p \in Pages, Commit(p) PROVE IInv'
  <2>a. /\ InPool /\ pc \in Collecting /\ mem = state /\ mem \in States /\ state # NoState /\ state.ref
        /\ p \notin Done(mem) /\ task[p] \in {"working", "answered", "writing"}
    BY <1>14 DEF Commit, Move, InPool, Collecting, MemoryFits, TypeOK, TasksFit, TaskFits
  <2>1. TypeOK'
    BY <1>14 DEF Commit, Move, TypeOK, Places
  <2>2. MissingEvidenceIsRecorded'
    BY <1>14 DEF Commit, MissingEvidenceIsRecorded, Complete
  <2>3. KeptFits'
    BY <1>14 DEF Commit, Move, TypeOK, KeptFits, Complete, TasksFit, TaskFits, Paid
  <2>4. StateFits'
    BY <1>14 DEF Commit, StateFits
  <2>5. MemoryFits'
    BY <1>14, <2>a DEF Commit, MemoryFits
  <2>6. WholeFits'
    BY <1>14 DEF Commit, WholeFits
  <2>7. EvidenceFits'
    BY <1>14 DEF Commit, Move, EvidenceFits, Complete
  <2>8. TasksFit'
    BY <1>14 DEF Commit, Move, TypeOK, TasksFit, TaskFits, InPool, Paid, Complete
  <2> QED
    BY <2>1, <2>2, <2>3, <2>4, <2>5, <2>6, <2>7, <2>8
<1>15. ASSUME NEW p \in Pages, Return(p) PROVE IInv'
  <2>1. task' \in [Pages -> Places] /\ \A q \in Pages : task'[q] = "waiting" => task[q] = "waiting"
    BY <1>15 DEF Return, Move, TypeOK, Places
  <2>2. TasksFit'
    BY <1>15 DEF Return, Move, TaskFits, InPool, Paid, Complete, TasksFit
  <2> QED
    BY <1>15, <2>1, <2>2, TaskMoved DEF Return
<1>16. ASSUME NEW p \in Pages, Fail(p) PROVE IInv'
  <2>1. task' \in [Pages -> Places] /\ \A q \in Pages : task'[q] = "waiting" => task[q] = "waiting"
    BY <1>16 DEF Fail, Move, TypeOK, Places
  <2>2. TasksFit'
    BY <1>16 DEF Fail, Move, TaskFits, InPool, Paid, Complete, TasksFit
  <2> QED
    BY <1>16, <2>1, <2>2, TaskMoved DEF Fail
<1>17. ASSUME Submit PROVE IInv'
  <2>1. task' \in [Pages -> Places] /\ \A q \in Pages : task'[q] = "waiting" => task[q] = "waiting"
    <3>1. Min(Pending) \in Pending
      BY <1>17, PendingHasMin DEF Submit
    <3> QED
      BY <1>17 DEF Submit, TypeOK, Places
  <2>2. TasksFit'
    <3>1. Min(Pending) \in Pending
      BY <1>17, PendingHasMin DEF Submit
    <3> HIDE DEF Min
    <3> QED
      BY <1>17, <3>1 DEF Submit, Pending, TasksFit, TaskFits, InPool, Paid, Complete
  <2> QED
    BY <1>17, <2>1, <2>2, TaskMoved DEF Submit
<1>18. ASSUME NEW p \in Pages, Withdraw(p) PROVE IInv'
  <2>1. task' \in [Pages -> Places] /\ \A q \in Pages : task'[q] = "waiting" => task[q] = "waiting"
    BY <1>18 DEF Withdraw, TypeOK, Places
  <2>2. TasksFit'
    BY <1>18 DEF Withdraw, TaskFits, InPool, Paid, Complete, TasksFit
  <2> QED
    BY <1>18, <2>1, <2>2, TaskMoved DEF Withdraw
<1>19. ASSUME NEW p \in Pages, CollectDone(p) PROVE IInv'
  <2>b. /\ state # NoState /\ mem \in States /\ state \in States /\ mem = state
    BY <1>19 DEF CollectDone, TypeOK, MemoryFits
  <2>a. /\ state # NoState /\ mem = state /\ state' = mem' /\ mem' \in States /\ state' # NoState
        /\ state'.page = [state.page EXCEPT ![p] = "done"] /\ state.page \in [Pages -> Statuses]
        /\ state'.ref = state.ref /\ state'.purged = state.purged /\ state'.status = state.status
    BY <1>19, <2>b DEF CollectDone, Save, Statuses, States
  <2>1. TypeOK'
    BY <1>19, <2>a DEF CollectDone, TypeOK, Places
  <2>2. MissingEvidenceIsRecorded'
    BY <1>19, <2>a DEF CollectDone, MissingEvidenceIsRecorded, Done, Complete
  <2>3. KeptFits'
    BY <1>19, <2>a DEF CollectDone, KeptFits, Done, Complete, TasksFit, TaskFits, Paid
  <2>4. StateFits'
    BY <1>19, <2>a DEF CollectDone, StateFits, Done
  <2>5. MemoryFits'
    BY <1>19, <2>a DEF CollectDone, MemoryFits
  <2>6. WholeFits'
    BY <1>19 DEF CollectDone, WholeFits
  <2>7. EvidenceFits'
    BY <1>19, <2>a DEF CollectDone, EvidenceFits, Done, Complete, TasksFit, TaskFits
  <2>8. TasksFit'
    BY <1>19, <2>a DEF CollectDone, TypeOK, TasksFit, TaskFits, InPool, Paid, Done, Complete
  <2> QED
    BY <2>1, <2>2, <2>3, <2>4, <2>5, <2>6, <2>7, <2>8
<1>20. ASSUME NEW p \in Pages, CollectFailed(p) PROVE IInv'
  <2>b. /\ state # NoState /\ mem \in States /\ state \in States /\ mem = state
    BY <1>20 DEF CollectFailed, TypeOK, MemoryFits
  <2>a. /\ state # NoState /\ mem = state /\ state' = mem' /\ mem' \in States /\ state' # NoState
        /\ state'.page = [state.page EXCEPT ![p] = "failed"] /\ state.page \in [Pages -> Statuses]
        /\ state'.ref = state.ref /\ state'.purged = state.purged /\ state'.status = state.status
    BY <1>20, <2>b DEF CollectFailed, Save, Statuses, States
  <2>1. TypeOK'
    BY <1>20, <2>a DEF CollectFailed, TypeOK, Places
  <2>2. MissingEvidenceIsRecorded'
    BY <1>20, <2>a DEF CollectFailed, MissingEvidenceIsRecorded, Done, Complete
  <2>3. KeptFits'
    BY <1>20, <2>a DEF CollectFailed, KeptFits, Done, Complete, TasksFit, TaskFits
  <2>4. StateFits'
    BY <1>20, <2>a DEF CollectFailed, StateFits, MemoryFits
  <2>5. MemoryFits'
    BY <1>20, <2>a DEF CollectFailed, MemoryFits
  <2>6. WholeFits'
    BY <1>20 DEF CollectFailed, WholeFits
  <2>7. EvidenceFits'
    BY <1>20, <2>a DEF CollectFailed, EvidenceFits, Done, Complete
  <2>8. TasksFit'
    BY <1>20, <2>a DEF CollectFailed, TasksFit, TaskFits, InPool, Paid, Done, Complete
  <2> QED
    BY <2>1, <2>2, <2>3, <2>4, <2>5, <2>6, <2>7, <2>8
<1>21. ASSUME NEW p \in Pages, CollectSkipped(p) PROVE IInv'
  <2>1. task' \in [Pages -> Places] /\ \A q \in Pages : task'[q] = "waiting" => task[q] = "waiting"
    BY <1>21 DEF CollectSkipped, TypeOK, Places
  <2>2. TasksFit'
    BY <1>21 DEF CollectSkipped, TaskFits, InPool, Paid, Complete, TasksFit
  <2> QED
    BY <1>21, <2>1, <2>2, TaskMoved DEF CollectSkipped
<1>22. ASSUME NEW p \in Pages, CollectRaises(p) PROVE IInv'
  <2>1. TypeOK'
    BY <1>22 DEF CollectRaises, TypeOK, Places
  <2>2. MissingEvidenceIsRecorded'
    BY <1>22 DEF CollectRaises, MissingEvidenceIsRecorded, Complete
  <2>3. KeptFits'
    BY <1>22 DEF CollectRaises, KeptFits, Complete
  <2>4. StateFits'
    BY <1>22 DEF CollectRaises, StateFits
  <2>5. MemoryFits'
    BY <1>22 DEF CollectRaises, MemoryFits
  <2>6. WholeFits'
    BY <1>22 DEF CollectRaises, WholeFits
  <2>7. EvidenceFits'
    BY <1>22 DEF CollectRaises, EvidenceFits, Collecting, Complete
  <2>8. TasksFit'
    BY <1>22 DEF CollectRaises, TasksFit, TaskFits, InPool, Paid, Collecting, Complete
  <2> QED
    BY <2>1, <2>2, <2>3, <2>4, <2>5, <2>6, <2>7, <2>8
<1>23. ASSUME Unwound PROVE IInv'
  <2>1. TypeOK'
    BY <1>23 DEF Unwound, EndProcess, TypeOK, Places, NoTasks
  <2>2. MissingEvidenceIsRecorded'
    BY <1>23 DEF Unwound, MissingEvidenceIsRecorded, Complete
  <2>3. KeptFits'
    BY <1>23 DEF Unwound, KeptFits, Complete
  <2>4. StateFits'
    BY <1>23 DEF Unwound, StateFits
  <2>9. EndProcess
    BY <1>23 DEF Unwound
  <2> QED
    BY <2>1, <2>2, <2>3, <2>4, <2>9, Ended
<1>24. ASSUME Decide PROVE IInv'
  <2>1. TypeOK'
    BY <1>24 DEF Decide, TypeOK
  <2>2. MissingEvidenceIsRecorded'
    BY <1>24 DEF Decide, MissingEvidenceIsRecorded, Complete
  <2>3. KeptFits'
    BY <1>24 DEF Decide, KeptFits, Complete
  <2>4. StateFits'
    BY <1>24 DEF Decide, StateFits
  <2>5. MemoryFits'
    BY <1>24 DEF Decide, MemoryFits
  <2>6. WholeFits'
    BY <1>24 DEF Decide, Whole, WholeFits
  <2>7. EvidenceFits'
    BY <1>24 DEF Decide, EvidenceFits, Collecting, Complete
  <2>8. TasksFit'
    BY <1>24 DEF Decide, PoolDrained, Futures, TasksFit, TaskFits, InPool, Collecting, Complete
  <2> QED
    BY <2>1, <2>2, <2>3, <2>4, <2>5, <2>6, <2>7, <2>8
<1>25. ASSUME Assemble PROVE IInv'
  <2>1. TypeOK'
    BY <1>25 DEF Assemble, Assembled, TypeOK, Done
  <2>2. MissingEvidenceIsRecorded'
    BY <1>25 DEF Assemble, MissingEvidenceIsRecorded, Complete
  <2>3. KeptFits'
    BY <1>25 DEF Assemble, Assembled, KeptFits, Complete
  <2>4. StateFits'
    BY <1>25 DEF Assemble, StateFits
  <2>5. MemoryFits'
    BY <1>25 DEF Assemble, MemoryFits
  <2>6. WholeFits'
    BY <1>25 DEF Assemble, WholeFits
  <2>7. EvidenceFits'
    BY <1>25 DEF Assemble, EvidenceFits, Collecting
  <2>8. TasksFit'
    BY <1>25 DEF Assemble, TasksFit, TaskFits, InPool, Collecting
  <2> QED
    BY <2>1, <2>2, <2>3, <2>4, <2>5, <2>6, <2>7, <2>8
<1>26. ASSUME AssembleFails PROVE IInv'
  <2>b. /\ state # NoState /\ mem \in States /\ state \in States /\ mem = state
    BY <1>26 DEF AssembleFails, TypeOK, MemoryFits
  <2>a. /\ state # NoState /\ mem = state
        /\ state' \in States /\ state' # NoState /\ state'.page = state.page
        /\ state'.ref = state.ref /\ state'.purged = state.purged /\ state'.status # "completed"
    BY <1>26, <2>b, StatusRecorded DEF AssembleFails
  <2>1. TypeOK'
    BY <1>26, <2>a DEF AssembleFails, EndProcess, TypeOK, Places, NoTasks
  <2>2. MissingEvidenceIsRecorded'
    BY <1>26, <2>a DEF AssembleFails, MissingEvidenceIsRecorded, Done, Complete
  <2>3. KeptFits'
    BY <1>26, <2>a DEF AssembleFails, KeptFits, Done, Complete
  <2>4. StateFits'
    BY <1>26, <2>a DEF AssembleFails, StateFits
  <2>9. EndProcess
    BY <1>26 DEF AssembleFails
  <2> QED
    BY <2>1, <2>2, <2>3, <2>4, <2>9, Ended
<1>27. ASSUME RecordCompleted PROVE IInv'
  <2>b. /\ state # NoState /\ mem \in States /\ state \in States /\ mem = state /\ mem.ref
        /\ Done(mem) = Pages
    BY <1>27 DEF RecordCompleted, TypeOK, MemoryFits, WholeFits
  <2>a. /\ state # NoState /\ mem = state /\ mem.ref /\ Done(mem) = Pages
        /\ state' \in States /\ state' # NoState /\ state'.page = state.page
        /\ state'.ref = state.ref /\ state'.purged = state.purged /\ state'.status = "completed"
        /\ \/ pc' = "none" /\ EndProcess
           \/ /\ pc' = (IF structured THEN "purge" ELSE "cleanup") /\ mem' = state'
              /\ UNCHANGED <<task, cancel, stop>>
    BY <1>27, <2>b, StatusRecorded DEF RecordCompleted, Save, EndProcess
  <2>1. TypeOK'
    <3>1. CASE pc' = "none" /\ EndProcess
      BY <1>27, <2>a, <3>1 DEF RecordCompleted, EndProcess, TypeOK, NoTasks, Places
    <3>2. CASE mem' = state' /\ UNCHANGED <<task, cancel, stop>> /\ pc' \in {"purge", "cleanup"}
      BY <1>27, <2>a, <3>2 DEF RecordCompleted, TypeOK
    <3> QED
      BY <2>a, <3>1, <3>2
  <2>2. MissingEvidenceIsRecorded'
    BY <1>27, <2>a DEF RecordCompleted, MissingEvidenceIsRecorded, Done, Complete
  <2>3. KeptFits'
    BY <1>27, <2>a DEF RecordCompleted, KeptFits, Done, Complete
  <2>4. StateFits'
    BY <2>a DEF StateFits, Done
  <2>5. MemoryFits'
    BY <2>a DEF MemoryFits
  <2>6. WholeFits'
    BY <1>27, <2>a DEF RecordCompleted, WholeFits, Done
  <2>7. EvidenceFits'
    BY <2>a DEF EvidenceFits, Collecting
  <2>8. TasksFit'
    BY <2>a DEF EndProcess, TasksFit, TaskFits, InPool, Collecting, NoTasks
  <2> QED
    BY <2>1, <2>2, <2>3, <2>4, <2>5, <2>6, <2>7, <2>8
<1>28. ASSUME RecordPurged PROVE IInv'
  <2>b. /\ state # NoState /\ mem \in States /\ state \in States /\ mem = state
    BY <1>28 DEF RecordPurged, TypeOK, MemoryFits
  <2>a. /\ state # NoState /\ mem = state /\ state' = mem'
        /\ state' \in States /\ state' # NoState /\ state'.page = state.page
        /\ state'.ref = state.ref /\ state'.purged /\ state'.status = state.status
    BY <1>28, <2>b, PurgedRecorded DEF RecordPurged, Save
  <2>1. TypeOK'
    BY <1>28, <2>a DEF RecordPurged, TypeOK
  <2>2. MissingEvidenceIsRecorded'
    BY <2>a DEF MissingEvidenceIsRecorded
  <2>3. KeptFits'
    BY <1>28, <2>a DEF RecordPurged, KeptFits, Done, Complete
  <2>4. StateFits'
    BY <1>28, <2>a DEF RecordPurged, StateFits, Done
  <2>5. MemoryFits'
    BY <1>28, <2>a DEF RecordPurged, MemoryFits
  <2>6. WholeFits'
    BY <1>28, <2>a DEF RecordPurged, WholeFits, Done
  <2>7. EvidenceFits'
    BY <1>28 DEF RecordPurged, EvidenceFits, Collecting
  <2>8. TasksFit'
    BY <1>28 DEF RecordPurged, TasksFit, TaskFits, InPool, Collecting
  <2> QED
    BY <2>1, <2>2, <2>3, <2>4, <2>5, <2>6, <2>7, <2>8
<1>29. ASSUME NEW p \in Pages, CleanPage(p) PROVE IInv'
  <2>a. /\ mem = state /\ state # NoState /\ Done(mem) = Pages /\ (structured => mem.purged)
        /\ \A q \in Pages : files'[q] \in {files[q], "none"}
        /\ files' \in [Pages -> {"none", "partial", "complete"}]
    BY <1>29 DEF CleanPage, RemoveFile, TypeOK, MemoryFits, WholeFits
  <2>1. TypeOK'
    BY <1>29, <2>a DEF CleanPage, TypeOK
  <2>2. MissingEvidenceIsRecorded'
    BY <1>29, <2>a DEF CleanPage, MissingEvidenceIsRecorded
  <2>3. KeptFits'
    BY <1>29, <2>a DEF CleanPage, KeptFits, Complete
  <2>4. StateFits'
    BY <1>29 DEF CleanPage, StateFits
  <2>5. MemoryFits'
    BY <1>29 DEF CleanPage, MemoryFits
  <2>6. WholeFits'
    BY <1>29 DEF CleanPage, WholeFits
  <2>7. EvidenceFits'
    BY <1>29 DEF CleanPage, EvidenceFits, Collecting
  <2>8. TasksFit'
    BY <1>29, <2>a DEF CleanPage, TasksFit, TaskFits, InPool
  <2> QED
    BY <2>1, <2>2, <2>3, <2>4, <2>5, <2>6, <2>7, <2>8
<1>30. ASSUME Cleaned PROVE IInv'
  <2>1. TypeOK'
    BY <1>30 DEF Cleaned, EndProcess, TypeOK, Places, NoTasks
  <2>2. MissingEvidenceIsRecorded'
    BY <1>30 DEF Cleaned, MissingEvidenceIsRecorded, Complete
  <2>3. KeptFits'
    BY <1>30 DEF Cleaned, KeptFits, Complete
  <2>4. StateFits'
    BY <1>30 DEF Cleaned, StateFits
  <2>9. EndProcess
    BY <1>30 DEF Cleaned
  <2> QED
    BY <2>1, <2>2, <2>3, <2>4, <2>9, Ended
<1>31. ASSUME EndIncomplete PROVE IInv'
  <2>b. /\ state # NoState /\ mem \in States /\ state \in States /\ mem = state
    BY <1>31 DEF EndIncomplete, TypeOK, MemoryFits
  <2>a. /\ state # NoState /\ mem = state
        /\ state' \in States /\ state' # NoState /\ state'.page = state.page
        /\ state'.ref = state.ref /\ state'.purged = state.purged /\ state'.status # "completed"
    BY <1>31, <2>b, StatusRecorded DEF EndIncomplete
  <2>1. TypeOK'
    BY <1>31, <2>a DEF EndIncomplete, EndProcess, TypeOK, Places, NoTasks
  <2>2. MissingEvidenceIsRecorded'
    BY <1>31, <2>a DEF EndIncomplete, MissingEvidenceIsRecorded, Done, Complete
  <2>3. KeptFits'
    BY <1>31, <2>a DEF EndIncomplete, KeptFits, Done, Complete
  <2>4. StateFits'
    BY <1>31, <2>a DEF EndIncomplete, StateFits
  <2>9. EndProcess
    BY <1>31 DEF EndIncomplete
  <2> QED
    BY <2>1, <2>2, <2>3, <2>4, <2>9, Ended
<1>32. ASSUME ExportRaises PROVE IInv'
  <2>1. TypeOK'
    BY <1>32 DEF ExportRaises, EndProcess, TypeOK, Places, NoTasks
  <2>2. MissingEvidenceIsRecorded'
    BY <1>32 DEF ExportRaises, MissingEvidenceIsRecorded
  <2>3. KeptFits'
    BY <1>32 DEF ExportRaises, KeptFits
  <2>4. StateFits'
    BY <1>32 DEF ExportRaises, StateFits
  <2>9. EndProcess
    BY <1>32 DEF ExportRaises
  <2> QED
    BY <2>1, <2>2, <2>3, <2>4, <2>9, Ended
<1>33. ASSUME Rebuild PROVE IInv'
  <2>1. TypeOK'
    BY <1>33 DEF Rebuild, Assembled, TypeOK, Done
  <2>2. MissingEvidenceIsRecorded'
    BY <1>33 DEF Rebuild, MissingEvidenceIsRecorded, Complete
  <2>3. KeptFits'
    BY <1>33 DEF Rebuild, KeptFits, Complete
  <2>4. StateFits'
    BY <1>33 DEF Rebuild, StateFits
  <2>5. MemoryFits'
    BY <1>33 DEF Rebuild, MemoryFits
  <2>6. WholeFits'
    BY <1>33 DEF Rebuild, Assembled, WholeFits
  <2>7. EvidenceFits'
    BY <1>33 DEF Rebuild, EvidenceFits, Collecting
  <2>8. TasksFit'
    BY <1>33 DEF Rebuild, TasksFit, TaskFits, InPool, Collecting
  <2> QED
    BY <2>1, <2>2, <2>3, <2>4, <2>5, <2>6, <2>7, <2>8
<1>34. ASSUME RecordRebuilt PROVE IInv'
  <2>b. /\ state # NoState /\ mem \in States /\ state \in States /\ mem = state
    BY <1>34 DEF RecordRebuilt, TypeOK, MemoryFits
  <2>a. /\ state # NoState /\ mem = state
        /\ state' \in States /\ state' # NoState /\ state'.page = state.page
        /\ state'.ref = state.ref /\ state'.purged = state.purged
        /\ structured /\ state'.status = "completed" => state.status = "completed" \/ Done(state) = Pages
    BY <1>34, <2>b, StatusRecorded DEF RecordRebuilt
  <2>1. TypeOK'
    BY <1>34, <2>a DEF RecordRebuilt, EndProcess, TypeOK, Places, NoTasks
  <2>2. MissingEvidenceIsRecorded'
    BY <1>34, <2>a DEF RecordRebuilt, MissingEvidenceIsRecorded, Done, Complete
  <2>3. KeptFits'
    BY <1>34, <2>a DEF RecordRebuilt, KeptFits, Done, Complete
  <2>4. StateFits'
    BY <1>34, <2>a DEF RecordRebuilt, StateFits, Done
  <2>9. EndProcess
    BY <1>34 DEF RecordRebuilt
  <2> QED
    BY <2>1, <2>2, <2>3, <2>4, <2>9, Ended
<1>35. ASSUME Cancel PROVE IInv'
  <2>1. TypeOK'
    BY <1>35 DEF Cancel, TypeOK
  <2>2. MissingEvidenceIsRecorded'
    BY <1>35 DEF Cancel, MissingEvidenceIsRecorded, Complete
  <2>3. KeptFits'
    BY <1>35 DEF Cancel, KeptFits, Complete
  <2>4. StateFits'
    BY <1>35 DEF Cancel, StateFits
  <2>5. MemoryFits'
    BY <1>35 DEF Cancel, MemoryFits, PagesExist
  <2>6. WholeFits'
    BY <1>35 DEF Cancel, WholeFits
  <2>7. EvidenceFits'
    BY <1>35 DEF Cancel, EvidenceFits, Complete
  <2>8. TasksFit'
    BY <1>35 DEF Cancel, TasksFit, TaskFits, InPool, Complete
  <2> QED
    BY <2>1, <2>2, <2>3, <2>4, <2>5, <2>6, <2>7, <2>8
<1>36. ASSUME Crash PROVE IInv'
  <2>1. TypeOK'
    BY <1>36 DEF Crash, EndProcess, TypeOK, Places, NoTasks
  <2>2. MissingEvidenceIsRecorded'
    BY <1>36 DEF Crash, MissingEvidenceIsRecorded, Complete
  <2>3. KeptFits'
    BY <1>36 DEF Crash, KeptFits, Complete
  <2>4. StateFits'
    BY <1>36 DEF Crash, StateFits
  <2>9. EndProcess
    BY <1>36 DEF Crash
  <2> QED
    BY <2>1, <2>2, <2>3, <2>4, <2>9, Ended
<1>37. CASE UNCHANGED vars
  BY <1>37
     DEF TypeOK, MissingEvidenceIsRecorded, KeptFits, StateFits, MemoryFits, WholeFits,
         EvidenceFits, TasksFit, TaskFits, InPool, Complete, PagesExist
<1> QED
  BY <1>1, <1>2, <1>3, <1>4, <1>5, <1>6, <1>7, <1>8, <1>9, <1>10, <1>11, <1>12, <1>13, <1>14,
     <1>15, <1>16, <1>17, <1>18, <1>19, <1>20, <1>21, <1>22, <1>23, <1>24, <1>25, <1>26, <1>27,
     <1>28, <1>29, <1>30, <1>31, <1>32, <1>33, <1>34, <1>35, <1>36, <1>37
     DEF Next, Task, Main, Collect


\* The strengthened invariant: what the parts above say at each place of a run (workflow.py).
THEOREM RunInvariant == Spec => []IInv
  BY InitInvariant, StepInvariant, PTL DEF Spec

\* The runs of a folder never leave their types, whatever fails, is cancelled or dies.
THEOREM TypeCorrect == Spec => []TypeOK
  BY RunInvariant, PTL DEF IInv

\* A page that a checkpoint calls done has its structured bundle, or the checkpoint says that
\* it was purged (RecordPurged comes before the first deletion).
THEOREM MissingIsRecorded == Spec => []MissingEvidenceIsRecorded
  BY RunInvariant, PTL DEF IInv

\* A run works on sound evidence until its document is assembled.
THEOREM EvidenceSound == Spec => []RunEvidence
<1>1. IInv => RunEvidence
  BY DEF IInv, EvidenceFits, RunEvidence, Collecting
<1> QED
  BY <1>1, RunInvariant, PTL

\* A step of a run is a step of the purchase or leaves what it promises about alone.
Moves == Purchase!Next \/ UNCHANGED Purchase!vars

\* The runs start as PagePurchase does.
LEMMA InitImplements == Init => Purchase!Init
  BY DEF Init, NoTasks, Purchase!Init

\* Every step is a step of PagePurchase or leaves what it promises about alone.
LEMMA StepImplements == IInv /\ [Next]_vars => Moves
<1> SUFFICES ASSUME IInv, [Next]_vars PROVE Moves
  OBVIOUS
<1> USE WorkflowAssumption DEF IInv, folder, process
<1>1. ASSUME Resume PROVE Moves
  <2>1. state \in States /\ mem' = Recovered(state) /\ state' = Recovered(state)
    BY <1>1 DEF Resume, Save, TypeOK
  <2> QED
    BY <1>1, <2>1, RecoveredIs DEF Resume, Moves, Purchase!vars
<1>2. ASSUME NEW keep \in BOOLEAN, Start(keep) PROVE Moves
  BY <1>2 DEF Moves, Start, Purchase!vars
<1>3. ASSUME NEW p \in Pages, ClearPage(p) PROVE Moves
  BY <1>3 DEF Moves, ClearPage, Purchase!vars
<1>4. ASSUME ClearState PROVE Moves
  <2>1. CASE state # NoState => state.ref
    BY <1>4, <2>1 DEF ClearState, Moves, MemoryFits, Purchase!vars
  <2>2. CASE ~(state # NoState => state.ref)
    BY <1>4, <2>2
       DEF ClearState, MemoryFits, StateFits, Moves, Purchase!Next, Purchase!OpenAccount
  <2> QED
    BY <2>1, <2>2
<1>5. ASSUME NewState PROVE Moves
  <2>1. /\ mem \in States /\ mem # NoState /\ mem.status = "pending" /\ ~mem.ref /\ state' = mem
        /\ state = NoState /\ pc' = "bind"
    BY <1>5, FreshIs DEF NewState, Save, States, TypeOK, MemoryFits
  <2>2. CASE structured
    BY <1>5, <2>1, <2>2 DEF NewState, KeptFits, Moves, Purchase!Next, Purchase!OpenAccount
  <2>3. CASE ~structured
    BY <1>5, <2>3
       DEF NewState, TasksFit, TaskFits, InPool, Moves, Purchase!Next, Purchase!StartOver
  <2> QED
    BY <2>2, <2>3
<1>6. ASSUME BindJournal PROVE Moves
  BY <1>6 DEF Moves, BindJournal, Purchase!vars
<1>7. ASSUME Announce PROVE Moves
  <2>1. /\ state # NoState /\ mem \in States /\ state \in States
        /\ mem = [state EXCEPT !.ref = TRUE]
    BY <1>7 DEF Announce, TypeOK, MemoryFits
  <2>2. state' # NoState /\ state'.status = "running" /\ state'.ref
    <3>1. mem.ref
      BY <2>1
    <3>2. mem \in States /\ state' = [mem EXCEPT !.status = "running"]
      BY <1>7 DEF Announce, Save, TypeOK
    <3>3. mem \in States
      BY <2>1
    <3>4. state' # NoState /\ state'.status = "running" /\ state'.ref = mem.ref
      BY ONLY <3>2, StatusRecorded
    <3> QED
      BY <3>1, <3>4
  <2>3. CASE structured /\ state.status = "completed"
    <3>1. state.ref
      BY <2>1, <2>3 DEF StateFits, KeptFits
    <3> QED
      BY <1>7, <2>2, <3>1 DEF Announce, Moves, Purchase!Next, Purchase!Reopen
  <2>4. CASE ~(structured /\ state.status = "completed") /\ state.ref
    BY <1>7, <2>2, <2>4 DEF Announce, Moves, Purchase!vars
  <2>5. CASE ~(structured /\ state.status = "completed") /\ ~state.ref
    BY <1>7, <2>1, <2>2, <2>5 DEF Announce, StateFits, Moves, Purchase!Next, Purchase!OpenAccount
  <2> QED
    BY <2>3, <2>4, <2>5
<1>8. ASSUME Block PROVE Moves
  <2>1. /\ state # NoState /\ mem \in States /\ mem = state
    BY <1>8 DEF Block, TypeOK, MemoryFits
  <2>2. /\ state' # NoState /\ state'.ref = state.ref /\ state'.status # "completed"
    BY <1>8, <2>1, StatusRecorded DEF Block
  <2>3. \A p \in Pages : task[p] # "asked" /\ task'[p] # "asked"
    BY <1>8 DEF Block, EndProcess, NoTasks, TasksFit, TaskFits, InPool
  <2> QED
    BY <1>8, <2>3 DEF Block, EndProcess, MemoryFits, Moves, Purchase!vars
<1>9. ASSUME Open PROVE Moves
  BY <1>9 DEF Moves, Open, Purchase!vars
<1>10. ASSUME NEW p \in Pages, Begin(p) PROVE Moves
  BY <1>10 DEF Moves, Begin, Move, Purchase!vars
<1>11. ASSUME NEW p \in Pages, Ask(p) PROVE Moves
  <2>1. /\ InPool /\ pc \in Collecting /\ mem = state /\ state # NoState /\ state.ref
        /\ p \notin Done(mem) /\ task[p] = "working"
    BY <1>11 DEF Ask, Move, InPool, Collecting, MemoryFits, TypeOK, TasksFit, TaskFits
  <2>2. p \notin kept
    BY <2>1 DEF KeptFits, TasksFit, TaskFits
  <2>3. Purchase!Buy(p)
    BY <1>11, <2>1, <2>2 DEF Ask, Move, TypeOK, Purchase!Buy
  <2> QED
    BY <2>3 DEF Moves, Purchase!Next
<1>12. ASSUME NEW p \in Pages, Answer(p) PROVE Moves
  <2>1. Purchase!Settle({p})
    BY <1>12 DEF Answer, Move, TypeOK, Purchase!Settle
  <2> QED
    BY <2>1 DEF Moves, Purchase!Next
<1>13. ASSUME NEW p \in Pages, Write(p) PROVE Moves
  BY <1>13 DEF Moves, Write, Move, Purchase!vars
<1>14. ASSUME NEW p \in Pages, Commit(p) PROVE Moves
  <2>1. CASE structured
    BY <1>14, <2>1 DEF Commit, Move, TasksFit, TaskFits, Paid, Moves, Purchase!Next, Purchase!Keep
  <2>2. CASE ~structured
    BY <1>14, <2>2 DEF Commit, Move, Moves, Purchase!vars
  <2> QED
    BY <2>1, <2>2
<1>15. ASSUME NEW p \in Pages, Return(p) PROVE Moves
  BY <1>15 DEF Moves, Return, Move, Purchase!vars
<1>16. ASSUME NEW p \in Pages, Fail(p) PROVE Moves
  <2>1. Purchase!Settle({p})
    BY <1>16 DEF Fail, Move, TypeOK, Purchase!Settle
  <2> QED
    BY <2>1 DEF Moves, Purchase!Next
<1>17. ASSUME Submit PROVE Moves
  <2>1. Min(Pending) \in Pending
    BY <1>17, PendingHasMin DEF Submit
  <2> HIDE DEF Min
  <2> QED
    BY <1>17, <2>1 DEF Submit, Pending, Moves, Purchase!vars
<1>18. ASSUME NEW p \in Pages, Withdraw(p) PROVE Moves
  BY <1>18 DEF Moves, Withdraw, Purchase!vars
<1>19. ASSUME NEW p \in Pages, CollectDone(p) PROVE Moves
  <2>1. /\ state # NoState /\ mem \in States /\ mem = state /\ mem.status = "running"
    BY <1>19 DEF CollectDone, TypeOK, MemoryFits
  <2>2. /\ state' # NoState /\ state'.status = "running" /\ state'.ref = state.ref
    BY <1>19, <2>1 DEF CollectDone, Save, Statuses, States
  <2>3. Purchase!Keep(p)
    BY <1>19, <2>1, <2>2 DEF CollectDone, TasksFit, TaskFits, Paid, Purchase!Keep
  <2> QED
    BY <2>3 DEF Moves, Purchase!Next
<1>20. ASSUME NEW p \in Pages, CollectFailed(p) PROVE Moves
  <2>1. /\ state # NoState /\ mem \in States /\ mem = state
    BY <1>20 DEF CollectFailed, TypeOK, MemoryFits
  <2>2. /\ state' # NoState /\ state'.status = state.status /\ state'.ref = state.ref
    BY <1>20, <2>1 DEF CollectFailed, Save, Statuses, States
  <2> QED
    BY <1>20, <2>1, <2>2 DEF CollectFailed, Moves, Purchase!vars
<1>21. ASSUME NEW p \in Pages, CollectSkipped(p) PROVE Moves
  BY <1>21 DEF Moves, CollectSkipped, Purchase!vars
<1>22. ASSUME NEW p \in Pages, CollectRaises(p) PROVE Moves
  BY <1>22 DEF Moves, CollectRaises, Purchase!vars
<1>23. ASSUME Unwound PROVE Moves
  <2>1. \A p \in Pages : task[p] # "asked"
    BY <1>23 DEF Unwound, Running, Futures
  <2> QED
    BY <1>23, <2>1 DEF Unwound, EndProcess, NoTasks, Moves, Purchase!vars
<1>24. ASSUME Decide PROVE Moves
  BY <1>24 DEF Moves, Decide, Purchase!vars
<1>25. ASSUME Assemble PROVE Moves
  <2>1. /\ state # NoState /\ mem = state /\ Done(mem) = Pages /\ Done(mem) \subseteq Complete
        /\ mem.status = "running" /\ kept = Pages
    BY <1>25 DEF Assemble, TypeOK, MemoryFits, WholeFits, KeptFits
  <2>2. Assembled(mem) = Pages
    BY <2>1 DEF Assembled, Complete
  <2>3. Purchase!Assemble(Pages)
    BY <1>25, <2>1, <2>2 DEF Assemble, Purchase!Assemble
  <2> QED
    BY <2>3 DEF Moves, Purchase!Next
<1>26. ASSUME AssembleFails PROVE Moves
  <2>1. /\ state # NoState /\ mem \in States /\ mem = state
    BY <1>26 DEF AssembleFails, TypeOK, MemoryFits
  <2>2. /\ state' # NoState /\ state'.ref = state.ref /\ state'.status # "completed"
    BY <1>26, <2>1, StatusRecorded DEF AssembleFails
  <2>3. \A p \in Pages : task[p] # "asked" /\ task'[p] # "asked"
    BY <1>26 DEF AssembleFails, EndProcess, NoTasks, TasksFit, TaskFits, InPool
  <2> QED
    BY <1>26, <2>3 DEF AssembleFails, EndProcess, MemoryFits, Moves, Purchase!vars
<1>27. ASSUME RecordCompleted PROVE Moves
  <2>1. /\ state # NoState /\ mem \in States /\ mem = state
    BY <1>27 DEF RecordCompleted, TypeOK, MemoryFits
  <2>2. /\ state' # NoState /\ state'.ref = state.ref /\ state'.status = "completed"
    BY <1>27, <2>1, StatusRecorded DEF RecordCompleted, Save
  <2>3. (\A p \in Pages : task[p] # "asked" /\ task'[p] # "asked") /\ pc' # "complete"
    BY <1>27 DEF RecordCompleted, EndProcess, NoTasks, TasksFit, TaskFits, InPool
  <2>4. CASE structured
    BY <1>27, <2>1, <2>2, <2>3, <2>4 DEF RecordCompleted, Moves, Purchase!vars
  <2>5. CASE ~structured
    BY <1>27, <2>1, <2>2, <2>3, <2>5 DEF RecordCompleted, Moves, Purchase!Next, Purchase!Reopen
  <2> QED
    BY <2>4, <2>5
<1>28. ASSUME RecordPurged PROVE Moves
  <2>1. /\ state # NoState /\ mem \in States /\ mem = state
    BY <1>28 DEF RecordPurged, TypeOK, MemoryFits
  <2>2. /\ state' # NoState /\ state'.ref = state.ref /\ state'.status = state.status
    BY <1>28, <2>1, PurgedRecorded DEF RecordPurged, Save
  <2> QED
    BY <1>28, <2>1, <2>2 DEF RecordPurged, Moves, Purchase!vars
<1>29. ASSUME NEW p \in Pages, CleanPage(p) PROVE Moves
  BY <1>29 DEF Moves, CleanPage, Purchase!vars
<1>30. ASSUME Cleaned PROVE Moves
  BY <1>30 DEF Moves, Cleaned, EndProcess, Purchase!vars, NoTasks, TasksFit, TaskFits, InPool
<1>31. ASSUME EndIncomplete PROVE Moves
  <2>1. /\ state # NoState /\ mem \in States /\ mem = state
    BY <1>31 DEF EndIncomplete, TypeOK, MemoryFits
  <2>2. /\ state' # NoState /\ state'.ref = state.ref /\ state'.status # "completed"
    BY <1>31, <2>1, StatusRecorded DEF EndIncomplete
  <2>3. \A p \in Pages : task[p] # "asked" /\ task'[p] # "asked"
    BY <1>31 DEF EndIncomplete, EndProcess, NoTasks, TasksFit, TaskFits, InPool
  <2> QED
    BY <1>31, <2>3 DEF EndIncomplete, EndProcess, MemoryFits, Moves, Purchase!vars
<1>32. ASSUME ExportRaises PROVE Moves
  BY <1>32 DEF Moves, ExportRaises, EndProcess, Purchase!vars, NoTasks, TasksFit, TaskFits, InPool
<1>33. ASSUME Rebuild PROVE Moves
  <2>1. structured => Assembled(state) \subseteq kept
    BY <1>33 DEF Rebuild, Assembled, KeptFits
  <2>2. Assembled(state) \subseteq Pages
    BY DEF Assembled, Done
  <2>3. structured /\ state.status = "completed" => Assembled(state) = Pages /\ kept = Pages
    BY <1>33 DEF Rebuild, StateFits, KeptFits, TypeOK
  <2>4. Purchase!Assemble(Assembled(state))
    BY <1>33, <2>1, <2>3 DEF Rebuild, Purchase!Assemble
  <2> QED
    BY <2>2, <2>4 DEF Moves, Purchase!Next
<1>34. ASSUME RecordRebuilt PROVE Moves
  <2>1. /\ state # NoState /\ mem \in States /\ mem = state
    BY <1>34 DEF RecordRebuilt, TypeOK, MemoryFits
  <2>2. /\ state' # NoState /\ state'.ref = state.ref
        /\ IF ~structured \/ Done(mem) = Pages THEN state'.status = "completed" ELSE state' = state
    BY <1>34, <2>1, StatusRecorded DEF RecordRebuilt
  <2>3. \A p \in Pages : task[p] # "asked" /\ task'[p] # "asked"
    BY <1>34 DEF RecordRebuilt, EndProcess, NoTasks, TasksFit, TaskFits, InPool
  <2>4. CASE structured /\ Done(mem) = Pages
    BY <1>34, <2>1, <2>4
       DEF RecordRebuilt, KeptFits, TypeOK, Moves, Purchase!Next, Purchase!Complete
  <2>5. CASE ~(structured /\ Done(mem) = Pages)
    BY <1>34, <2>1, <2>2, <2>3, <2>5 DEF RecordRebuilt, EndProcess, Moves, Purchase!vars
  <2> QED
    BY <2>4, <2>5
<1>35. ASSUME Cancel PROVE Moves
  BY <1>35 DEF Moves, Cancel, Purchase!vars
<1>36. ASSUME Crash PROVE Moves
  <2>1. \A p \in Pages : task'[p] # "asked"
    BY <1>36 DEF Crash, EndProcess, NoTasks
  <2>2. CASE pc = "complete"
    BY <1>36, <2>1, <2>2
       DEF Crash, EndProcess, MemoryFits, TasksFit, TaskFits, InPool, Moves, Purchase!Next,
           Purchase!Reopen
  <2>3. CASE pc # "complete"
    BY <1>36, <2>1, <2>3 DEF Crash, EndProcess, Moves, Purchase!Next, Purchase!Settle
  <2> QED
    BY <2>2, <2>3
<1>37. CASE UNCHANGED vars
  BY <1>37 DEF vars, Moves, Purchase!vars
<1> QED
  BY <1>1, <1>2, <1>3, <1>4, <1>5, <1>6, <1>7, <1>8, <1>9, <1>10, <1>11, <1>12, <1>13, <1>14,
     <1>15, <1>16, <1>17, <1>18, <1>19, <1>20, <1>21, <1>22, <1>23, <1>24, <1>25, <1>26, <1>27,
     <1>28, <1>29, <1>30, <1>31, <1>32, <1>33, <1>34, <1>35, <1>36, <1>37
     DEF Next, Task, Main, Collect

\* WorkflowRun implements PagePurchase (PageSpec).
THEOREM RunsArePurchases == Spec => PageSpec
<1>1. IInv /\ [Next]_vars => [Purchase!Next]_(Purchase!vars)
  BY StepImplements DEF Moves
<1> QED
  BY <1>1, InitImplements, RunInvariant, PTL DEF Spec, PageSpec, Purchase!Spec

-----------------------------------------------------------------------------
(* What follows for whoever pays *)

\* The pages that a provider is asked for at present.
Asked == {p \in Pages : task[p] = "asked"}

\* The checkpoint names the journal of what is bought.
Accounted == state # NoState => state.ref

\* The translation counts as complete, for the process or in the checkpoint.
Completed == pc = "complete" \/ (structured /\ state # NoState /\ state.status = "completed")

\* A page whose result is kept is not asked for, and every request under way is one that a later
\* run finds in the account.
RequestsAreNeeded ==
  /\ Asked \subseteq bought \ kept
  /\ Asked # {} => state # NoState /\ state.ref

\* A translation that counts as complete is: every page was kept and is in the document.
CompleteIsWhole == Completed => document = Pages /\ kept = Pages

\* The steps of the purchase, in the run's own words.
LEMMA PurchaseStep ==
  ASSUME [Purchase!Next]_(Purchase!vars)
  PROVE  \/ \E p \in Pages : /\ p \notin kept \union Asked /\ Accounted
                             /\ Asked' = Asked \union {p} /\ bought' = bought \union {p}
                             /\ Accounted' = Accounted /\ kept' = kept
                             /\ document' = document /\ Completed' = Completed
         \/ \E p \in Pages : /\ p \in bought \ Asked /\ kept' = kept \union {p}
                             /\ Asked' = Asked /\ bought' = bought /\ Accounted' = Accounted
                             /\ document' = document /\ Completed' = Completed
         \/ /\ Asked' \subseteq Asked /\ bought' = bought /\ kept' = kept
            /\ Accounted' = Accounted \/ bought = {}
            /\ \/ document' = document /\ Completed' = Completed
               \/ Completed' => document' = Pages /\ kept = Pages
         \/ /\ Asked' = {} /\ bought' = {} /\ kept' = {} /\ ~Completed'
<1>1. CASE UNCHANGED Purchase!vars
  BY <1>1 DEF Purchase!vars, Asked, Accounted, Completed
<1>2. ASSUME NEW p \in Pages, Purchase!Buy(p)
      PROVE  /\ p \notin kept \union Asked /\ Accounted
             /\ Asked' = Asked \union {p} /\ bought' = bought \union {p}
             /\ Accounted' = Accounted /\ kept' = kept
             /\ document' = document /\ Completed' = Completed
  BY <1>2 DEF Purchase!Buy, Asked, Accounted, Completed
<1>3. ASSUME NEW p \in Pages, Purchase!Keep(p)
      PROVE  /\ p \in bought \ Asked /\ kept' = kept \union {p}
             /\ Asked' = Asked /\ bought' = bought /\ Accounted' = Accounted
             /\ document' = document /\ Completed' = Completed
  BY <1>3 DEF Purchase!Keep, Asked, Accounted, Completed
<1>4. ASSUME NEW pages \in SUBSET Pages, Purchase!Settle(pages)
      PROVE  /\ Asked' \subseteq Asked /\ bought' = bought /\ kept' = kept
             /\ Accounted' = Accounted /\ document' = document /\ Completed' = Completed
  BY <1>4 DEF Purchase!Settle, Asked, Accounted, Completed
<1>5. ASSUME NEW pages \in SUBSET Pages, Purchase!Assemble(pages)
      PROVE  /\ Asked' = Asked /\ bought' = bought /\ kept' = kept /\ Accounted' = Accounted
             /\ Completed' => document' = Pages /\ kept = Pages
  BY <1>5 DEF Purchase!Assemble, Asked, Accounted, Completed
<1>6. CASE Purchase!Complete
  BY <1>6 DEF Purchase!Complete, Asked, Accounted, Completed
<1>7. CASE Purchase!Reopen
  BY <1>7 DEF Purchase!Reopen, Asked, Accounted, Completed
<1>8. CASE Purchase!StartOver
  BY <1>8 DEF Purchase!StartOver, Asked, Accounted, Completed
<1>9. CASE Purchase!OpenAccount
  BY <1>9 DEF Purchase!OpenAccount, Asked, Accounted, Completed
<1> QED
  BY <1>1, <1>2, <1>3, <1>4, <1>5, <1>6, <1>7, <1>8, <1>9 DEF Purchase!Next

\* No run pays for a page whose result is kept, and none for a page that a later run will not find
\* in the account, whatever fails, is cancelled or dies (_initialize_dispatch_accounting,
\* _process_page).
THEOREM NothingIsBoughtTwice == Spec => []RequestsAreNeeded
<1> DEFINE Needed == Asked \subseteq bought \ kept /\ (Asked # {} => Accounted)
<1>1. Purchase!Init => Needed
  BY DEF Purchase!Init, Asked
<1>2. Needed /\ [Purchase!Next]_(Purchase!vars) => Needed'
  <2> SUFFICES ASSUME Needed, [Purchase!Next]_(Purchase!vars) PROVE Needed'
    OBVIOUS
  <2> QED
    BY PurchaseStep
<1>3. IInv /\ Needed => RequestsAreNeeded
  <2> SUFFICES ASSUME IInv, Asked # {} PROVE state # NoState
    BY DEF RequestsAreNeeded, Accounted
  <2>1. InPool
    BY DEF IInv, TasksFit, TaskFits, Asked
  <2> QED
    BY <2>1, WorkflowAssumption DEF IInv, InPool, MemoryFits, TypeOK
<1> QED
  BY <1>1, <1>2, <1>3, RunInvariant, RunsArePurchases, PTL DEF PageSpec, Purchase!Spec

\* Neither a run nor the checkpoint of a structured one says "completed" of a document that lacks a
\* page, nor of a page whose result is not kept.
THEOREM CompletedMeansWhole == Spec => []CompleteIsWhole
<1> DEFINE WholeFit == CompleteIsWhole /\ bought \subseteq Pages /\ Asked \subseteq Pages /\ kept \subseteq Pages
<1>1. Purchase!Init => WholeFit
  BY DEF Purchase!Init, CompleteIsWhole, Completed, Asked
<1>2. WholeFit /\ [Purchase!Next]_(Purchase!vars) => WholeFit'
  <2> SUFFICES ASSUME WholeFit, [Purchase!Next]_(Purchase!vars) PROVE WholeFit'
    OBVIOUS
  <2> QED
    BY PurchaseStep DEF CompleteIsWhole
<1> QED
  BY <1>1, <1>2, RunsArePurchases, PTL DEF PageSpec, Purchase!Spec

=============================================================================
