--------------------------- MODULE RunWorkspaceLock ---------------------------
(******************************************************************************)
(* run_workspace_lock.py: who may work in a run folder. A process keeps a     *)
(* registry of the folders its threads own; the ownership itself is an OS     *)
(* lock on a file in the folder, so that it excludes other processes and ends *)
(* with the process. The same thread may nest. A fork inherits the open lock  *)
(* file, and somebody may put another file in the lock file's place.          *)
(******************************************************************************)
EXTENDS Integers, FiniteSets

CONSTANTS
  Processes, Threads, Dirs,
  MaxDepth,  \* bound: how deep a thread nests
  MaxFiles,  \* bound: the lock files ever made
  None

Files == 1..MaxFiles

\* An entry under way: whose, where, which file it opened, whether it has the lock, and the
\* children that have a copy of its descriptor.
Attempts == [thread : Threads, dir : Dirs, file : Files, locked : BOOLEAN, shared : SUBSET Processes]

ASSUME LockAssumption ==
  /\ MaxDepth \in Nat \ {0} /\ MaxFiles \in Nat
  /\ None \notin Threads \union Attempts
  /\ IsFiniteSet(Dirs) /\ Cardinality(Dirs) <= MaxFiles

VARIABLES
  alive,     \* the processes that run
  owners,    \* _OWNERS of each process
  entering,  \* the entry that a process makes under its _REGISTRY_GUARD
  file,      \* which file is the folder's .run_workspace.lock now
  files,     \* how many lock files were ever made (bound)
  locked,    \* the processes whose open descriptors share the OS lock on a file
  inherited, \* the processes that have forked and not run _after_fork yet
  forked,    \* the processes that another one forked (observation)
  intruded   \* the slots that another process entered the folder of (observation)

vars == <<alive, owners, entering, file, files, locked, inherited, forked, intruded>>

Free == [thread |-> None, depth |-> 0, file |-> 0]

Holds(p, d)   == owners[p][d].depth > 0
Registered(p) == {owners[p][d].file : d \in {d \in Dirs : Holds(p, d)}}

Init ==
  /\ alive \in SUBSET Processes /\ alive # {}
  /\ owners = [p \in Processes |-> [d \in Dirs |-> Free]]
  /\ entering = [p \in Processes |-> None]
  /\ file \in {g \in [Dirs -> 1..Cardinality(Dirs)] : \A c, d \in Dirs : g[c] = g[d] => c = d}
  /\ files = Cardinality(Dirs)
  /\ locked = [f \in Files |-> {}]
  /\ inherited = {}
  /\ forked = {}
  /\ intruded = {}

\* The process may run its Python code and nobody is in its guarded section.
Runs(p)   == p \in alive \ inherited /\ entering[p] = None
Enters(p) == p \in alive \ inherited /\ entering[p] # None

\* The first entry opens the lock file ...
Open(p, t, d) ==
  /\ Runs(p) /\ ~Holds(p, d)
  /\ entering' = [entering EXCEPT ![p] = [thread |-> t, dir |-> d, file |-> file[d],
                                          locked |-> FALSE, shared |-> {}]]
  /\ UNCHANGED <<alive, owners, file, files, locked, inherited, forked, intruded>>

\* ... locks it without waiting, for the descriptors that forks have copied meanwhile as well ...
Lock(p) ==
  /\ Enters(p) /\ ~entering[p].locked
  /\ locked[entering[p].file] = {}
  /\ locked' = [locked EXCEPT ![entering[p].file] = {p} \union entering[p].shared]
  /\ entering' = [entering EXCEPT ![p].locked = TRUE]
  /\ UNCHANGED <<alive, owners, file, files, inherited, forked, intruded>>

RegisterUnchecked(p) ==  \* mutant: the identity of the file is not looked at once it is locked
  /\ Enters(p) /\ entering[p].locked
  /\ LET e == entering[p] IN
       /\ owners' = [owners EXCEPT ![p][e.dir] = [thread |-> e.thread, depth |-> 1, file |-> e.file]]
       /\ intruded' = intruded \union
            {<<q, e.dir>> : q \in {q \in alive \ (inherited \union {p}) : Holds(q, e.dir)}}
  /\ entering' = [entering EXCEPT ![p] = None]
  /\ UNCHANGED <<alive, file, files, locked, inherited, forked>>

\* ... and registers the owner if the locked file is still the folder's lock file.
Register(p) ==
  /\ Enters(p) /\ entering[p].locked
  /\ LET e == entering[p] IN
       /\ file[e.dir] = e.file
       /\ owners' = [owners EXCEPT ![p][e.dir] = [thread |-> e.thread, depth |-> 1, file |-> e.file]]
       /\ intruded' = intruded \union
            {<<q, e.dir>> : q \in {q \in alive \ (inherited \union {p}) : Holds(q, e.dir)}}
  /\ entering' = [entering EXCEPT ![p] = None]
  /\ UNCHANGED <<alive, file, files, locked, inherited, forked>>

\* RunWorkspaceBusy, or "Run workspace lock identity changed": the descriptor is closed,
\* and with it goes a lock that was taken.
Refuse(p) ==
  /\ Enters(p)
  /\ \/ file[entering[p].dir] # entering[p].file
     \/ ~entering[p].locked /\ locked[entering[p].file] # {}
  /\ locked' = [locked EXCEPT ![entering[p].file] = IF entering[p].locked THEN @ \ {p} ELSE @]
  /\ entering' = [entering EXCEPT ![p] = None]
  /\ UNCHANGED <<alive, owners, file, files, inherited, forked, intruded>>

\* A second entry is the owning thread's own; any other thread is refused.
Nest(p, t, d) ==
  /\ Runs(p) /\ Holds(p, d)
  /\ owners[p][d].thread = t
  /\ file[d] = owners[p][d].file
  /\ owners[p][d].depth < MaxDepth
  /\ owners' = [owners EXCEPT ![p][d].depth = @ + 1]
  /\ UNCHANGED <<alive, entering, file, files, locked, inherited, forked, intruded>>

ExitKeepsEntry(p, t, d) ==  \* mutant: the outermost exit does not delete the registry entry
  /\ Runs(p) /\ owners[p][d].thread = t
  /\ owners' = [owners EXCEPT ![p][d].depth = @ - 1]
  /\ locked' = [locked EXCEPT ![owners[p][d].file] = IF owners[p][d].depth > 1 THEN @ ELSE {}]
  /\ UNCHANGED <<alive, entering, file, files, inherited, forked, intruded>>

ExitKeepsOpen(p, t, d) ==  \* mutant: an unlock that raises skips the closing of the descriptor
  /\ Runs(p) /\ owners[p][d].thread = t
  /\ IF owners[p][d].depth > 1
     THEN /\ owners' = [owners EXCEPT ![p][d].depth = @ - 1]
          /\ UNCHANGED <<locked, intruded>>
     ELSE /\ owners' = [owners EXCEPT ![p][d] = Free]
          /\ \E left \in {{}, locked[owners[p][d].file]} :
               locked' = [locked EXCEPT ![owners[p][d].file] = left]
          /\ intruded' = intruded \ {<<p, d>>}
  /\ UNCHANGED <<alive, entering, file, files, inherited, forked>>

\* The body ends or raises: the outermost exit unlocks, closes and forgets. LOCK_UN
\* ends the lock for every descriptor that a fork shares it with; if it raises, the
\* descriptor is closed all the same, which ends it for this process alone.
Exit(p, t, d) ==
  /\ Runs(p) /\ owners[p][d].thread = t
  /\ IF owners[p][d].depth > 1
     THEN /\ owners' = [owners EXCEPT ![p][d].depth = @ - 1]
          /\ UNCHANGED <<locked, intruded>>
     ELSE /\ owners' = [owners EXCEPT ![p][d] = Free]
          /\ \E left \in {{}, locked[owners[p][d].file] \ {p}} :
               locked' = [locked EXCEPT ![owners[p][d].file] = left]
          /\ intruded' = intruded \ {<<p, d>>}
  /\ UNCHANGED <<alive, entering, file, files, inherited, forked>>

\* A thread forks: the child has the registry, that thread's identity and the open
\* descriptors, that of an entry another thread is making included, which stays open in
\* the child for good.
Fork(p, c) ==
  /\ p \in alive \ inherited /\ c \notin alive
  /\ alive' = alive \union {c}
  /\ owners' = [owners EXCEPT ![c] = owners[p]]
  /\ locked' = [f \in Files |-> IF p \in locked[f] THEN locked[f] \union {c} ELSE locked[f]]
  /\ entering' = [q \in Processes |->
                   IF entering[q] # None /\ (q = p \/ p \in entering[q].shared)
                   THEN [entering[q] EXCEPT !.shared = @ \union {c}] ELSE entering[q]]
  /\ inherited' = inherited \union {c}
  /\ forked' = forked \union {c}
  /\ UNCHANGED <<file, files, intruded>>

AfterForkUnlocks(c) ==  \* mutant: the child releases instead of closing
  /\ c \in alive \cap inherited
  /\ owners' = [owners EXCEPT ![c] = [d \in Dirs |-> Free]]
  /\ locked' = [f \in Files |-> IF c \in locked[f] THEN {} ELSE locked[f]]
  /\ inherited' = inherited \ {c}
  /\ UNCHANGED <<alive, entering, file, files, forked, intruded>>

AfterForkKeepsOwners(c) ==  \* mutant: the registry is not cleared
  /\ c \in alive \cap inherited
  /\ locked' = [f \in Files |-> IF f \in Registered(c) THEN locked[f] \ {c} ELSE locked[f]]
  /\ inherited' = inherited \ {c}
  /\ UNCHANGED <<alive, owners, entering, file, files, forked, intruded>>

\* _after_fork runs before any other code of the child: the descriptors of its registry
\* are closed, which leaves the parent's lock, and the registry is cleared.
AfterFork(c) ==
  /\ c \in alive \cap inherited
  /\ owners' = [owners EXCEPT ![c] = [d \in Dirs |-> Free]]
  /\ locked' = [f \in Files |-> IF f \in Registered(c) THEN locked[f] \ {c} ELSE locked[f]]
  /\ inherited' = inherited \ {c}
  /\ UNCHANGED <<alive, entering, file, files, forked, intruded>>

\* A process dies at any point: the OS closes its descriptors.
Die(p) ==
  /\ p \in alive
  /\ alive' = alive \ {p}
  /\ owners' = [owners EXCEPT ![p] = [d \in Dirs |-> Free]]
  /\ entering' = [q \in Processes |->
                   IF q = p \/ entering[q] = None THEN None
                   ELSE [entering[q] EXCEPT !.shared = @ \ {p}]]
  /\ locked' = [f \in Files |-> locked[f] \ {p}]
  /\ inherited' = inherited \ {p} /\ forked' = forked \ {p}
  /\ intruded' = intruded \ {<<p, d>> : d \in Dirs}
  /\ UNCHANGED <<file, files>>

\* Somebody else puts a new file in the lock file's place.
Replace(d) ==
  /\ files < MaxFiles
  /\ files' = files + 1
  /\ file' = [file EXCEPT ![d] = files + 1]
  /\ UNCHANGED <<alive, owners, entering, locked, inherited, forked, intruded>>

Next ==
  \/ \E p \in Processes, t \in Threads, d \in Dirs : Open(p, t, d) \/ Nest(p, t, d) \/ Exit(p, t, d)
  \/ \E p \in Processes : Lock(p) \/ Register(p) \/ Refuse(p) \/ AfterFork(p) \/ Die(p)
  \/ \E p, c \in Processes : Fork(p, c)
  \/ \E d \in Dirs : Replace(d)

Spec == Init /\ [][Next]_vars

-----------------------------------------------------------------------------
(* Properties *)

\* Every variable stays in its type.
TypeOK ==
  /\ alive \subseteq Processes /\ inherited \subseteq Processes
  /\ owners \in [Processes -> [Dirs -> [thread : Threads \union {None}, depth : 0..MaxDepth,
                                        file : Files \union {0}]]]
  /\ entering \in [Processes -> Attempts \union {None}]
  /\ file \in [Dirs -> Files] /\ files \in 0..MaxFiles
  /\ locked \in [Files -> SUBSET Processes]
  /\ forked \subseteq Processes
  /\ intruded \subseteq Processes \X Dirs

\* What the registry says the OS enforces: neither an inner exit nor a forked child's
\* clean-up ever drops the lock under an owner.
RegisteredIsLocked ==
  \A p \in alive \ inherited, d \in Dirs : Holds(p, d) => p \in locked[owners[p][d].file]

\* A folder is given back, however an entry ends, an exit whose unlock raises included: a
\* process that nobody forked has no lock but of a folder its registry says it owns or that it
\* is entering. (A child keeps the descriptor of an entry that was under way when it was forked.)
GivenBack ==
  \A p \in Processes \ forked, f \in Files :
    p \in locked[f] =>
      \/ entering[p] # None /\ entering[p].locked /\ entering[p].file = f
      \/ \E d \in Dirs : Holds(p, d) /\ owners[p][d].file = f

\* Two processes that run are never both owners of a folder through the same lock file,
\* a child and the parent it was forked from included.
ProcessesExclude ==
  \A p, q \in alive \ inherited, d \in Dirs :
    p # q /\ Holds(p, d) /\ Holds(q, d) => owners[p][d].file # owners[q][d].file

\* If the replacing of the lock file lets a second process into an owned folder, the
\* first owner's exit finds out, since its file is no longer in place.
IntrusionIsNoticed ==
  \A p \in alive \ inherited, d \in Dirs : <<p, d>> \in intruded => owners[p][d].file # file[d]

=============================================================================
