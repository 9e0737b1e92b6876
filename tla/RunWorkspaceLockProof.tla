------------------------- MODULE RunWorkspaceLockProof -------------------------
(**********************************************************************************)
(* What RunWorkspaceLock keeps apart, for any number of processes, threads,       *)
(* folders and lock files. The registry is each process's own, so that nothing    *)
(* in it says that two processes differ: the argument goes by the OS lock. Who    *)
(* owns a folder, or has locked its file and not registered yet, has the lock on  *)
(* that file, and since a file is only locked when nobody has it, no two of them  *)
(* have the same file; then an exit that unlocks takes no lock from anybody else. *)
(**********************************************************************************)
EXTENDS RunWorkspaceLock, FiniteSetTheorems, TLAPS

Running     == alive \ inherited
Entering(p)  == entering[p] # None
Locking(p)   == Entering(p) /\ entering[p].locked

\* A registry entry with no depth is none at all, and nobody enters what he owns.
RegistryFits ==
  /\ \A p \in Processes, d \in Dirs : ~Holds(p, d) => owners[p][d] = Free
  /\ \A p \in Processes, d \in Dirs :
       Holds(p, d) => owners[p][d].file \in Files /\ owners[p][d].thread \in Threads
  /\ \A p \in Processes : Entering(p) => p \in Running /\ ~Holds(p, entering[p].dir)

\* Who is between the lock and the registry has the lock.
LockingIsLocked == \A p \in Processes : Locking(p) => p \in locked[entering[p].file]

\* No two entries, registered or about to be, are through the same file.
HeldExclude ==
  \A p, q \in Running, d, e \in Dirs :
    Holds(p, d) /\ Holds(q, e) /\ owners[p][d].file = owners[q][e].file => p = q /\ d = e

LockingExclude ==
  /\ \A p, q \in Processes :
       Locking(p) /\ Locking(q) /\ entering[p].file = entering[q].file => p = q
  /\ \A p \in Processes, q \in Running, e \in Dirs :
       Locking(p) /\ Holds(q, e) => entering[p].file # owners[q][e].file

\* Every file that somebody knows was made: a new one is nobody's.
FilesMade ==
  /\ \A p \in Processes, d \in Dirs : owners[p][d].file <= files
  /\ \A p \in Processes : Entering(p) => entering[p].file <= files
  /\ \A d \in Dirs : file[d] <= files

IntrudedHolds == \A p \in Processes, d \in Dirs : <<p, d>> \in intruded => p \in Running /\ Holds(p, d)

\* Whoever has a copy of the descriptor of an entry that is under way was forked.
CopiesForked == \A p \in Processes : Entering(p) => entering[p].shared \subseteq forked

\* A child that has not run _after_fork yet was forked.
InheritedForked == inherited \subseteq forked

\* A process uses a lock file: it has locked it to register, or it is registered through it.
Using(p, f) ==
  \/ Locking(p) /\ entering[p].file = f
  \/ \E d \in Dirs : Holds(p, d) /\ owners[p][d].file = f

IInv ==
  /\ TypeOK /\ RegistryFits /\ FilesMade
  /\ RegisteredIsLocked /\ LockingIsLocked /\ HeldExclude /\ LockingExclude
  /\ IntrudedHolds /\ IntrusionIsNoticed
  /\ CopiesForked /\ InheritedForked /\ GivenBack

Entries == [thread : Threads \union {None}, depth : 0..MaxDepth, file : Files \union {0}]

\* A free entry of the registry is one.
LEMMA FreeIsEntry == Free \in Entries
BY LockAssumption DEF Free, Entries

\* No process owns anything at first.
LEMMA InitInvariant == Init => IInv
<1> SUFFICES ASSUME Init PROVE IInv
  OBVIOUS
<1>1. Cardinality(Dirs) \in Nat /\ Cardinality(Dirs) <= MaxFiles
  BY LockAssumption, FS_CardinalityType
<1>2. file \in [Dirs -> 1..Cardinality(Dirs)]
  BY DEF Init
<1>3. \A p \in Processes : entering[p] = None /\ \A d \in Dirs : owners[p][d] = Free
  BY DEF Init
<1>4. TypeOK
  <2>1. file \in [Dirs -> Files] /\ files \in 0..MaxFiles
    BY <1>1, LockAssumption DEF Init, Files
  <2> QED
    BY <2>1, FreeIsEntry DEF Init, TypeOK, Entries
<1>5. RegistryFits /\ LockingIsLocked /\ LockingExclude
  BY <1>3 DEF RegistryFits, LockingIsLocked, LockingExclude, Locking, Entering, Holds, Free
<1>6. FilesMade
  BY <1>1 DEF Init, FilesMade, Entering, Free
<1>7. RegisteredIsLocked /\ HeldExclude
  BY DEF Init, RegisteredIsLocked, HeldExclude, Running, Holds, Free
<1>8. IntrudedHolds /\ IntrusionIsNoticed
  BY DEF Init, IntrudedHolds, IntrusionIsNoticed
<1>9. CopiesForked /\ InheritedForked /\ GivenBack
  BY DEF Init, CopiesForked, InheritedForked, Entering, GivenBack
<1> QED
  BY <1>4, <1>5, <1>6, <1>7, <1>8, <1>9 DEF IInv

\* One step per action, and under it one per part of the invariant.
LEMMA StepInvariant == IInv /\ [Next]_vars => IInv'
<1> SUFFICES ASSUME IInv, [Next]_vars PROVE IInv'
  OBVIOUS
<1>1. ASSUME NEW p \in Processes, NEW t \in Threads, NEW d \in Dirs, Open(p, t, d) PROVE IInv'
  <2>1. TypeOK'
    BY <1>1 DEF Open, IInv, TypeOK, Attempts
  <2>2. RegistryFits'
    BY <1>1 DEF Open, Runs, IInv, RegistryFits, Running, Entering, Holds
  <2>3. FilesMade'
    BY <1>1 DEF Open, IInv, FilesMade, Entering
  <2>4. RegisteredIsLocked'
    BY <1>1 DEF Open, IInv, RegisteredIsLocked, Holds
  <2>5. LockingIsLocked'
    BY <1>1 DEF Open, IInv, LockingIsLocked, Locking, Entering
  <2>6. HeldExclude'
    BY <1>1 DEF Open, IInv, HeldExclude, Running, Holds
  <2>7. LockingExclude'
    BY <1>1 DEF Open, IInv, LockingExclude, Locking, Entering, Running, Holds
  <2>8. IntrudedHolds'
    BY <1>1 DEF Open, IInv, IntrudedHolds, Running, Holds
  <2>9. IntrusionIsNoticed'
    BY <1>1 DEF Open, IInv, IntrusionIsNoticed
  <2>10. CopiesForked' /\ InheritedForked'
    BY <1>1 DEF Open, Enters, IInv, TypeOK, CopiesForked, InheritedForked, Entering
  <2>11. GivenBack'
    <3> SUFFICES ASSUME NEW q \in Processes, q \notin forked', NEW f \in Files, q \in locked'[f]
                  PROVE  Using(q, f)'
      BY DEF GivenBack, Using, Locking, Entering
    <3>1. q \in locked[f] /\ q \notin forked => Using(q, f)
      BY DEF IInv, GivenBack, Using, Locking, Entering
    <3> QED
      BY <1>1, <3>1 DEF Open, Runs, IInv, TypeOK, CopiesForked, Using, Locking, Entering, Holds
  <2> QED
    BY <2>1, <2>2, <2>3, <2>4, <2>5, <2>6, <2>7, <2>8, <2>9, <2>10, <2>11 DEF IInv
<1>2. ASSUME NEW p \in Processes, Lock(p) PROVE IInv'
  <2>1. TypeOK'
    <3>1. entering[p] \in Attempts
      BY <1>2 DEF Lock, Enters, IInv, TypeOK, Attempts
    <3>2. [entering[p] EXCEPT !.locked = TRUE] \in Attempts
      BY <3>1 DEF Attempts
    <3>3. entering' = [entering EXCEPT ![p] = [entering[p] EXCEPT !.locked = TRUE]]
      BY <1>2 DEF Lock
    <3>4. locked' \in [Files -> SUBSET Processes]
      BY <1>2, <3>1 DEF Lock, IInv, TypeOK, Attempts
    <3>5. entering' \in [Processes -> Attempts \union {None}]
      BY <3>2, <3>3 DEF IInv, TypeOK, Attempts
    <3> QED
      BY <1>2, <3>4, <3>5 DEF Lock, IInv, TypeOK, Attempts
  <2>2. RegistryFits'
    BY <1>2 DEF Lock, Enters, IInv, RegistryFits, Running, Entering, Holds
  <2>3. FilesMade'
    BY <1>2 DEF Lock, Enters, IInv, FilesMade, Entering
  <2>4. RegisteredIsLocked'
    BY <1>2 DEF Lock, IInv, RegisteredIsLocked, Holds
  <2>5. LockingIsLocked'
    BY <1>2 DEF Lock, Enters, IInv, TypeOK, LockingIsLocked, Locking, Entering, Attempts
  <2>6. HeldExclude'
    BY <1>2 DEF Lock, IInv, HeldExclude, Running, Holds
  <2>7. LockingExclude'
    BY <1>2
       DEF Lock, IInv, LockingExclude, RegisteredIsLocked, LockingIsLocked, Locking, Entering,
           Running, Holds
  <2>8. IntrudedHolds'
    BY <1>2 DEF Lock, IInv, IntrudedHolds, Running, Holds
  <2>9. IntrusionIsNoticed'
    BY <1>2 DEF Lock, IInv, IntrusionIsNoticed
  <2>10. CopiesForked' /\ InheritedForked'
    BY <1>2 DEF Lock, Enters, IInv, TypeOK, CopiesForked, InheritedForked, Entering
  <2>11. GivenBack'
    <3> SUFFICES ASSUME NEW q \in Processes, q \notin forked', NEW f \in Files, q \in locked'[f]
                  PROVE  Using(q, f)'
      BY DEF GivenBack, Using, Locking, Entering
    <3>1. q \in locked[f] /\ q \notin forked => Using(q, f)
      BY DEF IInv, GivenBack, Using, Locking, Entering
    <3>2. entering'[p] = [entering[p] EXCEPT !.locked = TRUE] /\ entering[p] \in Attempts
      BY <1>2 DEF Lock, Enters, IInv, TypeOK, Attempts
    <3>3. CASE q = p /\ f = entering[p].file
      <4>1. entering'[q] # None /\ entering'[q].locked /\ entering'[q].file = f
        <5>1. [entering[p] EXCEPT !.locked = TRUE] \in Attempts
          BY <3>2 DEF Attempts
        <5> QED
          BY <3>2, <3>3, <5>1, LockAssumption DEF Attempts
      <4> QED
        BY <4>1 DEF Using, Locking, Entering
    <3>4. CASE ~(q = p /\ f = entering[p].file)
      <4>1. q \in locked[f] /\ q \notin forked
        BY <1>2, <3>4 DEF Lock, Enters, IInv, TypeOK, CopiesForked, Entering
      <4>2. CASE Locking(q) /\ entering[q].file = f
        BY <1>2, <3>2, <4>2 DEF Lock, Using, Locking, Entering, Attempts
      <4>3. CASE \E d \in Dirs : Holds(q, d) /\ owners[q][d].file = f
        BY <1>2, <4>3 DEF Lock, Using, Holds
      <4> QED
        BY <3>1, <4>1, <4>2, <4>3 DEF Using
    <3> QED
      BY <3>3, <3>4
  <2> QED
    BY <2>1, <2>2, <2>3, <2>4, <2>5, <2>6, <2>7, <2>8, <2>9, <2>10, <2>11 DEF IInv
<1>3. ASSUME NEW p \in Processes, Register(p) PROVE IInv'
  <2>1. TypeOK'
    BY <1>3, LockAssumption DEF Register, Enters, IInv, TypeOK, Attempts, Files
  <2>2. RegistryFits'
    BY <1>3, LockAssumption
       DEF Register, Enters, IInv, TypeOK, Attempts, RegistryFits, Running, Entering, Holds
  <2>3. FilesMade'
    BY <1>3 DEF Register, IInv, FilesMade, Entering
  <2>4. RegisteredIsLocked'
    BY <1>3
       DEF Register, Enters, IInv, RegisteredIsLocked, Holds, Free, LockingIsLocked, Locking,
           Entering
  <2>5. LockingIsLocked'
    BY <1>3 DEF Register, IInv, LockingIsLocked, Locking, Entering
  <2>6. HeldExclude'
    BY <1>3
       DEF Register, Enters, IInv, TypeOK, HeldExclude, LockingExclude, Locking, Entering, Running,
           Holds
  <2>7. LockingExclude'
    BY <1>3 DEF Register, Enters, IInv, TypeOK, LockingExclude, Locking, Entering, Running, Holds
  <2>8. IntrudedHolds'
    BY <1>3 DEF Register, Enters, IInv, IntrudedHolds, Running, Holds
  <2>9. IntrusionIsNoticed'
    BY <1>3
       DEF Register, Enters, IInv, IntrusionIsNoticed, IntrudedHolds, Running, Files, RegistryFits,
           LockingExclude, Locking, Entering
  <2>10. CopiesForked' /\ InheritedForked'
    BY <1>3 DEF Register, Enters, IInv, TypeOK, CopiesForked, InheritedForked, Entering
  <2>11. GivenBack'
    <3> SUFFICES ASSUME NEW q \in Processes, q \notin forked', NEW f \in Files, q \in locked'[f]
                  PROVE  Using(q, f)'
      BY DEF GivenBack, Using, Locking, Entering
    <3>1. q \in locked[f] /\ q \notin forked => Using(q, f)
      BY DEF IInv, GivenBack, Using, Locking, Entering
    <3>2. Using(q, f)
      BY <1>3, <3>1 DEF Register
    <3>3. entering[p] \in Attempts
      BY <1>3 DEF Register, Enters, IInv, TypeOK, Attempts
    <3>4. CASE Locking(q) /\ entering[q].file = f /\ q = p
      <4>1. /\ owners'[p][entering[p].dir] = [thread |-> entering[p].thread, depth |-> 1, file |-> f]
            /\ entering[p].dir \in Dirs
        BY <1>3, <3>3, <3>4 DEF Register, IInv, TypeOK, Attempts
      <4> QED
        BY <3>4, <4>1 DEF Using, Holds
    <3>5. CASE Locking(q) /\ entering[q].file = f /\ q # p
      BY <1>3, <3>5 DEF Register, Using, Locking, Entering
    <3>6. CASE \E d \in Dirs : Holds(q, d) /\ owners[q][d].file = f
      <4>1. PICK d \in Dirs : Holds(q, d) /\ owners[q][d].file = f
        BY <3>6
      <4>2. ~(q = p /\ d = entering[p].dir)
        BY <1>3, <4>1 DEF Register, Enters, IInv, RegistryFits, Entering
      <4>3. owners'[q][d] = owners[q][d]
        BY <1>3, <3>3, <4>2 DEF Register, IInv, TypeOK, Attempts
      <4> QED
        BY <4>1, <4>3 DEF Using, Holds
    <3> QED
      BY <3>2, <3>4, <3>5, <3>6 DEF Using
  <2> QED
    BY <2>1, <2>2, <2>3, <2>4, <2>5, <2>6, <2>7, <2>8, <2>9, <2>10, <2>11 DEF IInv
<1>4. ASSUME NEW p \in Processes, Refuse(p) PROVE IInv'
  <2>1. TypeOK'
    BY <1>4 DEF Refuse, IInv, TypeOK
  <2>2. RegistryFits'
    BY <1>4 DEF Refuse, IInv, RegistryFits, Running, Entering, Holds
  <2>3. FilesMade'
    BY <1>4 DEF Refuse, IInv, FilesMade, Entering
  <2>4. RegisteredIsLocked'
    BY <1>4
       DEF Refuse, Enters, IInv, RegisteredIsLocked, RegistryFits, Holds, LockingExclude, Locking,
           Entering
  <2>5. LockingIsLocked'
    BY <1>4 DEF Refuse, IInv, TypeOK, LockingIsLocked, Locking, Entering
  <2>6. HeldExclude'
    BY <1>4 DEF Refuse, IInv, HeldExclude, Running, Holds
  <2>7. LockingExclude'
    BY <1>4 DEF Refuse, IInv, LockingExclude, Locking, Entering, Running, Holds
  <2>8. IntrudedHolds'
    BY <1>4 DEF Refuse, IInv, IntrudedHolds, Running, Holds
  <2>9. IntrusionIsNoticed'
    BY <1>4 DEF Refuse, IInv, IntrusionIsNoticed
  <2>10. CopiesForked' /\ InheritedForked'
    BY <1>4 DEF Refuse, Enters, IInv, TypeOK, CopiesForked, InheritedForked, Entering
  <2>11. GivenBack'
    BY <1>4 DEF Refuse, Enters, IInv, TypeOK, GivenBack, CopiesForked, Entering, Holds
  <2> QED
    BY <2>1, <2>2, <2>3, <2>4, <2>5, <2>6, <2>7, <2>8, <2>9, <2>10, <2>11 DEF IInv
<1>5. ASSUME NEW p \in Processes, NEW t \in Threads, NEW d \in Dirs, Nest(p, t, d) PROVE IInv'
  <2>0. /\ owners[p][d] \in Entries
        /\ [owners[p][d] EXCEPT !.depth = @ + 1] \in Entries
    <3>1. owners[p][d] \in Entries
      BY DEF IInv, TypeOK, Entries
    <3> QED
      BY <1>5, <3>1, LockAssumption DEF Nest, Entries
  <2>1. TypeOK'
    BY <1>5, <2>0 DEF Nest, IInv, TypeOK, Entries
  <2>2. RegistryFits'
    BY <1>5, <2>0, FreeIsEntry, LockAssumption
       DEF Nest, Runs, IInv, TypeOK, RegistryFits, Running, Entering, Holds
  <2>3. FilesMade'
    BY <1>5 DEF Nest, IInv, FilesMade, Entering
  <2>4. RegisteredIsLocked'
    BY <1>5 DEF Nest, IInv, RegisteredIsLocked, Holds
  <2>5. LockingIsLocked'
    BY <1>5 DEF Nest, IInv, LockingIsLocked, Locking, Entering
  <2>6. HeldExclude'
    BY <1>5 DEF Nest, IInv, HeldExclude, Running, Holds
  <2>7. LockingExclude'
    BY <1>5 DEF Nest, IInv, LockingExclude, Locking, Entering, Running, Holds
  <2>8. IntrudedHolds'
    BY <1>5 DEF Nest, IInv, TypeOK, IntrudedHolds, Running, Holds
  <2>9. IntrusionIsNoticed'
    BY <1>5 DEF Nest, IInv, IntrusionIsNoticed
  <2>10. CopiesForked' /\ InheritedForked'
    BY <1>5 DEF Nest, Enters, IInv, TypeOK, CopiesForked, InheritedForked, Entering
  <2>11. GivenBack'
    BY <1>5 DEF Nest, Enters, IInv, TypeOK, GivenBack, CopiesForked, Entering, Holds
  <2> QED
    BY <2>1, <2>2, <2>3, <2>4, <2>5, <2>6, <2>7, <2>8, <2>9, <2>10, <2>11 DEF IInv
<1>6. ASSUME NEW p \in Processes, NEW t \in Threads, NEW d \in Dirs, Exit(p, t, d) PROVE IInv'
  <2>0. /\ owners[p][d] \in Entries /\ owners[p][d].depth > 0
        /\ p \in Running /\ entering[p] = None
        /\ UNCHANGED <<alive, entering, file, files, inherited, forked>>
    BY <1>6, LockAssumption
       DEF Exit, Runs, IInv, TypeOK, RegistryFits, Entries, Holds, Free, Running
  <2>1. CASE owners[p][d].depth > 1
    <3>0. /\ owners' = [owners EXCEPT ![p] = [owners[p] EXCEPT ![d] = [owners[p][d] EXCEPT !.depth = @ - 1]]]
          /\ UNCHANGED <<locked, intruded>>
      BY <1>6, <2>1 DEF Exit
    <3>a. [owners[p][d] EXCEPT !.depth = @ - 1] \in Entries /\ owners[p][d].depth - 1 > 0
      BY <2>0, <2>1, LockAssumption DEF Entries
    <3>1. TypeOK'
      BY <2>0, <3>0, <3>a DEF IInv, TypeOK, Entries
    <3>2. RegistryFits'
      BY <2>0, <3>0, <3>a DEF IInv, TypeOK, RegistryFits, Running, Entering, Holds
    <3>3. FilesMade'
      BY <2>0, <3>0 DEF IInv, FilesMade, Entering
    <3>4. RegisteredIsLocked'
      BY <2>0, <3>0 DEF IInv, RegisteredIsLocked, Holds
    <3>5. LockingIsLocked'
      BY <2>0, <3>0 DEF IInv, LockingIsLocked, Locking, Entering
    <3>6. HeldExclude'
      BY <2>0, <3>0 DEF IInv, HeldExclude, Running, Holds
    <3>7. LockingExclude'
      BY <2>0, <3>0 DEF IInv, LockingExclude, Locking, Entering, Running, Holds
    <3>8. IntrudedHolds'
      BY <2>0, <3>0, <3>a DEF IInv, IntrudedHolds, Running, Holds
    <3>9. IntrusionIsNoticed'
      BY <2>0, <3>0 DEF IInv, IntrusionIsNoticed
    <3>10. CopiesForked' /\ InheritedForked'
      BY <2>0, <3>0 DEF Enters, IInv, TypeOK, CopiesForked, InheritedForked, Entering
    <3>11. GivenBack'
      <4> SUFFICES ASSUME NEW q \in Processes, q \notin forked', NEW f \in Files, q \in locked'[f]
                   PROVE  Using(q, f)'
        BY DEF GivenBack, Using, Locking, Entering
      <4>1. Using(q, f)
        BY <2>0, <3>0 DEF IInv, GivenBack, Using, Locking, Entering
      <4>2. \A e \in Dirs : Holds(q, e) => Holds(q, e)' /\ owners'[q][e].file = owners[q][e].file
        BY <2>0, <3>0, <3>a DEF IInv, TypeOK, Entries, Holds
      <4> QED
        BY <2>0, <4>1, <4>2 DEF Using, Locking, Entering
    <3> QED
      BY <3>1, <3>2, <3>3, <3>4, <3>5, <3>6, <3>7, <3>8, <3>9, <3>10, <3>11 DEF IInv
  <2>2. CASE ~(owners[p][d].depth > 1)
    <3>0. /\ owners' = [owners EXCEPT ![p] = [owners[p] EXCEPT ![d] = Free]]
          /\ \E left \in {{}, locked[owners[p][d].file] \ {p}} :
               locked' = [locked EXCEPT ![owners[p][d].file] = left]
          /\ intruded' = intruded \ {<<p, d>>}
      BY <1>6, <2>2 DEF Exit
    <3>a. owners[p][d].depth = 1
      BY <2>0, <2>2 DEF Entries
    <3>1. TypeOK'
      <4>1. locked' \in [Files -> SUBSET Processes]
        <5>1. PICK left \in {{}, locked[owners[p][d].file] \ {p}} :
                locked' = [locked EXCEPT ![owners[p][d].file] = left]
          BY <3>0
        <5>2. CASE owners[p][d].file \in Files
          <6>1. left \subseteq Processes
            BY <5>2 DEF IInv, TypeOK
          <6> QED
            BY <5>1, <6>1 DEF IInv, TypeOK
        <5>3. CASE owners[p][d].file \notin Files
          BY <5>1, <5>3 DEF IInv, TypeOK
        <5> QED
          BY <5>2, <5>3
      <4> QED
        BY <2>0, <3>0, <4>1, FreeIsEntry DEF IInv, TypeOK, Entries
    <3>2. RegistryFits'
      BY <2>0, <3>0 DEF IInv, TypeOK, RegistryFits, Running, Entering, Holds, Free
    <3>3. FilesMade'
      BY <2>0, <3>0 DEF IInv, TypeOK, FilesMade, Entering, Free
    <3>4. RegisteredIsLocked'
      BY <2>0, <3>0 DEF IInv, TypeOK, RegisteredIsLocked, Holds, Free, Running, HeldExclude
    <3>5. LockingIsLocked'
      BY <2>0, <3>0
         DEF IInv, LockingIsLocked, RegistryFits, Running, Locking, Entering, LockingExclude,
             Holds
    <3>6. HeldExclude'
      BY <2>0, <3>0 DEF IInv, HeldExclude, Running, Holds, Free
    <3>7. LockingExclude'
      BY <2>0, <3>0
         DEF IInv, TypeOK, LockingExclude, RegistryFits, Locking, Entering, Running, Holds, Free
    <3>8. IntrudedHolds'
      BY <2>0, <3>0 DEF IInv, IntrudedHolds, Running, Holds
    <3>9. IntrusionIsNoticed'
      BY <2>0, <3>0 DEF IInv, IntrusionIsNoticed
    <3>10. CopiesForked' /\ InheritedForked'
      BY <2>0, <3>0 DEF Enters, IInv, TypeOK, CopiesForked, InheritedForked, Entering
    <3>11. GivenBack'
      <4> SUFFICES ASSUME NEW q \in Processes, q \notin forked', NEW f \in Files, q \in locked'[f]
                    PROVE  Using(q, f)'
        BY DEF GivenBack, Using, Locking, Entering
      <4>1. q \in locked[f] /\ q \notin forked => Using(q, f)
        BY DEF IInv, GivenBack, Using, Locking, Entering
      <4> QED
        BY <2>0, <3>0, <4>1 DEF IInv, TypeOK, CopiesForked, Using, Locking, Entering, Holds, Free
    <3> QED
      BY <3>1, <3>2, <3>3, <3>4, <3>5, <3>6, <3>7, <3>8, <3>9, <3>10, <3>11 DEF IInv
  <2> QED
    BY <2>1, <2>2
<1>7. ASSUME NEW p \in Processes, NEW c \in Processes, Fork(p, c) PROVE IInv'
  <2>1. TypeOK'
    <3>1. ASSUME NEW q \in Processes PROVE entering'[q] \in Attempts \union {None}
      <4>1. CASE entering[q] = None
        BY <1>7, <4>1 DEF Fork
      <4>2. CASE entering[q] # None
        <5>1. entering[q] \in Attempts
          BY <4>2 DEF IInv, TypeOK, Attempts
        <5>2. [entering[q] EXCEPT !.shared = @ \union {c}] \in Attempts
          BY <5>1 DEF Attempts
        <5> QED
          BY <1>7, <5>1, <5>2 DEF Fork
      <4> QED
        BY <4>1, <4>2
    <3>2. entering' \in [Processes -> Attempts \union {None}]
      BY <1>7, <3>1 DEF Fork
    <3>3. locked' \in [Files -> SUBSET Processes] /\ owners' \in [Processes -> [Dirs -> Entries]]
      BY <1>7 DEF Fork, IInv, TypeOK, Entries
    <3> QED
      BY <1>7, <3>2, <3>3 DEF Fork, IInv, TypeOK, Attempts, Entries
  <2>2. RegistryFits'
    BY <1>7 DEF Fork, IInv, RegistryFits, Running, Entering, Holds
  <2>3. FilesMade'
    BY <1>7 DEF Fork, IInv, FilesMade, Entering
  <2>4. RegisteredIsLocked'
    BY <1>7 DEF Fork, IInv, TypeOK, RegisteredIsLocked, RegistryFits, Holds
  <2>5. LockingIsLocked'
    BY <1>7 DEF Fork, IInv, TypeOK, LockingIsLocked, Locking, Entering, Attempts
  <2>6. HeldExclude'
    BY <1>7 DEF Fork, IInv, HeldExclude, Running, Holds
  <2>7. LockingExclude'
    BY <1>7 DEF Fork, IInv, LockingExclude, Locking, Entering, Running, Holds
  <2>8. IntrudedHolds'
    BY <1>7 DEF Fork, IInv, IntrudedHolds, Running, Holds
  <2>9. IntrusionIsNoticed'
    BY <1>7 DEF Fork, IInv, IntrusionIsNoticed
  <2>10. CopiesForked' /\ InheritedForked'
    BY <1>7 DEF Fork, Enters, IInv, TypeOK, CopiesForked, InheritedForked, Entering
  <2>11. GivenBack'
    <3> SUFFICES ASSUME NEW q \in Processes, q \notin forked', NEW f \in Files, q \in locked'[f]
                  PROVE  Using(q, f)'
      BY DEF GivenBack, Using, Locking, Entering
    <3>1. q \in locked[f] /\ q \notin forked => Using(q, f)
      BY DEF IInv, GivenBack, Using, Locking, Entering
    <3>2. q # c /\ Using(q, f)
      BY <1>7, <3>1 DEF Fork, IInv, TypeOK
    <3>3. owners'[q] = owners[q]
      BY <1>7, <3>2 DEF Fork, IInv, TypeOK
    <3>4. Locking(q) => Locking(q)' /\ entering'[q].file = entering[q].file
      <4>1. SUFFICES ASSUME Locking(q) PROVE Locking(q)' /\ entering'[q].file = entering[q].file
        OBVIOUS
      <4>2. entering[q] \in Attempts
        BY <4>1 DEF Locking, Entering, IInv, TypeOK, Attempts
      <4>3. [entering[q] EXCEPT !.shared = @ \union {c}] \in Attempts
        BY <4>2 DEF Attempts
      <4>4. entering'[q] \in Attempts /\ entering'[q].locked /\ entering'[q].file = entering[q].file
        BY <1>7, <4>1, <4>2, <4>3 DEF Fork, Attempts, Locking
      <4> QED
        BY <4>4, LockAssumption DEF Locking, Entering
    <3> QED
      BY <3>2, <3>3, <3>4 DEF Using, Holds
  <2> QED
    BY <2>1, <2>2, <2>3, <2>4, <2>5, <2>6, <2>7, <2>8, <2>9, <2>10, <2>11 DEF IInv
<1>8. ASSUME NEW p \in Processes, AfterFork(p) PROVE IInv'
  <2>1. TypeOK'
    BY <1>8, FreeIsEntry DEF AfterFork, IInv, TypeOK, Entries
  <2>2. RegistryFits'
    BY <1>8 DEF AfterFork, IInv, RegistryFits, Running, Entering, Holds, Free
  <2>3. FilesMade'
    BY <1>8 DEF AfterFork, IInv, TypeOK, FilesMade, Entering, Free
  <2>4. RegisteredIsLocked'
    BY <1>8 DEF AfterFork, IInv, TypeOK, RegisteredIsLocked, RegistryFits, Holds, Free
  <2>5. LockingIsLocked'
    <3> SUFFICES ASSUME NEW q \in Processes, Locking(q) PROVE entering[q] = entering'[q] /\ q \in locked'[entering[q].file]
      BY <1>8 DEF AfterFork, LockingIsLocked, Locking, Entering
    <3>1. q # p /\ q \in locked[entering[q].file] /\ entering[q].file \in Files
      BY <1>8 DEF AfterFork, IInv, TypeOK, LockingIsLocked, RegistryFits, Running, Locking, Entering, Attempts
    <3> QED
      BY <1>8, <3>1 DEF AfterFork
  <2>6. HeldExclude'
    BY <1>8 DEF AfterFork, IInv, TypeOK, HeldExclude, Running, Holds, Free
  <2>7. LockingExclude'
    BY <1>8
       DEF AfterFork, IInv, TypeOK, LockingExclude, RegistryFits, Locking, Entering, Running,
           Holds, Free
  <2>8. IntrudedHolds'
    BY <1>8 DEF AfterFork, IInv, IntrudedHolds, Running, Holds
  <2>9. IntrusionIsNoticed'
    BY <1>8 DEF AfterFork, IInv, IntrusionIsNoticed, IntrudedHolds, Running
  <2>10. CopiesForked' /\ InheritedForked'
    BY <1>8 DEF AfterFork, Enters, IInv, TypeOK, CopiesForked, InheritedForked, Entering
  <2>11. GivenBack'
    <3> SUFFICES ASSUME NEW q \in Processes, q \notin forked', NEW f \in Files, q \in locked'[f]
                  PROVE  Using(q, f)'
      BY DEF GivenBack, Using, Locking, Entering
    <3>1. q \in locked[f] /\ q \notin forked => Using(q, f)
      BY DEF IInv, GivenBack, Using, Locking, Entering
    <3>2. q # p /\ q \in locked[f]
      BY <1>8 DEF AfterFork, IInv, TypeOK, InheritedForked
    <3>3. owners'[q] = owners[q] /\ entering' = entering /\ forked' = forked
      BY <1>8, <3>2 DEF AfterFork, IInv, TypeOK
    <3> QED
      BY <3>1, <3>2, <3>3 DEF Using, Holds, Locking, Entering
  <2> QED
    BY <2>1, <2>2, <2>3, <2>4, <2>5, <2>6, <2>7, <2>8, <2>9, <2>10, <2>11 DEF IInv
<1>9. ASSUME NEW p \in Processes, Die(p) PROVE IInv'
  <2>1. TypeOK'
    <3>1. ASSUME NEW q \in Processes PROVE entering'[q] \in Attempts \union {None}
      <4>1. CASE q = p \/ entering[q] = None
        BY <1>9, <4>1 DEF Die
      <4>2. CASE q # p /\ entering[q] # None
        <5>1. entering[q] \in Attempts
          BY <4>2 DEF IInv, TypeOK, Attempts
        <5>2. [entering[q] EXCEPT !.shared = @ \ {p}] \in Attempts
          BY <5>1 DEF Attempts
        <5> QED
          BY <1>9, <4>2, <5>2 DEF Die
      <4> QED
        BY <4>1, <4>2
    <3>2. entering' \in [Processes -> Attempts \union {None}]
      BY <1>9, <3>1 DEF Die
    <3>3. locked' \in [Files -> SUBSET Processes] /\ owners' \in [Processes -> [Dirs -> Entries]]
      BY <1>9, FreeIsEntry DEF Die, IInv, TypeOK, Entries
    <3> QED
      BY <1>9, <3>2, <3>3 DEF Die, IInv, TypeOK, Attempts, Entries
  <2>2. RegistryFits'
    BY <1>9 DEF Die, IInv, TypeOK, RegistryFits, Running, Entering, Holds, Free
  <2>3. FilesMade'
    BY <1>9 DEF Die, IInv, TypeOK, FilesMade, Entering, Free
  <2>4. RegisteredIsLocked'
    BY <1>9 DEF Die, IInv, TypeOK, RegisteredIsLocked, RegistryFits, Holds
  <2>5. LockingIsLocked'
    BY <1>9 DEF Die, IInv, TypeOK, LockingIsLocked, Locking, Entering, Attempts
  <2>6. HeldExclude'
    BY <1>9 DEF Die, IInv, HeldExclude, Running, Holds
  <2>7. LockingExclude'
    BY <1>9 DEF Die, IInv, LockingExclude, Locking, Entering, Running, Holds
  <2>8. IntrudedHolds'
    BY <1>9 DEF Die, IInv, IntrudedHolds, Running, Holds
  <2>9. IntrusionIsNoticed'
    BY <1>9 DEF Die, IInv, IntrusionIsNoticed
  <2>10. CopiesForked' /\ InheritedForked'
    BY <1>9 DEF Die, Enters, IInv, TypeOK, CopiesForked, InheritedForked, Entering
  <2>11. GivenBack'
    <3> SUFFICES ASSUME NEW q \in Processes, q \notin forked', NEW f \in Files, q \in locked'[f]
                  PROVE  Using(q, f)'
      BY DEF GivenBack, Using, Locking, Entering
    <3>1. q \in locked[f] /\ q \notin forked => Using(q, f)
      BY DEF IInv, GivenBack, Using, Locking, Entering
    <3>2. q # p /\ q \in locked[f] /\ q \notin forked
      BY <1>9 DEF Die, IInv, TypeOK
    <3>3. owners'[q] = owners[q]
      BY <1>9, <3>2 DEF Die, IInv, TypeOK
    <3>4. Locking(q) => Locking(q)' /\ entering'[q].file = entering[q].file
      <4>1. SUFFICES ASSUME Locking(q) PROVE Locking(q)' /\ entering'[q].file = entering[q].file
        OBVIOUS
      <4>2. entering[q] \in Attempts
        BY <4>1 DEF Locking, Entering, IInv, TypeOK, Attempts
      <4>3. entering'[q] = [entering[q] EXCEPT !.shared = @ \ {p}] /\ entering'[q] \in Attempts
        BY <1>9, <3>2, <4>1, <4>2 DEF Die, Attempts, Locking, Entering
      <4>4. entering'[q].locked /\ entering'[q].file = entering[q].file
        BY <4>1, <4>2, <4>3 DEF Attempts, Locking
      <4> QED
        BY <4>3, <4>4, LockAssumption DEF Locking, Entering
    <3> QED
      BY <3>1, <3>2, <3>3, <3>4 DEF Using, Holds
  <2> QED
    BY <2>1, <2>2, <2>3, <2>4, <2>5, <2>6, <2>7, <2>8, <2>9, <2>10, <2>11 DEF IInv
<1>10. ASSUME NEW d \in Dirs, Replace(d) PROVE IInv'
  <2>0. files \in Nat /\ files + 1 \in Files /\ file' = [file EXCEPT ![d] = files + 1] /\ files' = files + 1
    BY <1>10, LockAssumption DEF Replace, IInv, TypeOK, Files
  <2>1. TypeOK'
    BY <1>10, <2>0, LockAssumption DEF Replace, IInv, TypeOK
  <2>2. RegistryFits'
    BY <1>10 DEF Replace, IInv, RegistryFits, Running, Entering, Holds
  <2>3. FilesMade'
    <3>1. \A p \in Processes, e \in Dirs : owners[p][e].file \in Nat
      BY LockAssumption DEF IInv, TypeOK, Files
    <3>2. \A p \in Processes : Entering(p) => entering[p].file \in Nat
      BY LockAssumption DEF IInv, TypeOK, Attempts, Files, Entering
    <3> QED
      BY <1>10, <2>0, <3>1, <3>2, LockAssumption
         DEF Replace, IInv, TypeOK, FilesMade, Entering, Files
  <2>4. RegisteredIsLocked'
    BY <1>10 DEF Replace, IInv, RegisteredIsLocked, Holds
  <2>5. LockingIsLocked'
    BY <1>10 DEF Replace, IInv, LockingIsLocked, Locking, Entering
  <2>6. HeldExclude'
    BY <1>10 DEF Replace, IInv, HeldExclude, Running, Holds
  <2>7. LockingExclude'
    BY <1>10 DEF Replace, IInv, LockingExclude, Locking, Entering, Running, Holds
  <2>8. IntrudedHolds'
    BY <1>10 DEF Replace, IInv, IntrudedHolds, Running, Holds
  <2>9. IntrusionIsNoticed'
    BY <1>10 DEF Replace, IInv, TypeOK, IntrusionIsNoticed, FilesMade
  <2>10. CopiesForked' /\ InheritedForked'
    BY <1>10 DEF Replace, Enters, IInv, TypeOK, CopiesForked, InheritedForked, Entering
  <2>11. GivenBack'
    BY <1>10 DEF Replace, Enters, IInv, TypeOK, GivenBack, CopiesForked, Entering, Holds
  <2> QED
    BY <2>1, <2>2, <2>3, <2>4, <2>5, <2>6, <2>7, <2>8, <2>9, <2>10, <2>11 DEF IInv
<1>11. CASE UNCHANGED vars
  BY <1>11
     DEF vars, IInv, TypeOK, RegistryFits, FilesMade, RegisteredIsLocked, LockingIsLocked,
         HeldExclude, LockingExclude, IntrudedHolds, IntrusionIsNoticed, CopiesForked, InheritedForked, GivenBack,
         Running, Locking, Entering, Holds
<1> QED
  BY <1>1, <1>2, <1>3, <1>4, <1>5, <1>6, <1>7, <1>8, <1>9, <1>10, <1>11 DEF Next

\* The argument above holds at every moment of every behaviour.
THEOREM LockInvariant == Spec => []IInv
<1> QED
  BY InitInvariant, StepInvariant, PTL DEF Spec

\* The variables keep their types, however many processes fork, nest and die.
THEOREM TypeCorrect == Spec => []TypeOK
<1>1. IInv => TypeOK
  BY DEF IInv
<1> QED
  BY <1>1, LockInvariant, PTL

\* Whoever the registry of a running process has as an owner has the OS lock: no inner exit, no
\* failed entry and no clean-up of a forked child drops it under an owner.
THEOREM OwnersAreLocked == Spec => []RegisteredIsLocked
<1>1. IInv => RegisteredIsLocked
  BY DEF IInv
<1> QED
  BY <1>1, LockInvariant, PTL

\* A process that nobody forked has no lock but of a folder that it is in or is entering, so that
\* a folder is given back even by an exit whose unlock raises.
THEOREM FoldersAreGivenBack == Spec => []GivenBack
<1>1. IInv => GivenBack
  BY DEF IInv
<1> QED
  BY <1>1, LockInvariant, PTL

\* No two running processes own a folder through the same lock file.
THEOREM OwnersExclude == Spec => []ProcessesExclude
<1>1. IInv => ProcessesExclude
  BY DEF IInv, HeldExclude, ProcessesExclude, Running
<1> QED
  BY <1>1, LockInvariant, PTL

\* An owner into whose folder somebody was let through another lock file finds his own file gone.
THEOREM IntrusionsAreNoticed == Spec => []IntrusionIsNoticed
<1>1. IInv => IntrusionIsNoticed
  BY DEF IInv
<1> QED
  BY <1>1, LockInvariant, PTL

===============================================================================
