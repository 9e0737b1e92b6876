--------------------------- MODULE PaidDispatchProof ---------------------------
(**********************************************************************************)
(* The safety of the ledger, and what PaidDispatch promises about the money, for  *)
(* any calls, executions, workers, amounts, cap and attempts.                     *)
(*                                                                                *)
(* The ledger's invariants are inductive together: LedgerLoads needs the row      *)
(* types, and LostCallStopsSpending needs that every row's owner has been drawn,  *)
(* for a new object must never inherit the rows of a dead one.                    *)
(*                                                                                *)
(* Every step of the dispatch is a step of the ledger or leaves it alone, so that *)
(* invariant carries over; the dispatch's own adds what each place of a worker    *)
(* says of the call's rows in the ledger and the journal, and that what either    *)
(* has as a call's cost is what the provider charged for it.                      *)
(**********************************************************************************)
EXTENDS PaidDispatch, FiniteSetTheorems, TLAPS

-----------------------------------------------------------------------------
(* The ledger *)

\* The strengthening: the ledger is finite and its owners are all drawn.
LedgerFinite == IsFiniteSet(DOMAIN reservations)

OwnersDrawn == \A id \in DOMAIN reservations : reservations[id].owner \in drawn

LedgerIInv == LedgerTypeOK /\ LedgerFinite /\ OwnersDrawn /\ LedgerLoads /\ OneExecutionInFlight

-----------------------------------------------------------------------------
(* What the committed sum does when the rows change *)

\* The units of a finite ledger are finite, so its committed money is a number.
LEMMA UnitsFinite ==
  ASSUME NEW rs, IsFiniteSet(DOMAIN rs)
  PROVE  IsFiniteSet(Units(rs)) /\ Committed(rs) \in Nat
<1>1. IsFiniteSet(1..Cap)
  BY FS_Interval, BudgetAssumption
<1>2. IsFiniteSet((DOMAIN rs) \X (1..Cap))
  BY <1>1, FS_Product
<1>3. Units(rs) \in SUBSET ((DOMAIN rs) \X (1..Cap))
  BY DEF Units
<1>4. IsFiniteSet(Units(rs))
  BY <1>2, <1>3, FS_Subset
<1> QED
  BY <1>4, FS_CardinalityType DEF Committed

\* Adding a row adds exactly what it holds.
LEMMA CommittedAfterAdding ==
  ASSUME NEW rs, IsFiniteSet(DOMAIN rs),
         NEW id, id \notin DOMAIN rs,
         NEW row, Held(row) \in 0..Cap,
         NEW rs2, rs2 = [r \in (DOMAIN rs) \union {id} |-> IF r = id THEN row ELSE rs[r]]
  PROVE  Committed(rs2) = Committed(rs) + Held(row)
<1> DEFINE h == Held(row)
           new == {id} \X (1..h)
<1>0. h \in Nat /\ h <= Cap
  BY BudgetAssumption
<1> HIDE DEF h
<1>1. IsFiniteSet(1..h) /\ Cardinality(1..h) = h
  <2>1. IsFiniteSet(1..h) /\ Cardinality(1..h) = IF 1 > h THEN 0 ELSE h - 1 + 1
    BY <1>0, FS_Interval
  <2> QED
    BY <2>1, <1>0
<1>2. IsFiniteSet({id}) /\ Cardinality({id}) = 1
  BY FS_Singleton
<1>3. IsFiniteSet(new) /\ Cardinality(new) = h
  <2>1. IsFiniteSet(new) /\ Cardinality(new) = Cardinality({id}) * Cardinality(1..h)
    BY <1>1, <1>2, FS_Product
  <2> QED
    BY <1>0, <1>1, <1>2, <2>1
<1>4. Units(rs2) = Units(rs) \union new
  <2>1. \A r \in DOMAIN rs : rs2[r] = rs[r]
    OBVIOUS
  <2>2. rs2[id] = row /\ DOMAIN rs2 = (DOMAIN rs) \union {id}
    OBVIOUS
  <2>3. \A u \in Units(rs2) : u \in Units(rs) \union new
    BY <2>1, <2>2, <1>0, BudgetAssumption DEF Units, h
  <2>4. \A u \in Units(rs) \union new : u \in Units(rs2)
    BY <2>1, <2>2, <1>0, BudgetAssumption DEF Units, h
  <2> QED
    BY <2>3, <2>4
<1>5. Units(rs) \intersect new = {}
  BY DEF Units
<1>6. IsFiniteSet(Units(rs)) /\ Committed(rs) \in Nat
  BY UnitsFinite
<1>7. Cardinality(Units(rs) \intersect new) = 0
  BY <1>5, FS_EmptySet
<1>8. Cardinality(Units(rs2)) = Cardinality(Units(rs)) + Cardinality(new)
                                 - Cardinality(Units(rs) \intersect new)
  BY <1>3, <1>4, <1>6, FS_Union
<1> HIDE DEF new
<1>9. Committed(rs2) = Committed(rs) + h
  BY <1>0, <1>3, <1>6, <1>7, <1>8 DEF Committed
<1> QED
  BY <1>9 DEF h

\* A row that holds no more than before cannot raise the committed sum.
LEMMA CommittedAfterSettling ==
  ASSUME NEW rs, IsFiniteSet(DOMAIN rs),
         NEW rs2, DOMAIN rs2 = DOMAIN rs,
         \A r \in DOMAIN rs : Held(rs[r]) \in Int /\ Held(rs2[r]) \in Int /\ Held(rs2[r]) <= Held(rs[r])
  PROVE  Committed(rs2) <= Committed(rs)
<1>1. Units(rs2) \in SUBSET Units(rs)
  BY BudgetAssumption DEF Units
<1> QED
  BY <1>1, UnitsFinite, FS_Subset DEF Committed

-----------------------------------------------------------------------------
(* The ledger's invariant *)

\* An empty ledger fits every cap.
LEMMA LedgerInitInvariant == LedgerInit => LedgerIInv
<1> SUFFICES ASSUME LedgerInit PROVE LedgerIInv
  OBVIOUS
<1>1. DOMAIN reservations = {} /\ blocked_reason = "none" /\ live = {} /\ drawn = {}
  BY DEF LedgerInit
<1>2. LedgerTypeOK
  BY <1>1 DEF LedgerInit, LedgerTypeOK, Reasons
<1>3. LedgerFinite /\ OwnersDrawn /\ OneExecutionInFlight
  BY <1>1, FS_EmptySet DEF LedgerFinite, OwnersDrawn, OneExecutionInFlight
<1>4. LedgerLoads
  <2>1. Units(reservations) = {}
    BY <1>1 DEF Units
  <2> QED
    BY <1>1, <2>1, FS_EmptySet, BudgetAssumption DEF LedgerLoads, Loads, Committed
<1> QED
  BY <1>2, <1>3, <1>4 DEF LedgerIInv

\* A ledger row of the type holds a natural number.
LEMMA HeldIsNatural ==
  ASSUME NEW rs, rs \in [DOMAIN rs -> Rows], Loads(rs), NEW id \in DOMAIN rs
  PROVE  Held(rs[id]) \in Nat /\ Held(rs[id]) <= rs[id].reserved /\ rs[id].reserved \in Nat
BY BudgetAssumption DEF Rows, Loads, Held

\* A reservation keeps the invariant: the cap was compared with what is committed and the new ceiling.
LEMMA ReserveKeepsLedger ==
  ASSUME LedgerIInv, NEW o \in Owners, NEW id \in Ids, NEW ceiling \in Amounts, Reserve(o, id, ceiling)
  PROVE  LedgerIInv'
<1> DEFINE row == [reserved |-> ceiling, actual |-> NoCost, status |-> "reserved", owner |-> o]
<1> USE DEF LedgerIInv
<1>1. /\ reservations' = [r \in (DOMAIN reservations) \union {id} |->
                            IF r = id THEN row ELSE reservations[r]]
      /\ DOMAIN reservations' = (DOMAIN reservations) \union {id}
      /\ reservations'[id] = row
      /\ \A r \in DOMAIN reservations : reservations'[r] = reservations[r]
  BY DEF Reserve
<1>2. row \in Rows /\ Held(row) = ceiling /\ ceiling \in Nat
  BY BudgetAssumption DEF Rows, Held
<1>3. Committed(reservations) \in Nat /\ Committed(reservations) + ceiling <= Cap
  BY UnitsFinite DEF LedgerFinite, Reserve
<1>4. LedgerTypeOK'
  <2>1. DOMAIN reservations' \subseteq Ids
    BY <1>1 DEF LedgerTypeOK
  <2>2. reservations' \in [DOMAIN reservations' -> Rows]
    BY <1>1, <1>2 DEF LedgerTypeOK
  <2> QED
    BY <2>1, <2>2 DEF LedgerTypeOK, Reserve
<1>5. LedgerFinite'
  BY <1>1, FS_AddElement DEF LedgerFinite
<1>6. OwnersDrawn'
  BY <1>1 DEF OwnersDrawn, Reserve, LedgerTypeOK
<1>7. LedgerLoads'
  <2>1. Held(row) \in 0..Cap
    BY <1>2, <1>3, BudgetAssumption
  <2>2. id \notin DOMAIN reservations /\ IsFiniteSet(DOMAIN reservations)
    BY DEF LedgerFinite, Reserve
  <2> HIDE DEF row
  <2>3. Committed(reservations') = Committed(reservations) + Held(row)
    BY <1>1, <2>1, <2>2, CommittedAfterAdding
  <2>4. Committed(reservations') <= Cap
    BY <1>2, <1>3, <2>3
  <2>5. \A r \in DOMAIN reservations' :
           IF reservations'[r].status = "finalized"
           THEN reservations'[r].actual # NoCost /\ reservations'[r].actual <= reservations'[r].reserved
           ELSE reservations'[r].actual = NoCost
    BY <1>1 DEF LedgerLoads, Loads, row
  <2> QED
    BY <2>4, <2>5 DEF LedgerLoads, Loads
<1>8. OneExecutionInFlight'
  <2>1. \A r \in DOMAIN reservations : InFlight(r) => reservations[r].owner = o
    BY DEF Reserve, Blocked
  <2> QED
    BY <1>1, <2>1 DEF OneExecutionInFlight, InFlight
<1> QED
  BY <1>4, <1>5, <1>6, <1>7, <1>8

\* A settlement keeps it: no row comes to hold more than it held.
LEMMA FinalizeKeepsLedger ==
  ASSUME LedgerIInv, NEW o \in Owners, NEW id \in Ids, NEW actual \in Amounts \union {NoCost},
         NEW reason \in {"none", "cost_status"}, Finalize(o, id, actual, reason)
  PROVE  LedgerIInv'
<1> DEFINE final == FinalReason(id, actual, reason)
<1> USE DEF LedgerIInv
<1>1. /\ DOMAIN reservations' = DOMAIN reservations
      /\ id \in DOMAIN reservations
      /\ InFlight(id)
      /\ \A r \in (DOMAIN reservations) \ {id} : reservations'[r] = reservations[r]
  BY DEF Finalize, Reconcilable
<1>2. reservations[id] \in Rows /\ reservations[id].actual = NoCost
  BY <1>1 DEF LedgerTypeOK, LedgerLoads, Loads, InFlight
<1>3. CASE final # "none"
  <2>1. /\ reservations'[id] = [reservations[id] EXCEPT !.status = "uncertain"]
        /\ blocked_reason' = final
    BY <1>1, <1>3 DEF Finalize, LedgerTypeOK
  <2>2. reservations'[id] \in Rows /\ Held(reservations'[id]) = reservations[id].reserved
        /\ reservations'[id].actual = NoCost /\ reservations'[id].owner = reservations[id].owner
        /\ reservations'[id].status = "uncertain"
    BY <1>2, <2>1 DEF Rows, Held
  <2>3. final \in Reasons
    BY DEF FinalReason, Reasons
  <2>4. LedgerTypeOK'
    <3>1. reservations' \in [DOMAIN reservations' -> Rows]
      BY <1>1, <1>3, <2>2 DEF LedgerTypeOK, Finalize
    <3> QED
      BY <1>1, <2>1, <2>3, <3>1 DEF LedgerTypeOK, Finalize
  <2>5. LedgerFinite' /\ OwnersDrawn'
    BY <1>1, <2>2 DEF LedgerFinite, OwnersDrawn, Finalize
  <2>6. Committed(reservations') <= Committed(reservations)
    <3>1. \A r \in DOMAIN reservations :
             Held(reservations[r]) \in Nat /\ Held(reservations'[r]) = Held(reservations[r])
      BY <1>1, <2>2, HeldIsNatural DEF LedgerTypeOK, LedgerLoads, Held, InFlight
    <3> QED
      BY <1>1, <3>1, CommittedAfterSettling DEF LedgerFinite
  <2>7. LedgerLoads'
    <3>1. Committed(reservations) \in Nat /\ Committed(reservations') \in Nat
      BY <1>1, UnitsFinite DEF LedgerFinite
    <3> QED
      BY <1>1, <2>2, <2>6, <3>1, BudgetAssumption DEF LedgerLoads, Loads
  <2>8. OneExecutionInFlight'
    BY <1>1, <2>2 DEF OneExecutionInFlight, InFlight
  <2> QED
    BY <2>4, <2>5, <2>7, <2>8
<1>4. CASE final = "none"
  <2>1. /\ reservations'[id] = [reservations[id] EXCEPT !.status = "finalized", !.actual = actual]
        /\ blocked_reason' = blocked_reason
    BY <1>1, <1>4 DEF Finalize, LedgerTypeOK
  <2>2. actual \in Amounts /\ actual # NoCost /\ actual <= reservations[id].reserved
    BY <1>2, <1>4, BudgetAssumption DEF FinalReason, Rows
  <2>3. reservations'[id] \in Rows /\ Held(reservations'[id]) = actual
        /\ reservations'[id].actual = actual /\ reservations'[id].owner = reservations[id].owner
        /\ reservations'[id].status = "finalized" /\ reservations'[id].reserved = reservations[id].reserved
    BY <1>2, <2>1, <2>2 DEF Rows, Held
  <2>4. LedgerTypeOK'
    <3>1. reservations' \in [DOMAIN reservations' -> Rows]
      BY <1>1, <1>4, <2>3 DEF LedgerTypeOK, Finalize
    <3> QED
      BY <1>1, <2>1, <3>1 DEF LedgerTypeOK, Finalize
  <2>5. LedgerFinite' /\ OwnersDrawn'
    BY <1>1, <2>3 DEF LedgerFinite, OwnersDrawn, Finalize
  <2>6. Committed(reservations') <= Committed(reservations)
    <3>1. Held(reservations[id]) = reservations[id].reserved
      BY <1>1 DEF Held, InFlight
    <3>2. \A r \in DOMAIN reservations :
             /\ Held(reservations[r]) \in Nat
             /\ Held(reservations'[r]) \in Nat
             /\ Held(reservations'[r]) <= Held(reservations[r])
      BY <1>1, <2>2, <2>3, <3>1, HeldIsNatural, BudgetAssumption DEF LedgerTypeOK, LedgerLoads
    <3> QED
      BY <1>1, <3>2, CommittedAfterSettling DEF LedgerFinite
  <2>7. LedgerLoads'
    <3>1. Committed(reservations) \in Nat /\ Committed(reservations') \in Nat
      BY <1>1, UnitsFinite DEF LedgerFinite
    <3> QED
      BY <1>1, <2>2, <2>3, <2>6, <3>1, BudgetAssumption DEF LedgerLoads, Loads
  <2>8. OneExecutionInFlight'
    BY <1>1, <2>3 DEF OneExecutionInFlight, InFlight
  <2> QED
    BY <2>4, <2>5, <2>7, <2>8
<1> QED
  BY <1>3, <1>4

\* And so does every step.
LEMMA LedgerNextKeepsInvariant == LedgerIInv /\ [LedgerNext]_ledger => LedgerIInv'
<1> SUFFICES ASSUME LedgerIInv, [LedgerNext]_ledger PROVE LedgerIInv'
  OBVIOUS
<1>1. ASSUME NEW o \in Owners, Open(o) PROVE LedgerIInv'
  BY <1>1 DEF LedgerIInv, Open, LedgerTypeOK, LedgerFinite, OwnersDrawn, LedgerLoads, OneExecutionInFlight, InFlight
<1>2. ASSUME NEW o \in Owners, Close(o) PROVE LedgerIInv'
  BY <1>2 DEF LedgerIInv, Close, LedgerTypeOK, LedgerFinite, OwnersDrawn, LedgerLoads, OneExecutionInFlight, InFlight
<1>3. CASE UNCHANGED ledger
  BY <1>3 DEF LedgerIInv, ledger, LedgerTypeOK, LedgerFinite, OwnersDrawn, LedgerLoads, OneExecutionInFlight, InFlight
<1> QED
  BY <1>1, <1>2, <1>3, ReserveKeepsLedger, FinalizeKeepsLedger DEF LedgerNext

\* Whatever executions reserve, settle and lose, the ledger file is finite, typed, of drawn owners,
\* within its cap and in use by one execution at most (budget_reservations.py).
THEOREM LedgerInvariance == LedgerSpec => []LedgerIInv
BY LedgerInitInvariant, LedgerNextKeepsInvariant, PTL DEF LedgerSpec

-----------------------------------------------------------------------------
(* What the runs check of the ledger *)

\* The ledger and the objects over it keep their types.
THEOREM LedgerTypeCorrect == LedgerSpec => []LedgerTypeOK
<1>1. LedgerIInv => LedgerTypeOK
  BY DEF LedgerIInv
<1> QED
  BY <1>1, LedgerInvariance, PTL

\* Whatever executions reserve, finalize, die and reopen, the file always loads:
\* in particular the money committed never exceeds cap_usd.
THEOREM LedgerAlwaysLoads == LedgerSpec => []LedgerLoads
<1>1. LedgerIInv => LedgerLoads
  BY DEF LedgerIInv
<1> QED
  BY <1>1, LedgerInvariance, PTL

\* Two executions never have calls in flight on one ledger at the same time.
THEOREM SingleExecutionInFlight == LedgerSpec => []OneExecutionInFlight
<1>1. LedgerIInv => OneExecutionInFlight
  BY DEF LedgerIInv
<1> QED
  BY <1>1, LedgerInvariance, PTL

\* After a lost or unpriced call no execution ever reserves again.
THEOREM LedgerLostCallStops == LedgerSpec => LostCallStopsSpending
<1>1. LedgerIInv /\ [LedgerNext]_ledger => [Stopped => Stopped' /\ DOMAIN reservations' = DOMAIN reservations]_ledger
  <2> SUFFICES ASSUME LedgerIInv, LedgerNext, Stopped
               PROVE  Stopped' /\ DOMAIN reservations' = DOMAIN reservations
    OBVIOUS
  <2> PICK id \in DOMAIN reservations : Orphaned(id) \/ Uncertain(id)
    BY DEF Stopped
  <2>1. ASSUME NEW o \in Owners, Open(o)
        PROVE  Stopped' /\ DOMAIN reservations' = DOMAIN reservations
    BY <2>1 DEF LedgerIInv, Open, OwnersDrawn, Stopped, Orphaned, Uncertain, InFlight
  <2>2. ASSUME NEW o \in Owners, Close(o)
        PROVE  Stopped' /\ DOMAIN reservations' = DOMAIN reservations
    BY <2>2 DEF Close, Stopped, Orphaned, Uncertain, InFlight
  <2>3. ASSUME NEW o \in Owners, NEW i \in Ids, NEW ceiling \in Amounts, Reserve(o, i, ceiling)
        PROVE  FALSE
    BY <2>3 DEF Reserve, Blocked, Orphaned, Uncertain
  <2>4. ASSUME NEW o \in Owners, NEW i \in Ids, NEW actual \in Amounts \union {NoCost},
               NEW reason \in {"none", "cost_status"}, Finalize(o, i, actual, reason)
        PROVE  Stopped' /\ DOMAIN reservations' = DOMAIN reservations
    <3>1. i # id /\ live' = live /\ DOMAIN reservations' = DOMAIN reservations
      BY <2>4 DEF Finalize, Reconcilable, Orphaned, Uncertain, InFlight
    <3>2. reservations'[id] = reservations[id]
      BY <2>4, <3>1 DEF Finalize
    <3> QED
      BY <3>1, <3>2 DEF Stopped, Orphaned, Uncertain, InFlight
  <2> QED
    BY <2>1, <2>2, <2>3, <2>4 DEF LedgerNext
<1> QED
  BY <1>1, LedgerInvariance, PTL DEF LedgerSpec, LostCallStopsSpending

\* Whatever executions do, settled evidence never changes and no hold is ever removed.
THEOREM SettledRowsNeverChange == LedgerSpec => SettledRowsStand
<1>1. [LedgerNext]_ledger => [/\ DOMAIN reservations \subseteq DOMAIN reservations'
                      /\ \A id \in DOMAIN reservations :
                           ~InFlight(id) => reservations'[id] = reservations[id]]_ledger
  <2> SUFFICES ASSUME LedgerNext
               PROVE  /\ DOMAIN reservations \subseteq DOMAIN reservations'
                      /\ \A id \in DOMAIN reservations :
                           ~InFlight(id) => reservations'[id] = reservations[id]
    OBVIOUS
  <2>1. ASSUME NEW o \in Owners, Open(o) \/ Close(o)
        PROVE  reservations' = reservations
    BY <2>1 DEF Open, Close
  <2>2. ASSUME NEW o \in Owners, NEW i \in Ids, NEW ceiling \in Amounts, Reserve(o, i, ceiling)
        PROVE  /\ DOMAIN reservations \subseteq DOMAIN reservations'
               /\ \A id \in DOMAIN reservations : reservations'[id] = reservations[id]
    BY <2>2 DEF Reserve
  <2>3. ASSUME NEW o \in Owners, NEW i \in Ids, NEW actual \in Amounts \union {NoCost},
               NEW reason \in {"none", "cost_status"}, Finalize(o, i, actual, reason)
        PROVE  /\ DOMAIN reservations' = DOMAIN reservations
               /\ InFlight(i)
               /\ \A id \in (DOMAIN reservations) \ {i} : reservations'[id] = reservations[id]
    BY <2>3 DEF Finalize, Reconcilable
  <2> QED
    BY <2>1, <2>2, <2>3 DEF LedgerNext
<1> QED
  BY <1>1, PTL DEF LedgerSpec, SettledRowsStand

-----------------------------------------------------------------------------
(* The dispatch *)

\* What is known of a call's price is all or nothing.
ChargeOf(id) == IF id \in Dispatched THEN charge[id] ELSE 0
Priced(w)    == answer[w].cost \in {NoCost, ChargeOf(call[w])}

InLedger(w) == hard_budget => call[w] \in DOMAIN reservations
OnHold(w)   == hard_budget => call[w] \in DOMAIN reservations /\ InFlight(call[w])
\* A price that is not known has blocked the ledger.
Unpriced(w) == hard_budget /\ answer[w].cost = NoCost => blocked_reason # "none"

\* The records of a worker's call for each place of the attempt.
PlaceFits(w) ==
  /\ IF pc[w] = "idle" THEN sent[w] = {} ELSE execution # None /\ call[w] \in minted
  /\ pc[w] \in {"checking", "reserving"} =>
       call[w] \notin Begun \union DOMAIN reservations \union Dispatched
  /\ pc[w] = "recording" => call[w] \notin Begun \union Dispatched /\ OnHold(w)
  /\ pc[w] = "begun" => call[w] \in Unfinished \ Dispatched /\ OnHold(w)
  /\ pc[w] = "sent" => call[w] \in Unfinished \cap Dispatched /\ OnHold(w)
  /\ pc[w] \in {"answered", "settled"} => answer[w].outcome # "none"
  /\ pc[w] = "answered" => call[w] \in Begun /\ InLedger(w) /\ Priced(w)
  /\ pc[w] = "settled" =>
       /\ call[w] \in Unfinished /\ InLedger(w) /\ Priced(w) /\ Unpriced(w)
       /\ hard_budget /\ reservations[call[w]].status = "finalized" =>
            reservations[call[w]].actual = answer[w].cost
  /\ pc[w] = "deciding" =>
       /\ call[w] \in Begun \ Unfinished /\ Unpriced(w)
       /\ journal[call[w]].finish.cost = answer[w].cost

PlacesFit == \A w \in Workers : PlaceFits(w)

\* Every id was drawn before it was used, and once.
IdsFresh ==
  /\ Begun \union DOMAIN reservations \union Dispatched \subseteq minted
  /\ \A v, w \in Workers : pc[v] # "idle" /\ pc[w] # "idle" /\ call[v] = call[w] => v = w

\* A cost on record, in the journal or in the ledger, is what was charged.
CostsFit ==
  /\ \A id \in Begun : journal[id].finish.cost \in {NoCost, ChargeOf(id)}
  /\ hard_budget =>
       \A id \in DOMAIN reservations :
         reservations[id].status = "finalized" => reservations[id].actual = ChargeOf(id)

\* What a request has sent before its present attempt has its price.
SentFits ==
  \A w \in Workers :
    /\ sent[w] \subseteq Dispatched
    /\ hard_budget => \A id \in sent[w] : id # call[w] => journal[id].finish.cost # NoCost

\* The begins of past executions, and how the present one knows of those that are lost.
RecoveryFits ==
  /\ execution \notin past
  /\ \A id \in Begun : journal[id].instance \in past \union {execution}
  /\ execution # None => \A id \in Lost : recovered_in_flight
  /\ recovered_in_flight => \A w \in Workers : pc[w] \in {"idle", "checking"}

IInv ==
  /\ TypeOK /\ LedgerIInv
  /\ PlacesFit /\ IdsFresh /\ CostsFit /\ SentFits /\ RecoveryFits
  /\ TracedBeforeSend /\ JournalAgreesWithLedger

-----------------------------------------------------------------------------
(* What the operations on the records do *)

\* An entry is added or replaced, and all others stay.
LEMMA WithIs ==
  ASSUME NEW f, NEW x, NEW y
  PROVE  /\ DOMAIN With(f, x, y) = DOMAIN f \union {x}
         /\ With(f, x, y)[x] = y
         /\ \A z \in DOMAIN f \ {x} : With(f, x, y)[z] = f[z]
BY DEF With

\* A reservation adds a row in flight, and blocks nothing.
LEMMA ReserveIs ==
  ASSUME NEW c, NEW ceiling, Reserve(execution, c, ceiling)
  PROVE  /\ DOMAIN reservations' = DOMAIN reservations \union {c}
         /\ reservations'[c].status = "reserved"
         /\ \A id \in DOMAIN reservations : reservations'[id] = reservations[id]
         /\ ~Blocked(execution)
         /\ UNCHANGED blocked_reason
BY DEF Reserve

\* A settlement ends the hold of its own call, and unblocks nothing.
LEMMA SettleIs ==
  ASSUME TypeOK, NEW w \in Workers, Settle(w)
  PROVE  /\ call[w] \in DOMAIN reservations /\ InFlight(call[w])
         /\ DOMAIN reservations' = DOMAIN reservations
         /\ reservations'[call[w]].status \in {"uncertain", "finalized"}
         /\ reservations'[call[w]].status = "finalized" =>
              answer[w].cost # NoCost /\ reservations'[call[w]].actual = answer[w].cost
         /\ \A id \in DOMAIN reservations \ {call[w]} : reservations'[id] = reservations[id]
         /\ blocked_reason # "none" \/ answer[w].cost = NoCost => blocked_reason' # "none"
<1> DEFINE c == call[w]
           final == FinalReason(c, answer[w].cost,
                                       IF answer[w].cost = NoCost THEN "cost_status" ELSE "none")
<1>1. /\ c \in DOMAIN reservations /\ InFlight(c)
      /\ reservations[c] \in Rows
      /\ IF final # "none"
         THEN /\ reservations' = [reservations EXCEPT ![c].status = "uncertain"]
              /\ blocked_reason' = final
         ELSE /\ reservations' = [reservations EXCEPT ![c] =
                                    [@ EXCEPT !.status = "finalized", !.actual = answer[w].cost]]
              /\ UNCHANGED blocked_reason
  BY DEF Settle, Finalize, Reconcilable, TypeOK, LedgerTypeOK
<1>2. answer[w].cost = NoCost => final # "none"
  BY DEF FinalReason
<1> HIDE DEF final
<1>3. CASE final # "none"
  BY <1>1, <1>3 DEF Rows
<1>4. CASE final = "none"
  <2>1. /\ DOMAIN reservations' = DOMAIN reservations /\ UNCHANGED blocked_reason
        /\ reservations'[c] = [reservations[c] EXCEPT !.status = "finalized", !.actual = answer[w].cost]
        /\ \A id \in DOMAIN reservations \ {c} : reservations'[id] = reservations[id]
    BY <1>1, <1>4
  <2>2. reservations'[c].status = "finalized" /\ reservations'[c].actual = answer[w].cost
    BY <1>1, <2>1 DEF Rows
  <2> QED
    BY <1>1, <1>2, <1>4, <2>1, <2>2
<1> QED
  BY <1>3, <1>4

\* A finish is written to the begin of its own call, with the worker's answer.
LEMMA FinishIs ==
  ASSUME TypeOK, NEW w \in Workers, call[w] \in Begun, answer[w].outcome # "none", Finish(w)
  PROVE  /\ Begun' = Begun /\ journal' \in [Begun -> Events]
         /\ journal'[call[w]].instance = journal[call[w]].instance
         /\ journal'[call[w]].finish.cost = answer[w].cost
         /\ journal'[call[w]].finish.clean = Clean(call[w])
         /\ journal'[call[w]].finish # Pending
         /\ \A id \in Begun \ {call[w]} : journal'[id] = journal[id]
<1> DEFINE new == [outcome |-> answer[w].outcome, cost |-> answer[w].cost, clean |-> Clean(call[w])]
<1>1. journal[call[w]] \in Events /\ answer[w] \in Answers
  BY DEF TypeOK, Begun
<1>2. Clean(call[w]) \in BOOLEAN
  BY DEF Clean
<1>3. new \in Finishes /\ new # Pending
  BY <1>1, <1>2 DEF Answers, Finishes, Pending
<1> HIDE DEF new
<1>4. journal' = [journal EXCEPT ![call[w]].finish = new]
  BY DEF Finish, new
<1>5. new.cost = answer[w].cost /\ new.clean = Clean(call[w])
  BY DEF new
<1> QED
  BY <1>3, <1>4, <1>5 DEF TypeOK, Begun, Events

\* What a worker has when its request is over is in its types.
LEMMA EndRequestIs ==
  ASSUME TypeOK, NEW w \in Workers, EndRequest(w)
  PROVE  /\ pc' \in [Workers -> Places] /\ call' \in [Workers -> Ids \union {None}]
         /\ answer' \in [Workers -> Answers] /\ sent' \in [Workers -> SUBSET Ids]
<1>1. NoAnswer \in Answers /\ "idle" \in Places
  BY DEF NoAnswer, Answers, Places
<1> QED
  BY <1>1 DEF EndRequest, Goto, TypeOK

\* FailFinish spelled out, for the provers.
LEMMA FailFinishIs ==
  ASSUME TypeOK, NEW w \in Workers, FailFinish(w)
  PROVE  /\ pc' \in [Workers -> Places] /\ call' \in [Workers -> Ids \union {None}]
         /\ answer' \in [Workers -> Answers] /\ sent' \in [Workers -> SUBSET Ids]
         /\ persistence_failed' \in BOOLEAN
<1>1. CASE Fail(w)
  BY <1>1, EndRequestIs DEF Fail
<1>2. CASE ~Fail(w)
  <2>1. [outcome |-> "failed", cost |-> NoCost] \in Answers /\ "answered" \in Places
    BY DEF Answers, Places
  <2> QED
    BY <1>2, <2>1 DEF FailFinish, Goto, TypeOK
<1> QED
  BY <1>1, <1>2

-----------------------------------------------------------------------------
(* What the dispatch does to the ledger *)

\* Every step is one of the ledger's own, or none.
LEMMA LedgerStep == TypeOK /\ PlacesFit /\ [Next]_vars => [LedgerNext]_ledger
<1> SUFFICES ASSUME TypeOK, PlacesFit, Next, ~UNCHANGED ledger PROVE LedgerNext
  BY DEF vars
<1>1. ASSUME NEW o \in Owners, Launch(o) PROVE LedgerNext
  BY <1>1 DEF Launch, LedgerNext
<1>2. CASE Crash
  BY <1>2 DEF Crash, LedgerNext, TypeOK
<1>3. ASSUME NEW w \in Workers, NEW ceiling \in Amounts, pc[w] = "reserving",
             Reserve(execution, call[w], ceiling)
      PROVE  LedgerNext
  <2>1. execution \in Owners /\ call[w] \in Ids
    BY <1>3 DEF PlacesFit, PlaceFits, TypeOK
  <2> QED
    BY <1>3, <2>1 DEF LedgerNext
<1>4. ASSUME NEW w \in Workers, pc[w] = "answered", Settle(w) PROVE LedgerNext
  <2> DEFINE reason == IF answer[w].cost = NoCost THEN "cost_status" ELSE "none"
  <2>1. /\ execution \in Owners /\ call[w] \in Ids
        /\ answer[w].cost \in Amounts \union {NoCost} /\ reason \in {"none", "cost_status"}
    BY <1>4 DEF PlacesFit, PlaceFits, TypeOK, Answers
  <2>2. Finalize(execution, call[w], answer[w].cost, reason)
    BY <1>4 DEF Settle
  <2> HIDE DEF reason
  <2> QED
    BY <2>1, <2>2 DEF LedgerNext
<1>5. ASSUME NEW w \in Workers, Progress(w) PROVE LedgerNext
  BY <1>3, <1>4, <1>5
     DEF Progress, CheckFlags, HoldCeiling, ReserveRaises, AppendBegin, AppendBeginRaises, Withhold,
         Send, Answer, FinishRejected, FinalizeLedger, FinalizeRaises, AppendFinish,
         AppendFinishRaises, GiveUp
<1>6. ASSUME NEW w \in Workers, NEW id \in Ids, StartRequest(w, id) \/ Retry(w, id) PROVE LedgerNext
  BY <1>6 DEF StartRequest, Retry
<1> QED
  BY <1>1, <1>2, <1>5, <1>6 DEF Next

-----------------------------------------------------------------------------
(* The invariant *)

\* Nothing is begun, held or spent at first.
LEMMA InitInvariant == Init => IInv
<1> SUFFICES ASSUME Init PROVE IInv
  OBVIOUS
<1>1. LedgerIInv
  BY LedgerInitInvariant DEF Init
<1>2. Begun = {} /\ Dispatched = {} /\ DOMAIN reservations = {}
  BY DEF Init, Begun, Dispatched, LedgerInit
<1>3. TypeOK
  BY DEF Init, LedgerInit, LedgerTypeOK, Reasons, TypeOK, Places, NoAnswer, Answers
<1>4. PlacesFit /\ IdsFresh /\ SentFits
  BY <1>2 DEF Init, PlacesFit, PlaceFits, IdsFresh, SentFits
<1>5. CostsFit /\ RecoveryFits /\ TracedBeforeSend /\ JournalAgreesWithLedger
  BY <1>2 DEF Init, CostsFit, RecoveryFits, TracedBeforeSend, JournalAgreesWithLedger
<1> QED
  BY <1>1, <1>3, <1>4, <1>5 DEF IInv

\* One step per action, and under it one per part that the action can disturb.
LEMMA StepInvariant == IInv /\ [Next]_vars => IInv'
<1> SUFFICES ASSUME IInv, [Next]_vars PROVE IInv'
  OBVIOUS
<1>0. TypeOK
  BY DEF IInv
<1>a. LedgerIInv'
  BY LedgerStep, LedgerNextKeepsInvariant DEF IInv
<1>b. LedgerTypeOK'
  BY <1>a DEF LedgerIInv
<1>1. ASSUME NEW o \in Owners, Launch(o) PROVE IInv'
  <2>1. TypeOK'
    BY <1>0, <1>1, <1>b DEF Launch, worker, TypeOK
  <2>2. PlacesFit'
    BY <1>1 DEF Launch, worker, IInv, PlacesFit, PlaceFits
  <2>3. RecoveryFits'
    <3>1. \A id \in Begun : journal[id].instance \in past
      BY <1>1, DispatchAssumption DEF Launch, IInv, RecoveryFits, TypeOK, Begun, Events
    <3>2. \A id \in Lost' : recovered_in_flight'
      BY <1>1 DEF Launch, Lost, Unfinished, Begun
    <3>3. \A v \in Workers : pc'[v] = "idle"
      BY <1>1 DEF Launch, worker, IInv, PlacesFit, PlaceFits
    <3> QED
      BY <1>1, <3>1, <3>2, <3>3 DEF Launch, RecoveryFits, Begun
  <2>4. IdsFresh' /\ CostsFit' /\ SentFits' /\ TracedBeforeSend' /\ JournalAgreesWithLedger'
    BY <1>1
       DEF Launch, ledger, worker, Open, IInv, IdsFresh, CostsFit, SentFits,
           TracedBeforeSend, JournalAgreesWithLedger, Begun, Dispatched, ChargeOf
  <2> QED
    BY <1>a, <2>1, <2>2, <2>3, <2>4 DEF IInv
<1>2. CASE Crash
  <2>1. TypeOK'
    BY <1>0, <1>2, <1>b DEF Crash, TypeOK, Places, Answers, NoAnswer
  <2>2. IdsFresh'
    BY <1>2 DEF Crash, ledger, Close, IInv, IdsFresh, Begun, Dispatched
  <2>3. PlacesFit'
    BY <1>2 DEF Crash, PlacesFit, PlaceFits
  <2>4. SentFits'
    BY <1>2 DEF Crash, SentFits
  <2>5. RecoveryFits'
    BY <1>2, DispatchAssumption DEF Crash, IInv, RecoveryFits, Begun, TypeOK
  <2>6. CostsFit' /\ TracedBeforeSend' /\ JournalAgreesWithLedger'
    BY <1>2
       DEF Crash, Close, IInv, CostsFit, TracedBeforeSend, JournalAgreesWithLedger, Begun,
           Dispatched, ChargeOf
  <2> QED
    BY <1>a, <2>1, <2>2, <2>3, <2>4, <2>5, <2>6 DEF IInv
<1>3. ASSUME NEW w \in Workers, NEW id \in Ids, StartRequest(w, id) PROVE IInv'
  <2>1. TypeOK'
    BY <1>0, <1>3, <1>b
       DEF StartRequest, Enter, Goto, accountant, TypeOK, Places, Answers, NoAnswer
  <2>2. IdsFresh'
    BY <1>3
       DEF StartRequest, Enter, Goto, ledger, IInv, IdsFresh, TypeOK, PlacesFit, PlaceFits, Begun,
           Dispatched
  <2>3. PlacesFit'
    BY <1>3
       DEF StartRequest, Enter, Goto, ledger, accountant, IInv, PlacesFit, PlaceFits, IdsFresh,
           TypeOK, Begun, Unfinished, Dispatched, Priced, ChargeOf, InLedger, OnHold, Unpriced,
           InFlight
  <2>4. SentFits'
    BY <1>3 DEF StartRequest, Enter, accountant, IInv, SentFits, PlacesFit, PlaceFits, Dispatched
  <2>5. RecoveryFits'
    BY <1>3 DEF StartRequest, Enter, Goto, accountant, IInv, RecoveryFits, Lost, Unfinished, Begun
  <2>6. CostsFit' /\ TracedBeforeSend' /\ JournalAgreesWithLedger'
    BY <1>3
       DEF StartRequest, ledger, accountant, IInv, CostsFit, TracedBeforeSend,
           JournalAgreesWithLedger, Begun, Dispatched, ChargeOf
  <2> QED
    BY <1>a, <2>1, <2>2, <2>3, <2>4, <2>5, <2>6 DEF IInv
<1>4. ASSUME NEW w \in Workers, CheckFlags(w) PROVE IInv'
  <2>1. TypeOK'
    BY <1>0, <1>4, <1>b, EndRequestIs DEF CheckFlags, accountant, Goto, TypeOK, Places
  <2>2. IdsFresh'
    BY <1>4 DEF CheckFlags, ledger, EndRequest, Goto, IInv, IdsFresh, TypeOK, Begun, Dispatched
  <2>3. PlacesFit'
    BY <1>4
       DEF CheckFlags, ledger, accountant, EndRequest, Goto, IInv, PlacesFit, PlaceFits, TypeOK,
           Begun, Unfinished, Dispatched, Priced, ChargeOf, InLedger, OnHold, Unpriced,
           InFlight
  <2>4. SentFits'
    BY <1>4 DEF CheckFlags, accountant, EndRequest, IInv, SentFits, TypeOK, Dispatched
  <2>5. RecoveryFits'
    BY <1>4
       DEF CheckFlags, accountant, EndRequest, Goto, IInv, RecoveryFits, Lost, Unfinished, Begun,
           TypeOK
  <2>6. CostsFit' /\ TracedBeforeSend' /\ JournalAgreesWithLedger'
    BY <1>4
       DEF CheckFlags, ledger, accountant, IInv, CostsFit, TracedBeforeSend,
           JournalAgreesWithLedger, Begun, Dispatched, ChargeOf
  <2> QED
    BY <1>a, <2>1, <2>2, <2>3, <2>4, <2>5, <2>6 DEF IInv
<1>5. ASSUME NEW w \in Workers, HoldCeiling(w) PROVE IInv'
  <2>0. /\ DOMAIN reservations' = DOMAIN reservations \union {call[w]}
        /\ reservations'[call[w]].status = "reserved"
        /\ \A id \in DOMAIN reservations : reservations'[id] = reservations[id]
        /\ UNCHANGED blocked_reason
    BY <1>5, ReserveIs DEF HoldCeiling
  <2>1. TypeOK'
    BY <1>0, <1>5, <1>b DEF HoldCeiling, Goto, accountant, TypeOK, Places
  <2>2. IdsFresh'
    BY <1>5, <2>0 DEF HoldCeiling, Goto, IInv, IdsFresh, PlacesFit, PlaceFits, Begun, Dispatched
  <2>3. PlacesFit'
    BY <1>5, <2>0
       DEF HoldCeiling, Goto, accountant, IInv, PlacesFit, PlaceFits, IdsFresh, TypeOK, Begun,
           Unfinished, Dispatched, Priced, ChargeOf, InLedger, OnHold, Unpriced, InFlight
  <2>4. CostsFit'
    BY <1>5, <2>0 DEF HoldCeiling, accountant, IInv, CostsFit, ChargeOf, Begun, Dispatched
  <2>5. SentFits'
    BY <1>5 DEF HoldCeiling, accountant, IInv, SentFits, Dispatched
  <2>6. RecoveryFits'
    BY <1>5 DEF HoldCeiling, accountant, IInv, RecoveryFits, Lost, Unfinished, Begun
  <2>7. TracedBeforeSend'
    BY <1>5, <2>0 DEF HoldCeiling, accountant, IInv, TracedBeforeSend, Begun, Dispatched
  <2>8. JournalAgreesWithLedger'
    BY <1>5, <2>0 DEF HoldCeiling, accountant, IInv, JournalAgreesWithLedger, Begun
  <2> QED
    BY <1>a, <2>1, <2>2, <2>3, <2>4, <2>5, <2>6, <2>7, <2>8 DEF IInv
<1>6. ASSUME NEW w \in Workers, ReserveRaises(w) PROVE IInv'
  <2>0. /\ DOMAIN reservations \subseteq DOMAIN reservations'
        /\ DOMAIN reservations' \subseteq DOMAIN reservations \union {call[w]}
        /\ call[w] \in DOMAIN reservations' => reservations'[call[w]].status = "reserved"
        /\ \A id \in DOMAIN reservations : reservations'[id] = reservations[id]
        /\ UNCHANGED blocked_reason
    <3>1. CASE UNCHANGED ledger
      BY <1>6, <3>1 DEF ReserveRaises, ledger, IInv, PlacesFit, PlaceFits
    <3>2. CASE \E ceiling \in Amounts : Reserve(execution, call[w], ceiling)
      BY <3>2, ReserveIs
    <3> QED
      BY <1>6, <3>1, <3>2 DEF ReserveRaises
  <2>1. TypeOK'
    BY <1>0, <1>6, <1>b, EndRequestIs DEF ReserveRaises, accountant, TypeOK
  <2>2. IdsFresh'
    BY <1>6, <2>0
       DEF ReserveRaises, EndRequest, Goto, IInv, IdsFresh, TypeOK, PlacesFit, PlaceFits, Begun,
           Dispatched
  <2>3. PlacesFit'
    BY <1>6, <2>0
       DEF ReserveRaises, accountant, EndRequest, Goto, IInv, PlacesFit, PlaceFits, IdsFresh,
           TypeOK, Begun, Unfinished, Dispatched, Priced, ChargeOf, InLedger, OnHold, Unpriced,
           InFlight
  <2>4. CostsFit'
    BY <1>6, <2>0 DEF ReserveRaises, accountant, IInv, CostsFit, ChargeOf, Begun, Dispatched
  <2>5. SentFits'
    BY <1>6
       DEF ReserveRaises, accountant, EndRequest, IInv, SentFits, PlacesFit, PlaceFits, Dispatched
  <2>6. RecoveryFits'
    BY <1>6 DEF ReserveRaises, accountant, IInv, RecoveryFits, Lost, Unfinished, Begun
  <2>7. TracedBeforeSend'
    BY <1>6, <2>0 DEF ReserveRaises, accountant, IInv, TracedBeforeSend, Begun, Dispatched
  <2>8. JournalAgreesWithLedger'
    BY <1>6, <2>0 DEF ReserveRaises, accountant, IInv, JournalAgreesWithLedger, Begun
  <2> QED
    BY <1>a, <2>1, <2>2, <2>3, <2>4, <2>5, <2>6, <2>7, <2>8 DEF IInv
<1>7. ASSUME NEW w \in Workers, AppendBegin(w) PROVE IInv'
  <2>0. /\ Begun' = Begun \union {call[w]}
        /\ journal'[call[w]] = [instance |-> execution, finish |-> Pending]
        /\ \A id \in Begun : journal'[id] = journal[id]
        /\ Begun' \subseteq Ids /\ journal' \in [Begun' -> Events]
    <3> DEFINE begin == [instance |-> execution, finish |-> Pending]
    <3>1. call[w] \in Ids \ Begun /\ execution \in Owners
      BY <1>7 DEF AppendBegin, IInv, PlacesFit, PlaceFits, TypeOK
    <3>2. begin \in Events
      BY <3>1 DEF Events
    <3>3. journal' = With(journal, call[w], begin)
      BY <1>7 DEF AppendBegin, Begin
    <3> HIDE DEF begin
    <3>4. Begun' = Begun \union {call[w]} /\ journal'[call[w]] = begin /\ \A id \in Begun : journal'[id] = journal[id]
      BY <3>1, <3>3 DEF Begun, With
    <3>5. Begun' \subseteq Ids /\ journal' \in [Begun' -> Events]
      BY <1>0, <3>1, <3>2, <3>3 DEF Begun, TypeOK, With
    <3> QED
      BY <3>4, <3>5 DEF begin
  <2>1. TypeOK'
    BY <1>0, <1>7, <2>0, <1>b DEF AppendBegin, Goto, accountant, TypeOK, Places
  <2>2. IdsFresh'
    BY <1>7, <2>0 DEF AppendBegin, Goto, ledger, IInv, IdsFresh, PlacesFit, PlaceFits, Dispatched
  <2>3. PlacesFit'
    BY <1>7, <2>0
       DEF AppendBegin, Goto, ledger, accountant, IInv, PlacesFit, PlaceFits, IdsFresh, TypeOK,
           Unfinished, Dispatched, Priced, ChargeOf, InLedger, OnHold, Unpriced, InFlight,
           CostsFit
  <2>4. CostsFit'
    BY <1>7, <2>0
       DEF AppendBegin, ledger, accountant, IInv, CostsFit, ChargeOf, Dispatched, Pending
  <2>5. SentFits'
    BY <1>7, <2>0 DEF AppendBegin, accountant, IInv, SentFits, TracedBeforeSend, Dispatched
  <2>6. RecoveryFits'
    BY <1>7, <2>0 DEF AppendBegin, accountant, IInv, RecoveryFits, Lost, Unfinished
  <2>7. TracedBeforeSend'
    BY <1>7, <2>0 DEF AppendBegin, ledger, accountant, IInv, TracedBeforeSend, Dispatched
  <2>8. JournalAgreesWithLedger'
    BY <1>7, <2>0 DEF AppendBegin, ledger, accountant, IInv, JournalAgreesWithLedger, Pending
  <2> QED
    BY <1>a, <2>1, <2>2, <2>3, <2>4, <2>5, <2>6, <2>7, <2>8 DEF IInv
<1>8. ASSUME NEW w \in Workers, AppendBeginRaises(w) PROVE IInv'
  <2>0. /\ Begun \subseteq Begun' /\ Begun' \subseteq Begun \union {call[w]}
        /\ call[w] \in Begun' => journal'[call[w]] = [instance |-> execution, finish |-> Pending]
        /\ \A id \in Begun : journal'[id] = journal[id]
        /\ Begun' \subseteq Ids /\ journal' \in [Begun' -> Events]
    <3> DEFINE begin == [instance |-> execution, finish |-> Pending]
    <3>1. call[w] \in Ids \ Begun /\ execution \in Owners
      BY <1>8 DEF AppendBeginRaises, IInv, PlacesFit, PlaceFits, TypeOK
    <3>2. begin \in Events
      BY <3>1 DEF Events
    <3>3. CASE journal' = With(journal, call[w], begin)
      BY <1>0, <3>1, <3>2, <3>3 DEF Begun, TypeOK, With
    <3>4. CASE UNCHANGED journal
      BY <1>0, <3>1, <3>4 DEF Begun, TypeOK
    <3> QED
      BY <1>8, <3>3, <3>4 DEF AppendBeginRaises, Begin
  <2>1. TypeOK'
    BY <1>0, <1>8, <2>0, <1>b, EndRequestIs DEF AppendBeginRaises, Fail, TypeOK
  <2>2. IdsFresh'
    BY <1>8, <2>0
       DEF AppendBeginRaises, ledger, Fail, EndRequest, Goto, IInv, IdsFresh, TypeOK, PlacesFit,
           PlaceFits, Dispatched
  <2>3. PlacesFit'
    BY <1>8, <2>0
       DEF AppendBeginRaises, ledger, Fail, EndRequest, Goto, IInv, PlacesFit, PlaceFits, IdsFresh,
           TypeOK, Begun, Unfinished, Dispatched, Priced, ChargeOf, InLedger, OnHold, Unpriced,
           NoAnswer, InFlight, CostsFit
  <2>4. CostsFit'
    BY <1>8, <2>0 DEF AppendBeginRaises, ledger, IInv, CostsFit, ChargeOf, Dispatched, Pending
  <2>5. SentFits'
    BY <1>8, <2>0
       DEF AppendBeginRaises, Fail, EndRequest, IInv, SentFits, TracedBeforeSend, PlacesFit,
           PlaceFits, Dispatched
  <2>6. RecoveryFits'
    BY <1>8, <2>0 DEF AppendBeginRaises, IInv, RecoveryFits, Lost, Unfinished
  <2>7. TracedBeforeSend'
    BY <1>8, <2>0 DEF AppendBeginRaises, ledger, IInv, TracedBeforeSend, Dispatched
  <2>8. JournalAgreesWithLedger'
    BY <1>8, <2>0 DEF AppendBeginRaises, ledger, IInv, JournalAgreesWithLedger, Pending
  <2> QED
    BY <1>a, <2>1, <2>2, <2>3, <2>4, <2>5, <2>6, <2>7, <2>8 DEF IInv
<1>9. ASSUME NEW w \in Workers, Withhold(w) PROVE IInv'
  <2>1. TypeOK'
    BY <1>0, <1>9, <1>b, DispatchAssumption
       DEF Withhold, Goto, accountant, TypeOK, Places, Answers
  <2>2. IdsFresh'
    BY <1>9 DEF Withhold, Goto, ledger, IInv, IdsFresh, Begun, Dispatched
  <2>3. PlacesFit'
    BY <1>9, DispatchAssumption
       DEF Withhold, Goto, ledger, accountant, IInv, PlacesFit, PlaceFits, TypeOK, Begun,
           Unfinished, Dispatched, Priced, ChargeOf, InLedger, OnHold, Unpriced, InFlight
  <2>4. SentFits'
    BY <1>9 DEF Withhold, accountant, IInv, SentFits, Dispatched
  <2>5. RecoveryFits'
    BY <1>9 DEF Withhold, accountant, IInv, RecoveryFits, Lost, Unfinished, Begun
  <2>6. CostsFit' /\ TracedBeforeSend' /\ JournalAgreesWithLedger'
    BY <1>9
       DEF Withhold, ledger, accountant, IInv, CostsFit, TracedBeforeSend, JournalAgreesWithLedger,
           Begun, Dispatched, ChargeOf
  <2> QED
    BY <1>a, <2>1, <2>2, <2>3, <2>4, <2>5, <2>6 DEF IInv
<1>10. ASSUME NEW w \in Workers, Send(w) PROVE IInv'
  <2>0. /\ Dispatched' = Dispatched \union {call[w]}
        /\ \A id \in Dispatched \ {call[w]} : charge'[id] = charge[id]
        /\ Dispatched' \subseteq Ids /\ charge' \in [Dispatched' -> Amounts]
    <3>1. PICK amount \in Amounts : charge' = With(charge, call[w], amount)
      BY <1>10 DEF Send
    <3>2. call[w] \in Ids
      BY <1>10 DEF Send, IInv, PlacesFit, PlaceFits, TypeOK
    <3> QED
      BY <1>0, <3>1, <3>2 DEF Dispatched, TypeOK, With
  <2>1. TypeOK'
    BY <1>0, <1>10, <2>0, <1>b DEF Send, Goto, accountant, TypeOK, Places
  <2>2. IdsFresh'
    BY <1>10, <2>0 DEF Send, Goto, ledger, IInv, IdsFresh, PlacesFit, PlaceFits, Begun
  <2>3. PlacesFit'
    BY <1>10, <2>0
       DEF Send, Goto, ledger, accountant, IInv, PlacesFit, PlaceFits, IdsFresh, TypeOK, Begun,
           Unfinished, Priced, ChargeOf, InLedger, OnHold, Unpriced, InFlight
  <2>4. CostsFit'
    BY <1>10, <2>0
       DEF Send, ledger, accountant, IInv, CostsFit, ChargeOf, PlacesFit, PlaceFits, OnHold, Begun,
           Unfinished, InFlight, Pending
  <2>5. SentFits'
    BY <1>10, <2>0 DEF Send, accountant, IInv, SentFits
  <2>6. RecoveryFits'
    BY <1>10 DEF Send, accountant, IInv, RecoveryFits, Lost, Unfinished, Begun
  <2>7. TracedBeforeSend'
    BY <1>10, <2>0
       DEF Send, ledger, accountant, IInv, TracedBeforeSend, PlacesFit, PlaceFits, OnHold,
           Unfinished, Begun
  <2>8. JournalAgreesWithLedger'
    BY <1>10 DEF Send, ledger, accountant, IInv, JournalAgreesWithLedger, Begun
  <2> QED
    BY <1>a, <2>1, <2>2, <2>3, <2>4, <2>5, <2>6, <2>7, <2>8 DEF IInv
<1>11. ASSUME NEW w \in Workers, Answer(w) PROVE IInv'
  <2>1. TypeOK'
    BY <1>11, <1>b
       DEF Answer, Goto, accountant, IInv, TypeOK, Places, Answers, Dispatched, PlacesFit,
           PlaceFits
  <2>2. IdsFresh'
    BY <1>11 DEF Answer, Goto, ledger, IInv, IdsFresh, Begun, Dispatched
  <2>3. PlacesFit'
    BY <1>11
       DEF Answer, Goto, ledger, accountant, IInv, PlacesFit, PlaceFits, TypeOK, Begun, Unfinished,
           Dispatched, Priced, ChargeOf, InLedger, OnHold, Unpriced, InFlight
  <2>4. SentFits'
    BY <1>11 DEF Answer, accountant, IInv, SentFits, Dispatched
  <2>5. RecoveryFits'
    BY <1>11 DEF Answer, accountant, IInv, RecoveryFits, Lost, Unfinished, Begun
  <2>6. CostsFit' /\ TracedBeforeSend' /\ JournalAgreesWithLedger'
    BY <1>11
       DEF Answer, ledger, accountant, IInv, CostsFit, TracedBeforeSend, JournalAgreesWithLedger,
           Begun, Dispatched, ChargeOf
  <2> QED
    BY <1>a, <2>1, <2>2, <2>3, <2>4, <2>5, <2>6 DEF IInv
<1>12. ASSUME NEW w \in Workers, FinishRejected(w) PROVE IInv'
  <2>1. TypeOK'
    BY <1>0, <1>12, <1>b, FailFinishIs DEF FinishRejected, TypeOK
  <2>2. IdsFresh'
    BY <1>12
       DEF FinishRejected, ledger, FailFinish, Fail, EndRequest, Goto, IInv, IdsFresh, TypeOK,
           Begun, Dispatched
  <2>3. PlacesFit'
    BY <1>12
       DEF FinishRejected, ledger, FailFinish, Fail, EndRequest, Goto, IInv, PlacesFit, PlaceFits,
           TypeOK, Begun, Unfinished, Dispatched, Priced, ChargeOf, InLedger, OnHold, Unpriced,
           NoAnswer, InFlight
  <2>4. SentFits'
    BY <1>12 DEF FinishRejected, FailFinish, Fail, EndRequest, IInv, SentFits, TypeOK, Dispatched
  <2>5. RecoveryFits'
    BY <1>12 DEF FinishRejected, IInv, RecoveryFits, Lost, Unfinished, Begun
  <2>6. CostsFit' /\ TracedBeforeSend' /\ JournalAgreesWithLedger'
    BY <1>12
       DEF FinishRejected, ledger, IInv, CostsFit, TracedBeforeSend, JournalAgreesWithLedger,
           Begun, Dispatched, ChargeOf
  <2> QED
    BY <1>a, <2>1, <2>2, <2>3, <2>4, <2>5, <2>6 DEF IInv
<1>13. ASSUME NEW w \in Workers, FinalizeLedger(w) PROVE IInv'
  <2>0. /\ call[w] \in DOMAIN reservations /\ InFlight(call[w])
        /\ DOMAIN reservations' = DOMAIN reservations
        /\ reservations'[call[w]].status = "finalized" =>
             answer[w].cost # NoCost /\ reservations'[call[w]].actual = answer[w].cost
        /\ blocked_reason # "none" \/ answer[w].cost = NoCost => blocked_reason' # "none"
        /\ \A id \in DOMAIN reservations \ {call[w]} : reservations'[id] = reservations[id]
    BY <1>0, <1>13, SettleIs DEF FinalizeLedger
  <2>1. TypeOK'
    BY <1>0, <1>13, <1>b DEF FinalizeLedger, Goto, TypeOK, Places
  <2>2. IdsFresh'
    BY <1>13, <2>0 DEF FinalizeLedger, Goto, IInv, IdsFresh, Begun, Dispatched
  <2>3. PlacesFit'
    BY <1>13, <2>0
       DEF FinalizeLedger, Goto, IInv, PlacesFit, PlaceFits, IdsFresh, Begun, Unfinished,
           Dispatched, Priced, ChargeOf, InLedger, OnHold, Unpriced, InFlight
  <2>4. CostsFit'
    BY <1>13, <2>0
       DEF FinalizeLedger, IInv, CostsFit, ChargeOf, PlacesFit, PlaceFits, Priced, Begun,
           Dispatched
  <2>5. SentFits'
    BY <1>13 DEF FinalizeLedger, IInv, SentFits, Dispatched
  <2>6. RecoveryFits'
    BY <1>13 DEF FinalizeLedger, IInv, RecoveryFits, Lost, Unfinished, Begun
  <2>7. TracedBeforeSend'
    BY <1>13, <2>0 DEF FinalizeLedger, IInv, TracedBeforeSend, Begun, Dispatched
  <2>8. JournalAgreesWithLedger'
    BY <1>13, <2>0 DEF FinalizeLedger, IInv, JournalAgreesWithLedger, InFlight, Begun
  <2> QED
    BY <1>a, <2>1, <2>2, <2>3, <2>4, <2>5, <2>6, <2>7, <2>8 DEF IInv
<1>14. ASSUME NEW w \in Workers, FinalizeRaises(w) PROVE IInv'
  <2>0. /\ call[w] \in DOMAIN reservations /\ DOMAIN reservations' = DOMAIN reservations
        /\ \/ reservations'[call[w]] = reservations[call[w]]
           \/ /\ InFlight(call[w])
              /\ reservations'[call[w]].status = "finalized" =>
                   answer[w].cost # NoCost /\ reservations'[call[w]].actual = answer[w].cost
        /\ \A id \in DOMAIN reservations \ {call[w]} : reservations'[id] = reservations[id]
        /\ blocked_reason # "none" => blocked_reason' # "none"
    <3>1. CASE UNCHANGED ledger
      BY <1>14, <3>1 DEF FinalizeRaises, ledger, IInv, PlacesFit, PlaceFits, InLedger
    <3>2. CASE Settle(w)
      BY <1>0, <3>2, SettleIs
    <3> QED
      BY <1>14, <3>1, <3>2 DEF FinalizeRaises
  <2>1. TypeOK'
    BY <1>0, <1>14, <1>b, FailFinishIs DEF FinalizeRaises, TypeOK
  <2>2. IdsFresh'
    BY <1>14, <2>0
       DEF FinalizeRaises, FailFinish, Fail, EndRequest, Goto, IInv, IdsFresh, TypeOK, Begun,
           Dispatched
  <2>3. PlacesFit'
    BY <1>14, <2>0
       DEF FinalizeRaises, FailFinish, Fail, EndRequest, Goto, IInv, PlacesFit, PlaceFits,
           IdsFresh, TypeOK, Begun, Unfinished, Dispatched, Priced, ChargeOf, InLedger, OnHold,
           Unpriced, InFlight, CostsFit
  <2>4. CostsFit'
    BY <1>14, <2>0
       DEF FinalizeRaises, IInv, CostsFit, ChargeOf, PlacesFit, PlaceFits, Priced, Begun,
           Dispatched
  <2>5. SentFits'
    BY <1>14 DEF FinalizeRaises, FailFinish, Fail, EndRequest, IInv, SentFits, TypeOK, Dispatched
  <2>6. RecoveryFits'
    BY <1>14 DEF FinalizeRaises, IInv, RecoveryFits, Lost, Unfinished, Begun
  <2>7. TracedBeforeSend'
    BY <1>14, <2>0 DEF FinalizeRaises, IInv, TracedBeforeSend, Begun, Dispatched
  <2>8. JournalAgreesWithLedger'
    BY <1>14, <2>0 DEF FinalizeRaises, IInv, JournalAgreesWithLedger, InFlight, Begun
  <2> QED
    BY <1>a, <2>1, <2>2, <2>3, <2>4, <2>5, <2>6, <2>7, <2>8 DEF IInv
<1>15. ASSUME NEW w \in Workers, AppendFinish(w) PROVE IInv'
  <2>0. /\ call[w] \in Begun /\ Begun' = Begun /\ journal' \in [Begun -> Events]
        /\ journal'[call[w]].instance = journal[call[w]].instance
        /\ journal'[call[w]].finish.cost = answer[w].cost
        /\ journal'[call[w]].finish.clean = Clean(call[w])
        /\ journal'[call[w]].finish # Pending
        /\ \A id \in Begun \ {call[w]} : journal'[id] = journal[id]
    <3>1. call[w] \in Begun /\ answer[w].outcome # "none"
      BY <1>15 DEF AppendFinish, Recordable, IInv, PlacesFit, PlaceFits, Unfinished
    <3> QED
      BY <1>0, <1>15, <3>1, FinishIs DEF AppendFinish
  <2>1. TypeOK'
    BY <1>0, <1>15, <2>0, <1>b, EndRequestIs
       DEF AppendFinish, accountant, Goto, TypeOK, Places, Begun
  <2>2. IdsFresh'
    BY <1>15, <2>0
       DEF AppendFinish, Recordable, ledger, EndRequest, Goto, IInv, IdsFresh, TypeOK, Dispatched
  <2>3. PlacesFit'
    BY <1>15, <2>0, DispatchAssumption
       DEF AppendFinish, Recordable, ledger, accountant, EndRequest, Goto, IInv, PlacesFit,
           PlaceFits, IdsFresh, TypeOK, Unfinished, Dispatched, Priced, ChargeOf, InLedger, OnHold,
           Unpriced, NoAnswer, InFlight, CostsFit
  <2>4. CostsFit'
    BY <1>15, <2>0
       DEF AppendFinish, Recordable, ledger, accountant, IInv, CostsFit, ChargeOf, PlacesFit,
           PlaceFits, Priced, Dispatched, InFlight
  <2>5. SentFits'
    <3>1. /\ sent' \in {sent, [sent EXCEPT ![w] = {}]} /\ UNCHANGED <<hard_budget, Dispatched>>
          /\ \A v \in Workers : sent'[v] # {} => call'[v] = call[v]
      BY <1>15, <1>0 DEF AppendFinish, EndRequest, accountant, ledger, IInv, TypeOK, Dispatched
    <3>2. hard_budget => journal[call[w]].finish.cost = NoCost
      BY <1>15 DEF AppendFinish, Recordable, IInv, PlacesFit, PlaceFits, Unfinished, Pending
    <3>3. ASSUME NEW v \in Workers, NEW id \in sent'[v], hard_budget, id # call'[v]
          PROVE  journal'[id].finish.cost # NoCost
      <4>1. id \in sent[v] /\ call'[v] = call[v]
        BY <3>1, <3>3 DEF IInv, TypeOK
      <4>2. journal[id].finish.cost # NoCost /\ id \in Begun
        BY <3>3, <4>1 DEF IInv, SentFits, TracedBeforeSend
      <4> QED
        BY <2>0, <3>2, <3>3, <4>2
    <3>4. \A v \in Workers : sent'[v] \subseteq Dispatched'
      BY <3>1 DEF IInv, SentFits, TypeOK
    <3> QED
      BY <3>1, <3>3, <3>4 DEF SentFits
  <2>6. RecoveryFits'
    BY <1>15, <2>0 DEF AppendFinish, Recordable, accountant, IInv, RecoveryFits, Lost, Unfinished
  <2>7. TracedBeforeSend'
    BY <1>15, <2>0 DEF AppendFinish, ledger, accountant, IInv, TracedBeforeSend, Dispatched
  <2>8. JournalAgreesWithLedger'
    <3>1. UNCHANGED <<hard_budget, reservations>>
      BY <1>15 DEF AppendFinish, ledger, accountant
    <3>2. ASSUME hard_budget, NEW id \in Begun, id # call[w], journal'[id].finish.clean
          PROVE  /\ id \in DOMAIN reservations /\ reservations[id].status = "finalized"
                 /\ reservations[id].actual = journal'[id].finish.cost
      BY <2>0, <3>2 DEF IInv, JournalAgreesWithLedger
    <3>3. ASSUME hard_budget, journal'[call[w]].finish.clean
          PROVE  /\ call[w] \in DOMAIN reservations /\ reservations[call[w]].status = "finalized"
                 /\ reservations[call[w]].actual = journal'[call[w]].finish.cost
      <4>1. PlaceFits(w) /\ pc[w] = "settled"
        BY <1>15, <3>3 DEF AppendFinish, Recordable, IInv, PlacesFit
      <4>2. reservations[call[w]].status = "finalized"
        BY <2>0, <3>3 DEF Clean
      <4> QED
        BY <2>0, <3>3, <4>1, <4>2 DEF PlaceFits, InLedger
    <3> QED
      BY <2>0, <3>1, <3>2, <3>3 DEF JournalAgreesWithLedger
  <2> QED
    BY <1>a, <2>1, <2>2, <2>3, <2>4, <2>5, <2>6, <2>7, <2>8 DEF IInv
<1>16. ASSUME NEW w \in Workers, AppendFinishRaises(w) PROVE IInv'
  <2>0. /\ call[w] \in Begun /\ Begun' = Begun /\ journal' \in [Begun -> Events]
        /\ \/ journal'[call[w]] = journal[call[w]]
           \/ /\ journal'[call[w]].instance = journal[call[w]].instance
              /\ journal'[call[w]].finish.cost = answer[w].cost
              /\ journal'[call[w]].finish.clean = Clean(call[w])
              /\ journal'[call[w]].finish # Pending
        /\ \A id \in Begun \ {call[w]} : journal'[id] = journal[id]
    <3>1. call[w] \in Begun /\ answer[w].outcome # "none"
      BY <1>16 DEF AppendFinishRaises, Recordable, IInv, PlacesFit, PlaceFits, Unfinished
    <3>2. CASE UNCHANGED journal
      BY <1>0, <3>1, <3>2 DEF Begun, TypeOK
    <3>3. CASE Finish(w)
      BY <1>0, <3>1, <3>3, FinishIs
    <3> QED
      BY <1>16, <3>2, <3>3 DEF AppendFinishRaises
  <2>1. TypeOK'
    BY <1>0, <1>16, <2>0, <1>b, FailFinishIs DEF AppendFinishRaises, TypeOK, Begun
  <2>2. IdsFresh'
    BY <1>16, <2>0
       DEF AppendFinishRaises, Recordable, ledger, FailFinish, Fail, EndRequest, Goto, IInv,
           IdsFresh, TypeOK, Dispatched
  <2>3. PlacesFit'
    BY <1>16, <2>0
       DEF AppendFinishRaises, Recordable, ledger, FailFinish, Fail, EndRequest, Goto, IInv,
           PlacesFit, PlaceFits, IdsFresh, TypeOK, Unfinished, Dispatched, Priced, ChargeOf,
           InLedger, OnHold, Unpriced, InFlight, CostsFit
  <2>4. CostsFit'
    BY <1>16, <2>0
       DEF AppendFinishRaises, Recordable, ledger, IInv, CostsFit, ChargeOf, PlacesFit, PlaceFits,
           Priced, TypeOK, Dispatched
  <2>5. SentFits'
    BY <1>16, <2>0, DispatchAssumption
       DEF AppendFinishRaises, Recordable, FailFinish, Fail, EndRequest, IInv, SentFits,
           TracedBeforeSend, Pending, PlacesFit, PlaceFits, IdsFresh, TypeOK, Unfinished,
           Dispatched, Unpriced
  <2>6. RecoveryFits'
    BY <1>16, <2>0 DEF AppendFinishRaises, Recordable, IInv, RecoveryFits, Lost, Unfinished
  <2>7. TracedBeforeSend'
    BY <1>16, <2>0 DEF AppendFinishRaises, ledger, IInv, TracedBeforeSend, Dispatched
  <2>8. JournalAgreesWithLedger'
    <3>1. CASE journal'[call[w]] = journal[call[w]]
      BY <1>16, <2>0, <3>1 DEF AppendFinishRaises, ledger, IInv, JournalAgreesWithLedger
    <3>2. CASE journal'[call[w]] # journal[call[w]]
      <4>1. /\ journal'[call[w]].finish.cost = answer[w].cost
            /\ journal'[call[w]].finish.clean = Clean(call[w])
            /\ hard_budget => pc[w] = "settled"
            /\ UNCHANGED <<hard_budget, reservations>>
        BY <1>16, <2>0, <3>2 DEF AppendFinishRaises, Recordable, ledger
      <4>2. hard_budget /\ Clean(call[w]) =>
              /\ call[w] \in DOMAIN reservations /\ reservations[call[w]].status = "finalized"
              /\ reservations[call[w]].actual = answer[w].cost
        BY <4>1 DEF Clean, IInv, PlacesFit, PlaceFits, InLedger
      <4> QED
        BY <2>0, <4>1, <4>2 DEF IInv, JournalAgreesWithLedger
    <3> QED
      BY <3>1, <3>2
  <2> QED
    BY <1>a, <2>1, <2>2, <2>3, <2>4, <2>5, <2>6, <2>7, <2>8 DEF IInv
<1>17. ASSUME NEW w \in Workers, NEW id \in Ids, Retry(w, id) PROVE IInv'
  <2>1. TypeOK'
    BY <1>0, <1>17, <1>b DEF Retry, Enter, Goto, accountant, TypeOK, Places, Answers, NoAnswer
  <2>2. IdsFresh'
    BY <1>17
       DEF Retry, Enter, Goto, ledger, IInv, IdsFresh, PlacesFit, PlaceFits, Begun, Dispatched
  <2>3. PlacesFit'
    BY <1>17
       DEF Retry, Enter, Goto, ledger, accountant, IInv, PlacesFit, PlaceFits, IdsFresh, TypeOK,
           Begun, Unfinished, Dispatched, Priced, ChargeOf, InLedger, OnHold, Unpriced,
           InFlight
  <2>4. SentFits'
    BY <1>17
       DEF Retry, CanRetry, Enter, accountant, IInv, SentFits, PlacesFit, PlaceFits, Dispatched,
           Unpriced, Blocked
  <2>5. RecoveryFits'
    BY <1>17 DEF Retry, accountant, IInv, RecoveryFits, Lost, Unfinished, Begun
  <2>6. CostsFit' /\ TracedBeforeSend' /\ JournalAgreesWithLedger'
    BY <1>17
       DEF Retry, ledger, accountant, IInv, CostsFit, TracedBeforeSend, JournalAgreesWithLedger,
           Begun, Dispatched, ChargeOf
  <2> QED
    BY <1>a, <2>1, <2>2, <2>3, <2>4, <2>5, <2>6 DEF IInv
<1>18. ASSUME NEW w \in Workers, GiveUp(w) PROVE IInv'
  <2>1. TypeOK'
    BY <1>0, <1>18, <1>b, EndRequestIs DEF GiveUp, accountant, TypeOK
  <2>2. IdsFresh'
    BY <1>18 DEF GiveUp, ledger, EndRequest, Goto, IInv, IdsFresh, TypeOK, Begun, Dispatched
  <2>3. PlacesFit'
    BY <1>18
       DEF GiveUp, ledger, accountant, EndRequest, Goto, IInv, PlacesFit, PlaceFits, TypeOK, Begun,
           Unfinished, Dispatched, Priced, ChargeOf, InLedger, OnHold, Unpriced, InFlight,
           CostsFit
  <2>4. SentFits'
    BY <1>18 DEF GiveUp, accountant, EndRequest, IInv, SentFits, TypeOK, Dispatched
  <2>5. RecoveryFits'
    BY <1>18 DEF GiveUp, accountant, IInv, RecoveryFits, Lost, Unfinished, Begun
  <2>6. CostsFit' /\ TracedBeforeSend' /\ JournalAgreesWithLedger'
    BY <1>18
       DEF GiveUp, ledger, accountant, IInv, CostsFit, TracedBeforeSend, JournalAgreesWithLedger,
           Begun, Dispatched, ChargeOf
  <2> QED
    BY <1>a, <2>1, <2>2, <2>3, <2>4, <2>5, <2>6 DEF IInv
<1>19. CASE UNCHANGED vars
  <2>1. TypeOK'
    BY <1>0, <1>19 DEF vars, ledger, accountant, worker, TypeOK, LedgerTypeOK
  <2>2. PlacesFit' /\ IdsFresh' /\ SentFits' /\ RecoveryFits'
    BY <1>19
       DEF vars, ledger, accountant, worker, IInv, PlacesFit, PlaceFits, IdsFresh, SentFits,
           RecoveryFits, Begun, Dispatched, Unfinished, Lost, Priced, ChargeOf, InLedger, OnHold,
           Unpriced, InFlight
  <2>3. CostsFit'
    BY <1>19 DEF vars, ledger, accountant, IInv, CostsFit, Begun, Dispatched, ChargeOf
  <2>4. TracedBeforeSend' /\ JournalAgreesWithLedger'
    BY <1>19
       DEF vars, ledger, accountant, IInv, TracedBeforeSend, JournalAgreesWithLedger, Begun,
           Dispatched
  <2> QED
    BY <1>a, <2>1, <2>2, <2>3, <2>4 DEF IInv
<1> QED
  BY <1>1, <1>2, <1>3, <1>4, <1>5, <1>6, <1>7, <1>8, <1>9, <1>10, <1>11, <1>12, <1>13, <1>14,
     <1>15, <1>16, <1>17, <1>18, <1>19
     DEF Next, Progress

\* What a worker's place says of the records, and what the records say of the charges, holds at every
\* moment of every behaviour.
THEOREM DispatchInvariant == Spec => []IInv
<1> QED
  BY InitInvariant, StepInvariant, PTL DEF Spec

\* The variables keep their types for any calls, executions, workers, amounts and attempts.
THEOREM TypeCorrect == Spec => []TypeOK
<1>1. IInv => TypeOK
  BY DEF IInv
<1> QED
  BY <1>1, DispatchInvariant, PTL

\* No call is ever sent that is not in the journal and, under a hard budget, in the ledger.
THEOREM SendsAreTraced == Spec => []TracedBeforeSend
<1>1. IInv => TracedBeforeSend
  BY DEF IInv
<1> QED
  BY <1>1, DispatchInvariant, PTL

\* A clean finish in the journal stands on a settled row of the same cost.
THEOREM JournalAndLedgerAgree == Spec => []JournalAgreesWithLedger
<1>1. IInv => JournalAgreesWithLedger
  BY DEF IInv
<1> QED
  BY <1>1, DispatchInvariant, PTL

\* A hold is settled at what the provider charged for its call, or at nothing where the call was
\* not and never will be sent.
THEOREM HoldsSettleAtTheCharge == Spec => []SettledAtTheCharge
<1>1. IInv => SettledAtTheCharge
  BY DEF IInv, CostsFit, ChargeOf, SettledAtTheCharge
<1> QED
  BY <1>1, DispatchInvariant, PTL

\* What a summary with complete coverage adds up is what the provider charged.
THEOREM CompleteCoverage == Spec => []CompleteCoverageIsTrue
<1>1. IInv => CompleteCoverageIsTrue
  BY DEF IInv, CompleteCoverageIsTrue, Complete, TracedBeforeSend, CostsFit, ChargeOf
<1> QED
  BY <1>1, DispatchInvariant, PTL

\* Under a hard budget no request sends again before it knows what its last attempt cost.
THEOREM RetriesKnowThePrice == Spec => []NoBlindRetry
<1>1. IInv => NoBlindRetry
  BY DEF IInv, NoBlindRetry, SentFits, PlacesFit, PlaceFits
<1> QED
  BY <1>1, DispatchInvariant, PTL

\* What the provider charges, each call up to its ceiling, never exceeds the cap: every unit of it
\* is a unit that the ledger has committed.
THEOREM SpendStaysWithinCap == Spec => []SpendWithinCap
<1>1. IInv => SpendWithinCap
  <2> SUFFICES ASSUME IInv, hard_budget PROVE Cardinality(ChargedUnits) <= Cap
    BY DEF SpendWithinCap
  <2>1. ChargedUnits \subseteq Units(reservations)
    <3> SUFFICES ASSUME NEW u \in ChargedUnits PROVE u \in Units(reservations)
      OBVIOUS
    <3>1. /\ u \in Dispatched \X (1..Cap)
          /\ u[2] <= charge[u[1]] /\ u[2] <= reservations[u[1]].reserved
      BY DEF ChargedUnits
    <3>2. u[1] \in DOMAIN reservations
      BY <3>1 DEF IInv, TracedBeforeSend
    <3>3. u[2] <= Held(reservations[u[1]])
      BY <3>1, <3>2 DEF Held, IInv, CostsFit, ChargeOf
    <3> QED
      BY <3>1, <3>2, <3>3 DEF Units
  <2>2. LedgerLoads /\ LedgerFinite
    BY DEF IInv, LedgerIInv
  <2>3. Cardinality(Units(reservations)) <= Cap
    BY <2>2 DEF LedgerLoads, Loads, Committed
  <2>4. IsFiniteSet(Units(reservations))
    BY <2>2, UnitsFinite DEF LedgerFinite
  <2>5. Cardinality(ChargedUnits) <= Cardinality(Units(reservations))
    BY <2>1, <2>4, FS_Subset
  <2>6. Cardinality(ChargedUnits) \in Nat /\ Cardinality(Units(reservations)) \in Nat
    BY <2>1, <2>4, FS_Subset, FS_CardinalityType
  <2> QED
    BY <2>3, <2>5, <2>6, BudgetAssumption
<1> QED
  BY <1>1, DispatchInvariant, PTL

\* While a call that an earlier execution began has no finish, nothing is sent: the flag that the
\* execution found at its start keeps every worker from going beyond begin()'s first check.
THEOREM LostCallStops == Spec => LostCallStopsDispatch
<1>1. IInv /\ [Next]_vars => [Lost # {} => charge' = charge]_<<journal, charge, execution>>
  <2> SUFFICES ASSUME IInv, Next, Lost # {}, charge' # charge PROVE FALSE
    BY DEF vars
  <2>1. PICK w \in Workers : Send(w)
    BY DEF Next, Progress, Launch, Crash, StartRequest, CheckFlags, HoldCeiling, ReserveRaises,
           AppendBegin, AppendBeginRaises, Withhold, Answer, FinishRejected, FinalizeLedger,
           FinalizeRaises, AppendFinish, AppendFinishRaises, Retry, GiveUp
  <2>2. pc[w] = "begun" /\ execution # None
    BY <2>1 DEF Send, IInv, PlacesFit, PlaceFits
  <2> QED
    BY <2>2 DEF IInv, RecoveryFits
<1> QED
  BY <1>1, DispatchInvariant, PTL DEF Spec, LostCallStopsDispatch

\* The dispatch changes the ledger through its operations only, so that what holds of every
\* ledger carries over.
LEMMA ImplementsLedger == Spec => LedgerSpec
<1>1. Init => LedgerInit
  BY DEF Init
<1>2. IInv /\ [Next]_vars => [LedgerNext]_ledger
  BY LedgerStep DEF IInv
<1> QED
  BY <1>1, <1>2, DispatchInvariant, PTL DEF Spec, LedgerSpec

\* So what holds of every ledger holds of the one that a run's page workers share: it always loads
\* within its cap, one execution is in flight on it, a lost or unpriced call of any worker stops all
\* reservations for good, and settled rows stand.
THEOREM LedgerPromisesHold ==
  Spec => []LedgerLoads /\ []OneExecutionInFlight /\ LostCallStopsSpending /\ SettledRowsStand
BY ImplementsLedger, LedgerAlwaysLoads, SingleExecutionInFlight, LedgerLostCallStops,
   SettledRowsNeverChange, PTL

===============================================================================
