-------------------------- MODULE ReservationBudget --------------------------
(*****************************************************************************)
(* The durable hard-cap ledger of budget_reservations.py.                    *)
(*                                                                           *)
(* The ledger is one JSON file. Every operation takes the file's lock,       *)
(* loads and validates the state, and replaces the file atomically, so an    *)
(* operation is one action. A ReservationBudget OBJECT draws a fresh         *)
(* `_owner` when it is constructed and disappears with its process; the      *)
(* file stays. Money is counted in its smallest unit.                        *)
(*****************************************************************************)
EXTENDS Integers, FiniteSets

CONSTANTS
  Ids,       \* reservation identities (the call ids of the dispatch journal)
  Owners,    \* what uuid4().hex can draw for `_owner`
  Amounts,   \* the monetary values that ceilings and provider costs take
  Cap,       \* cap_usd
  NoCost     \* Python's None where an actual cost is not known

ASSUME BudgetAssumption ==
  /\ Cap \in Nat
  /\ Amounts \subseteq Nat
  /\ NoCost \notin Nat

VARIABLES
  reservations,    \* the ledger's rows, by reservation id, in the file
  blocked_reason,  \* the ledger's blocked_reason, in the file
  live,            \* the owners whose object still exists in some process
  drawn            \* every owner ever drawn; the code relies on uuid4 for freshness

ledger == <<reservations, blocked_reason, live, drawn>>

Reasons == {"none", "unknown_provider_cost", "reservation_ceiling_exceeded", "cost_status"}

Rows == [reserved : Amounts, actual : Amounts \union {NoCost},
         status : {"reserved", "uncertain", "finalized"}, owner : Owners]

-----------------------------------------------------------------------------
(* What the ledger says *)

\* What a row commits of the cap: its cost once known, its ceiling until then.
Held(row) == IF row.status = "finalized" THEN row.actual ELSE row.reserved

\* The committed money as a set of units, one unit a pair of its row and an index,
\* so that the sum over the rows is a cardinality.
Units(rs) == {u \in (DOMAIN rs) \X (1..Cap) : u[2] <= Held(rs[u[1]])}

Committed(rs) == Cardinality(Units(rs))

\* The validation of every load: a row finalizes within its ceiling, only a
\* finalized row has a cost, and no row set commits more than the cap.
Loads(rs) ==
  /\ \A id \in DOMAIN rs :
       IF rs[id].status = "finalized" THEN rs[id].actual # NoCost /\ rs[id].actual <= rs[id].reserved
                                      ELSE rs[id].actual = NoCost
  /\ Committed(rs) <= Cap

Uncertain(id) == reservations[id].status = "uncertain"
InFlight(id)  == reservations[id].status = "reserved"

BlockedIgnoringOwner(o) ==  \* mutant: another execution's call does not block
  blocked_reason # "none" \/ \E id \in DOMAIN reservations : Uncertain(id)

\* `_blocked` as owner o sees the ledger.
Blocked(o) ==
  \/ blocked_reason # "none"
  \/ \E id \in DOMAIN reservations :
       Uncertain(id) \/ (InFlight(id) /\ reservations[id].owner # o)

-----------------------------------------------------------------------------
LedgerInit ==
  /\ reservations = [id \in {} |-> NoCost]
  /\ blocked_reason = "none"
  /\ live = {}
  /\ drawn = {}

\* Constructing an object over the new or existing file.
Open(o) ==
  /\ o \notin drawn
  /\ Loads(reservations)
  /\ live' = live \union {o}
  /\ drawn' = drawn \union {o}
  /\ UNCHANGED <<reservations, blocked_reason>>

\* The object's process dies or drops it; nothing is written.
Close(o) ==
  /\ o \in live
  /\ live' = live \ {o}
  /\ UNCHANGED <<reservations, blocked_reason, drawn>>

\* reserve(): every rejection raises and leaves the file as it was.
Reserve(o, id, ceiling) ==
  /\ o \in live
  /\ Loads(reservations)
  /\ ~Blocked(o)
  /\ id \notin DOMAIN reservations
  /\ Committed(reservations) + ceiling <= Cap
  /\ reservations' = [r \in DOMAIN reservations \union {id} |->
                        IF r = id THEN [reserved |-> ceiling, actual |-> NoCost,
                                        status |-> "reserved", owner |-> o]
                                  ELSE reservations[r]]
  /\ UNCHANGED <<blocked_reason, live, drawn>>

FinalReasonOverageSettles(id, actual, reason) ==  \* mutant: an overage is just settled
  IF actual = NoCost /\ reason = "none" THEN "unknown_provider_cost" ELSE reason

FinalReasonUnlisted(id, actual, reason) ==  \* mutant: a reason no reader of the ledger knows
  IF actual = NoCost THEN "unpriced" ELSE reason

\* The block reason that finalize() ends with, from the one it was given.
FinalReason(id, actual, reason) ==
  CASE actual # NoCost /\ actual > reservations[id].reserved -> "reservation_ceiling_exceeded"
    [] actual = NoCost /\ reason = "none" -> "unknown_provider_cost"
    [] OTHER -> reason

ReconcilableByAnyone(o, id) ==  \* mutant: a new execution settles a dead one's call
  id \in DOMAIN reservations /\ InFlight(id)

ReconcilableAgain(o, id) ==  \* mutant: a settled row may be settled once more
  id \in DOMAIN reservations /\ reservations[id].owner = o

\* Only this execution's unfinalized reservation can be reconciled.
Reconcilable(o, id) ==
  id \in DOMAIN reservations /\ InFlight(id) /\ reservations[id].owner = o

\* finalize(): only the owner's own unfinalized row. A cost above the ceiling, an
\* unknown cost or a reason keeps the whole hold and blocks the ledger.
Finalize(o, id, actual, reason) ==
  LET final == FinalReason(id, actual, reason)
  IN /\ o \in live
     /\ Loads(reservations)
     /\ Reconcilable(o, id)
     /\ IF final # "none"
        THEN /\ reservations' = [reservations EXCEPT ![id].status = "uncertain"]
             /\ blocked_reason' = final
        ELSE /\ reservations' = [reservations EXCEPT ![id] =
                                   [@ EXCEPT !.status = "finalized", !.actual = actual]]
             /\ UNCHANGED blocked_reason
     /\ UNCHANGED <<live, drawn>>

LedgerNext ==
  \E o \in Owners :
    \/ Open(o)
    \/ Close(o)
    \/ \E id \in Ids, ceiling \in Amounts : Reserve(o, id, ceiling)
    \/ \E id \in Ids, actual \in Amounts \union {NoCost}, reason \in {"none", "cost_status"} :
         Finalize(o, id, actual, reason)

\* The behaviour of a ledger: it starts empty and every change to it is one whole
\* operation above. PaidDispatch is built from these operations.
LedgerSpec == LedgerInit /\ [][LedgerNext]_ledger

-----------------------------------------------------------------------------
(* Properties *)

\* Every variable stays in its type: rows of known ids, reasons the code writes.
LedgerTypeOK ==
  /\ DOMAIN reservations \subseteq Ids
  /\ reservations \in [DOMAIN reservations -> Rows]
  /\ blocked_reason \in Reasons
  /\ live \subseteq drawn
  /\ drawn \subseteq Owners

\* No sequence of reserve and finalize calls, by however many executions, writes a
\* ledger that its own load rejects: the commitments stay within the cap and the
\* rows well formed. A ledger that broke this could never be opened again.
LedgerLoads == Loads(reservations)

\* At most one execution has calls in flight on the ledger, although nothing but the
\* owner comparison in _blocked keeps two processes that share the file apart.
OneExecutionInFlight ==
  \A i, j \in DOMAIN reservations :
    InFlight(i) /\ InFlight(j) => reservations[i].owner = reservations[j].owner

\* The call in flight of an execution that is gone: its charge can never be known.
Orphaned(id) == InFlight(id) /\ reservations[id].owner \notin live

\* A lost or unpriced call stops all spending for good: once a row is orphaned by a
\* crash or uncertain, no execution, old or new, ever reserves again.
Stopped == \E id \in DOMAIN reservations : Orphaned(id) \/ Uncertain(id)

LostCallStopsSpending ==
  [][Stopped => Stopped' /\ DOMAIN reservations' = DOMAIN reservations]_ledger

\* Settled evidence is immutable and no hold is given back: a row that left
\* "reserved" never changes, and no row is ever removed from the ledger.
SettledRowsStand ==
  [][/\ DOMAIN reservations \subseteq DOMAIN reservations'
     /\ \A id \in DOMAIN reservations :
          ~InFlight(id) => reservations'[id] = reservations[id]]_ledger

=============================================================================
