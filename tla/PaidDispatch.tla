----------------------------- MODULE PaidDispatch -----------------------------
(*****************************************************************************)
(* The road of one paid provider request: usage_accounting.py's append-only  *)
(* begin/finish journal (DispatchAccounting), the hard-cap ledger below it   *)
(* (ReservationBudget, whose variables and operations it extends) and the    *)
(* attempts of the page workers above it (_accounted_openai_create and the   *)
(* retry loop of OpenAIResponsesClient).                                     *)
(*                                                                           *)
(* One process at a time executes a run (run_workspace_lock.py); it may die  *)
(* between any two steps and be launched again on the same files. Every      *)
(* write of the journal or of the ledger may raise, with the new file in     *)
(* place or not: atomic_json raises after os.replace when the directory's    *)
(* fsync fails.                                                              *)
(*****************************************************************************)
EXTENDS ReservationBudget

CONSTANTS
  Workers,      \* the page workers of an execution
  MaxAttempts,  \* max_transport_retries + 1
  None          \* no execution, no call

ASSUME DispatchAssumption ==
  /\ 0 \in Amounts
  /\ MaxAttempts \in Nat
  /\ None \notin Owners \union Ids

VARIABLES
  hard_budget,         \* whether a budget with the BLOCK policy is attached to the run
  journal,             \* the events by call id: a begin, and its finish or Pending
  execution,           \* the accountant's _instance_id while a process runs, or None
  past,                \* the executions that are over
  recovered_in_flight, \* _recovered_in_flight of the running accountant
  persistence_failed,  \* _persistence_failed of the running accountant
  pc, call,            \* each worker's place in the attempt, and its call id
  answer,              \* what each worker knows of its last attempt
  sent,                \* the calls each worker's present request has sent
  minted,              \* every call id ever drawn; the code relies on uuid4 for freshness
  charge               \* what the provider charges for each call it was sent (observation)

accountant == <<hard_budget, execution, past, recovered_in_flight, persistence_failed>>
worker     == <<pc, call, answer, sent>>
vars       == <<ledger, journal, accountant, worker, minted, charge>>

Pending == [outcome |-> "pending", cost |-> NoCost, clean |-> FALSE]

\* A finish event: its outcome, its price, and `clean` when the ledger settled the
\* call and was not blocked (budget_status, budget_blocked_reason).
Finishes == [outcome : {"succeeded", "failed", "not_dispatched"},
             cost : Amounts \union {NoCost}, clean : BOOLEAN]

Events == [instance : Owners, finish : Finishes \union {Pending}]

Answers == [outcome : {"none", "succeeded", "failed", "not_dispatched"},
            cost : Amounts \union {NoCost}]

NoAnswer == [outcome |-> "none", cost |-> NoCost]

Places == {"idle", "checking", "reserving", "recording", "begun", "sent", "answered",
           "settled", "deciding"}

Begun      == DOMAIN journal
Unfinished == {id \in Begun : journal[id].finish = Pending}
Dispatched == DOMAIN charge

With(f, x, y) == [z \in DOMAIN f \union {x} |-> IF z = x THEN y ELSE f[z]]

-----------------------------------------------------------------------------
(* The execution *)

Init ==
  /\ LedgerInit
  /\ hard_budget \in BOOLEAN
  /\ journal = [id \in {} |-> None]
  /\ execution = None /\ past = {}
  /\ recovered_in_flight = FALSE /\ persistence_failed = FALSE
  /\ pc = [w \in Workers |-> "idle"]
  /\ call = [w \in Workers |-> None]
  /\ answer = [w \in Workers |-> NoAnswer]
  /\ sent = [w \in Workers |-> {}]
  /\ minted = {}
  /\ charge = [id \in {} |-> NoCost]

LaunchForgetsTheLost(o) ==  \* mutant: the journal is not searched for unfinished begins
  /\ execution = None
  /\ o \notin past
  /\ IF hard_budget THEN Open(o) ELSE UNCHANGED ledger
  /\ execution' = o
  /\ recovered_in_flight' = FALSE
  /\ persistence_failed' = FALSE
  /\ UNCHANGED <<hard_budget, journal, past, worker, minted, charge>>

\* Constructing the budget and the accountant over new or existing files: a begin
\* without its finish is a call that some past execution lost.
Launch(o) ==
  /\ execution = None
  /\ o \notin past
  /\ IF hard_budget THEN Open(o) ELSE UNCHANGED ledger
  /\ execution' = o
  /\ recovered_in_flight' = (Unfinished # {})
  /\ persistence_failed' = FALSE
  /\ UNCHANGED <<hard_budget, journal, past, worker, minted, charge>>

\* The process ends, at a rest or in the middle of anything.
Crash ==
  /\ execution # None
  /\ IF hard_budget THEN Close(execution) ELSE UNCHANGED ledger
  /\ execution' = None
  /\ past' = past \union {execution}
  /\ pc' = [w \in Workers |-> "idle"]
  /\ call' = [w \in Workers |-> None]
  /\ answer' = [w \in Workers |-> NoAnswer]
  /\ sent' = [w \in Workers |-> {}]
  /\ recovered_in_flight' = FALSE /\ persistence_failed' = FALSE
  /\ UNCHANGED <<hard_budget, journal, minted, charge>>

-----------------------------------------------------------------------------
(* One attempt of worker w *)

Goto(w, place) == pc' = [pc EXCEPT ![w] = place]

\* The request of w is over, answered or failed.
EndRequest(w) ==
  /\ Goto(w, "idle")
  /\ call' = [call EXCEPT ![w] = None]
  /\ answer' = [answer EXCEPT ![w] = NoAnswer]
  /\ sent' = [sent EXCEPT ![w] = {}]

\* A write or a lock of the accountant raised out of begin() or finish().
Fail(w) == persistence_failed' = TRUE /\ EndRequest(w)

\* When finish() raises for an attempt that the recheck of the endpoint withheld, the
\* surrounding handler takes it for a failed dispatch and calls finish() once more.
FailFinish(w) ==
  \/ Fail(w)
  \/ /\ answer[w].outcome = "not_dispatched"
     /\ persistence_failed' = TRUE
     /\ answer' = [answer EXCEPT ![w] = [outcome |-> "failed", cost |-> NoCost]]
     /\ Goto(w, "answered")
     /\ UNCHANGED <<call, sent>>

\* The journal's lock is held from the ledger's finalize to the journal's append.
JournalFree == \A w \in Workers : pc[w] # "settled"

\* An attempt enters begin() with a fresh call id.
Enter(w, id) ==
  /\ id \notin minted
  /\ minted' = minted \union {id}
  /\ call' = [call EXCEPT ![w] = id]
  /\ answer' = [answer EXCEPT ![w] = NoAnswer]
  /\ Goto(w, "checking")

StartRequest(w, id) ==
  /\ execution # None
  /\ pc[w] = "idle"
  /\ Enter(w, id)
  /\ UNCHANGED <<ledger, journal, accountant, sent, charge>>

\* begin() reads the accountant's flags once, before the reservation and the append.
CheckFlags(w) ==
  /\ pc[w] = "checking"
  /\ IF recovered_in_flight \/ persistence_failed
     THEN EndRequest(w)
     ELSE /\ Goto(w, IF hard_budget THEN "reserving" ELSE "recording")
          /\ UNCHANGED <<call, answer, sent>>
  /\ UNCHANGED <<ledger, journal, accountant, minted, charge>>

HoldCeiling(w) ==
  /\ pc[w] = "reserving"
  /\ \E ceiling \in Amounts : Reserve(execution, call[w], ceiling)
  /\ Goto(w, "recording")
  /\ UNCHANGED <<journal, accountant, call, answer, sent, minted, charge>>

\* The ledger rejects the reservation or its file raises, with the row stored or not;
\* the accountant's flags stay as they are.
ReserveRaises(w) ==
  /\ pc[w] = "reserving"
  /\ \/ UNCHANGED ledger
     \/ \E ceiling \in Amounts : Reserve(execution, call[w], ceiling)
  /\ EndRequest(w)
  /\ UNCHANGED <<journal, accountant, minted, charge>>

Begin(w) == journal' = With(journal, call[w], [instance |-> execution, finish |-> Pending])

AppendBegin(w) ==
  /\ pc[w] = "recording"
  /\ JournalFree
  /\ Begin(w)
  /\ Goto(w, "begun")
  /\ UNCHANGED <<ledger, accountant, call, answer, sent, minted, charge>>

AppendBeginSwallowed(w) ==  \* mutant: a journal that cannot be written is only logged
  /\ pc[w] = "recording"
  /\ JournalFree
  /\ UNCHANGED journal
  /\ persistence_failed' = TRUE
  /\ Goto(w, "begun")
  /\ UNCHANGED <<ledger, hard_budget, execution, past, recovered_in_flight, call, answer, sent, minted, charge>>

AppendBeginRaises(w) ==
  /\ pc[w] = "recording"
  /\ JournalFree
  /\ UNCHANGED journal \/ Begin(w)
  /\ Fail(w)
  /\ UNCHANGED <<ledger, hard_budget, execution, past, recovered_in_flight, minted, charge>>

WithholdByReason(w) ==  \* mutant: the outcome names why, which no reader of the journal knows
  /\ pc[w] = "begun"
  /\ answer' = [answer EXCEPT ![w] = [outcome |-> "deadline_exceeded", cost |-> 0]]
  /\ Goto(w, "answered")
  /\ UNCHANGED <<ledger, journal, accountant, call, sent, minted, charge>>

\* The deadline or the cancellation check before the send, or the recheck of the
\* endpoint, refuses: the attempt is finished as not dispatched, at no cost.
Withhold(w) ==
  /\ pc[w] = "begun"
  /\ answer' = [answer EXCEPT ![w] = [outcome |-> "not_dispatched", cost |-> 0]]
  /\ Goto(w, "answered")
  /\ UNCHANGED <<ledger, journal, accountant, call, sent, minted, charge>>

Send(w) ==
  /\ pc[w] = "begun"
  /\ \E amount \in Amounts : charge' = With(charge, call[w], amount)
  /\ sent' = [sent EXCEPT ![w] = @ \union {call[w]}]
  /\ Goto(w, "sent")
  /\ UNCHANGED <<ledger, journal, accountant, call, answer, minted>>

AnswerUnpricedAsFree(w) ==  \* mutant: missing usage is priced at zero
  /\ pc[w] = "sent"
  /\ \E outcome \in {"succeeded", "failed"}, cost \in {charge[call[w]], 0} :
       answer' = [answer EXCEPT ![w] = [outcome |-> outcome, cost |-> cost]]
  /\ Goto(w, "answered")
  /\ UNCHANGED <<ledger, journal, accountant, call, sent, minted, charge>>

\* An answer, an error or a timeout; either may come with usage that _price_usage
\* can price, or without.
Answer(w) ==
  /\ pc[w] = "sent"
  /\ \E outcome \in {"succeeded", "failed"}, cost \in {charge[call[w]], NoCost} :
       answer' = [answer EXCEPT ![w] = [outcome |-> outcome, cost |-> cost]]
  /\ Goto(w, "answered")
  /\ UNCHANGED <<ledger, journal, accountant, call, sent, minted, charge>>

\* finish() raises before it writes: the lock, the journal's load, a response_id that
\* another call is bound to.
FinishRejected(w) ==
  /\ pc[w] = "answered"
  /\ JournalFree
  /\ FailFinish(w)
  /\ UNCHANGED <<ledger, journal, hard_budget, execution, past, recovered_in_flight, minted, charge>>

SettleUnknownAsFree(w) ==  \* mutant: an unknown cost releases the whole hold
  Finalize(execution, call[w], IF answer[w].cost = NoCost THEN 0 ELSE answer[w].cost, "none")

SettleFailedAsFree(w) ==  \* mutant: a failed attempt is settled as not charged
  Finalize(execution, call[w], IF answer[w].outcome = "failed" THEN 0 ELSE answer[w].cost,
                  IF answer[w].cost = NoCost THEN "cost_status" ELSE "none")

Settle(w) ==
  Finalize(execution, call[w], answer[w].cost,
                  IF answer[w].cost = NoCost THEN "cost_status" ELSE "none")

\* Inside finish(), under the journal's lock: the ledger first.
FinalizeLedger(w) ==
  /\ hard_budget
  /\ pc[w] = "answered"
  /\ JournalFree
  /\ call[w] \in Unfinished
  /\ Settle(w)
  /\ persistence_failed' =
       (persistence_failed \/ reservations'[call[w]].status # "finalized")
  /\ Goto(w, "settled")
  /\ UNCHANGED <<journal, hard_budget, execution, past, recovered_in_flight, call, answer, sent, minted, charge>>

FinalizeRaises(w) ==
  /\ hard_budget
  /\ pc[w] = "answered"
  /\ JournalFree
  /\ UNCHANGED ledger \/ Settle(w)
  /\ FailFinish(w)
  /\ UNCHANGED <<journal, hard_budget, execution, past, recovered_in_flight, minted, charge>>

CleanOnceSettled(id) ==  \* mutant: any status but "reserved" counts as settled
  hard_budget => reservations[id].status # "reserved"

\* ... and then the journal's finish event.
Clean(id) == hard_budget => reservations[id].status = "finalized" /\ blocked_reason = "none"

Finish(w) ==
  journal' = [journal EXCEPT ![call[w]].finish =
                [outcome |-> answer[w].outcome, cost |-> answer[w].cost, clean |-> Clean(call[w])]]

Recordable(w) ==
  IF hard_budget THEN pc[w] = "settled"
                ELSE pc[w] = "answered" /\ JournalFree /\ call[w] \in Unfinished

\* Only a failed attempt reaches the retry decision; a withheld one ends the request.
AppendFinish(w) ==
  /\ Recordable(w)
  /\ Finish(w)
  /\ IF answer[w].outcome = "failed"
     THEN Goto(w, "deciding") /\ UNCHANGED <<call, answer, sent>>
     ELSE EndRequest(w)
  /\ UNCHANGED <<ledger, accountant, minted, charge>>

AppendFinishRaises(w) ==
  /\ Recordable(w)
  /\ UNCHANGED journal \/ Finish(w)
  /\ FailFinish(w)
  /\ UNCHANGED <<ledger, hard_budget, execution, past, recovered_in_flight, minted, charge>>

CanRetry ==
  /\ ~recovered_in_flight /\ ~persistence_failed
  /\ hard_budget => Loads(reservations) /\ ~Blocked(execution)

Retry(w, id) ==
  /\ pc[w] = "deciding"
  /\ Cardinality(sent[w]) < MaxAttempts
  /\ CanRetry
  /\ Enter(w, id)
  /\ UNCHANGED <<ledger, journal, accountant, sent, charge>>

\* An error that is not retryable, no attempt left, can_retry false, or the deadline.
GiveUp(w) ==
  /\ pc[w] = "deciding"
  /\ EndRequest(w)
  /\ UNCHANGED <<ledger, journal, accountant, minted, charge>>

-----------------------------------------------------------------------------
\* What summary() calls complete coverage: no begin without its finish, no unknown
\* cost and no call that the budget did not settle.
Complete ==
  \A id \in Begun : /\ journal[id].finish # Pending
                    /\ journal[id].finish.cost # NoCost
                    /\ journal[id].finish.clean

-----------------------------------------------------------------------------
\* The steps of an attempt under way.
Progress(w) ==
  \/ CheckFlags(w)
  \/ HoldCeiling(w) \/ ReserveRaises(w)
  \/ AppendBegin(w) \/ AppendBeginRaises(w)
  \/ Withhold(w) \/ Send(w) \/ Answer(w)
  \/ FinishRejected(w)
  \/ FinalizeLedger(w) \/ FinalizeRaises(w)
  \/ AppendFinish(w) \/ AppendFinishRaises(w)
  \/ GiveUp(w)

Next ==
  \/ \E o \in Owners : Launch(o)
  \/ Crash
  \/ \E w \in Workers, id \in Ids : StartRequest(w, id) \/ Retry(w, id)
  \/ \E w \in Workers : Progress(w)

Spec == Init /\ [][Next]_vars

-----------------------------------------------------------------------------
(* Properties *)

\* Every variable stays in its type.
TypeOK ==
  /\ LedgerTypeOK
  /\ hard_budget \in BOOLEAN
  /\ DOMAIN journal \subseteq Ids /\ journal \in [DOMAIN journal -> Events]
  /\ execution \in Owners \union {None} /\ past \subseteq Owners
  /\ recovered_in_flight \in BOOLEAN /\ persistence_failed \in BOOLEAN
  /\ pc \in [Workers -> Places]
  /\ call \in [Workers -> Ids \union {None}]
  /\ answer \in [Workers -> Answers]
  /\ sent \in [Workers -> SUBSET Ids]
  /\ minted \subseteq Ids
  /\ DOMAIN charge \subseteq Ids /\ charge \in [DOMAIN charge -> Amounts]

\* Nothing is sent before its durable traces are down: a dispatched call is in the
\* journal and, under a hard budget, in the ledger, in whatever order the writes of
\* concurrent workers fail or the process dies.
TracedBeforeSend ==
  \A id \in Dispatched : id \in Begun /\ (hard_budget => id \in DOMAIN reservations)

\* The money the provider really charges stays within the cap, across every crash,
\* retry and failed write, as far as each charge stays within its own ceiling (a
\* charge above it counts here for its ceiling, and blocks the ledger once known).
ChargedUnits ==
  {u \in Dispatched \X (1..Cap) :
     u[2] <= charge[u[1]] /\ u[2] <= reservations[u[1]].reserved}

SpendWithinCap == hard_budget => Cardinality(ChargedUnits) <= Cap

\* A begin of another execution without its finish: nobody will ever know its charge.
Lost == {id \in Unfinished : journal[id].instance # execution}

\* Once an execution died with a call in the journal unfinished, no later execution
\* sends anything through that journal, budget or not.
LostCallStopsDispatch == [][Lost # {} => charge' = charge]_<<journal, charge, execution>>

\* A complete summary is the truth about the money: it knows every call the provider
\* was sent, and prices each call, sent or withheld, at what was charged for it.
CompleteCoverageIsTrue ==
  Complete => /\ Dispatched \subseteq Begun
              /\ \A id \in Begun :
                   journal[id].finish.cost = IF id \in Dispatched THEN charge[id] ELSE 0

\* The journal never claims a settlement the ledger does not have: a clean finish
\* under a hard budget stands on a finalized row with the same cost.
JournalAgreesWithLedger ==
  hard_budget =>
    \A id \in Begun :
      journal[id].finish.clean =>
        /\ id \in DOMAIN reservations
        /\ reservations[id].status = "finalized"
        /\ reservations[id].actual = journal[id].finish.cost

\* The ledger's file is the truth about the money: a hold that is settled was settled at what
\* the provider charged for its call, and one settled as not sent is never sent afterwards,
\* although a finish() that raised is called again by the handler around it, with another
\* outcome, and the process may die between the charge, the row and the journal's event.
SettledAtTheCharge ==
  hard_budget =>
    \A id \in DOMAIN reservations :
      reservations[id].status = "finalized" =>
        reservations[id].actual = IF id \in Dispatched THEN charge[id] ELSE 0

\* Under a hard budget no request sends an attempt on top of one whose price is still
\* unknown: a retry never doubles a charge that may already have been made.
NoBlindRetry ==
  hard_budget =>
    \A w \in Workers : \A id \in sent[w] :
      pc[w] \in {"reserving", "recording", "begun"} => journal[id].finish.cost # NoCost

=============================================================================
