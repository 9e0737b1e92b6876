---------------------------- MODULE OrdinaryLayout ----------------------------
(**************************************************************************************)
(* ordinary_layout_service.py, ordinary_layout_manager.py, ordinary_auto_layout.py,   *)
(* ordinary_layout_accounting.py: the layout of a translated document. A job has a    *)
(* folder of its own, in which its document is prepared as a baseline with a review;  *)
(* suggestions for the review are bought page by page; a document is selected, or     *)
(* published by the automatic stage, as the delivery, which the job log freezes.      *)
(*                                                                                    *)
(* The jobs here are those of one run folder, one resumed from the other, and share   *)
(* the files of the automatic stage there: the pointer to the paid suggestion of a    *)
(* kind ("included" in the translation, or its "recovery") and the candidate it made. *)
(* Stages, suggestions and the operator's requests are threads of one process, which  *)
(* may die at any step; the folders survive. A step is a call of the service, atomic  *)
(* in the folder's slot. The slot is not waited for: any call may raise instead.      *)
(**************************************************************************************)
EXTENDS Integers, Sequences, FiniteSets

CONSTANTS
  Jobs,
  Manual,         \* the nonces of the suggestions an operator asks for
  N,              \* the pages of the document
  MaxGeneration,  \* bound: the generations of a review
  MaxEvents,      \* bound: what an operator does and what goes wrong, but for deaths
  None

Kinds   == {"included", "recovery"}
Ops     == Jobs \X (Kinds \union Manual)            \* the suggestions
Drafts  == Kinds \union {"operator"}                \* the nonces of preparations
Authors == Kinds \union Manual \union {"operator"}  \* of the generations of a review

Deliveries == [kind : {"original", "reviewed", "automatic"}, baseline : 1..Cardinality(Drafts),
               generation : 0..MaxGeneration]
Pointers   == [job : Jobs, baseline : 1..Cardinality(Drafts), generation : 0..MaxGeneration]

\* The nonces that operators draw are none of the stages' own.
ASSUME LayoutAssumption ==
  /\ N \in Nat \ {0} /\ MaxGeneration \in Nat /\ MaxEvents \in Nat
  /\ Manual \intersect Drafts = {}
  /\ None \notin Deliveries \union Pointers

VARIABLES
  folder,      \* of each job
  op,          \* the directory of each suggestion
  charges,     \* of each suggestion (observation, but for billed)
  authorized,  \* the budget authorizations of each job
  pointer,     \* operation.json of each kind, in the run folder
  candidate,   \* the kinds that have a candidate.json there
  stage,       \* the automatic stage of each job
  runner,      \* the suggestions that run
  events       \* bound

shared == <<authorized, pointer, candidate>>
vars   == <<folder, op, charges, shared, stage, runner, events>>

-----------------------------------------------------------------------------
(* The folder of a job *)

\* The pointers of prepared/; of each other directory under baselines/ the number its manifest
\* gives it, or Incomplete; the authors of the current review's generations; the last row of
\* selections/; automatic.json; frozen.json.
Incomplete == -1

FreshFolder ==
  [prepared |-> <<>>, drafts |-> [n \in Drafts |-> 0], history |-> <<>>,
   selection |-> None, automatic |-> None, frozen |-> None]

Baseline(j)   == Len(folder[j].prepared)
Generation(j) == Len(folder[j].history)
Frozen(j)     == folder[j].frozen # None

\* _view: what is delivered, and whether it is stale.
Delivery(j) == IF folder[j].selection # None THEN folder[j].selection ELSE folder[j].automatic

Stale(j) ==
  \/ Delivery(j).baseline # Baseline(j)
  \/ ~Frozen(j) /\ Delivery(j).kind = "reviewed" /\ Delivery(j).generation # Generation(j)

\* The document may be taken: a candidate or a reviewed artifact is verified against the review.
Deliverable(j) ==
  /\ Delivery(j) # None /\ ~Stale(j)
  /\ (Delivery(j).kind = "automatic" \/ (Delivery(j).kind = "reviewed" /\ ~Frozen(j)))
       => Delivery(j).generation = Generation(j)

OpsOf(j) == {o \in Ops : o[1] = j /\ op[o].state # "none"}

\* _require_settled
Settled(j) == \A o \in OpsOf(j) :
  op[o].state = "begun" /\ op[o].result # "none" /\ op[o].summary = "priced"

\* layout_costs: directories without an intent do not count.
CostsComplete(j) ==
  \A o \in OpsOf(j) : op[o].state = "begun" => op[o].summary = "priced"

\* _budget
HasBudget(j) == \E k \in Kinds : authorized[j][k] \in {"automatic", "operator"}

-----------------------------------------------------------------------------
(* A suggestion's directory: its intent, its cancel.json, how many pages have a valid response  *)
(* and its result; and the requests sent, those of an unknown outcome, those in the summary.     *)

FreshOp ==
  [state |-> "none", baseline |-> 0, generation |-> 0, cancel |-> FALSE, answered |-> 0,
   summary |-> "none", result |-> "none", landed |-> 0]

NoCharges == [sent |-> 0, unknown |-> 0, billed |-> 0]

\* Where a suggestion runs, and the result it will report.
Idle == [step |-> "idle", result |-> "none", landed |-> 0]

\* Where a stage is: which kind, and what prepare returned.
Unstarted == [step |-> "unstarted", kind |-> "included", baseline |-> 0, generation |-> 0]

Attached(j)   == stage[j].step \notin {"unstarted", "gone"}
Formatting(j) == Attached(j) /\ stage[j].step \notin {"raw_fallback", "laid_out"}

Init ==
  /\ folder = [j \in Jobs |-> FreshFolder]
  /\ op = [o \in Ops |-> FreshOp]
  /\ charges = [o \in Ops |-> NoCharges]
  /\ authorized = [j \in Jobs |-> [k \in Kinds |-> "none"]]
  /\ pointer = [k \in Kinds |-> None]
  /\ candidate = {}
  /\ stage = [j \in Jobs |-> Unstarted]
  /\ runner = [o \in Ops |-> Idle]
  /\ events = 0

\* The stage of a job goes to a step; whatever a stage meets, it ends as the raw document.
At(j, step) == stage[j].step = step
Goto(j, step) == stage' = [stage EXCEPT ![j].step = step]
Ends(j, step) == stage' = [stage EXCEPT ![j] = [Unstarted EXCEPT !.step = step]]
Fallback(j) == Ends(j, "raw_fallback")

\* An action that counts against the bound; the others leave it alone.
Counted == events < MaxEvents /\ events' = events + 1

-----------------------------------------------------------------------------
(* Preparing a baseline *)

\* prepare with a nonce: anew, or the pointer that an interrupted one left unwritten.
Prepared(j, n) ==
  /\ ~Frozen(j)
  /\ folder[j].drafts[n] \in {0, Baseline(j) + 1}
  /\ folder' = [folder EXCEPT ![j] =
                  [@ EXCEPT !.prepared = Append(folder[j].prepared, n), !.drafts[n] = Baseline(j) + 1,
                            !.history = <<>>]]

\* It fails on the way: before the manifest is written, or before the pointer is.
Unprepared(j, n) ==
  /\ ~Frozen(j) /\ folder[j].drafts[n] = 0
  /\ \E left \in {Incomplete, Baseline(j) + 1} :
       folder' = [folder EXCEPT ![j].drafts[n] = left]

IsPrepared(j, n) == \E i \in 1..Baseline(j) : folder[j].prepared[i] = n

OperatorPrepares(j) ==
  /\ Counted
  /\ Attached(j) /\ ~IsPrepared(j, "operator")
  /\ Prepared(j, "operator") \/ Unprepared(j, "operator")
  /\ UNCHANGED <<op, charges, shared, stage, runner>>

-----------------------------------------------------------------------------
(* A suggestion, asked for by the operator or by a stage *)

\* begin_suggestion: the guards; the directory and the intent; or the directory alone.
MayBegin(o, b, g) ==
  /\ op[o].state = "none"
  /\ Baseline(o[1]) = b /\ ~Frozen(o[1]) /\ Generation(o[1]) = g
  /\ \A prior \in OpsOf(o[1]) : op[prior].result # "none"
  /\ g < MaxGeneration

Begin(o, b, g) ==
  /\ MayBegin(o, b, g)
  /\ op' = [op EXCEPT ![o] = [@ EXCEPT !.state = "begun", !.baseline = b, !.generation = g]]
  /\ runner' = [runner EXCEPT ![o].step = "page"]

BeginFails(o, b, g) ==
  /\ MayBegin(o, b, g)
  /\ op' = [op EXCEPT ![o].state = "made"]
  /\ UNCHANGED runner

Suggest(o) ==
  /\ Counted
  /\ o[2] \in Manual /\ Attached(o[1]) /\ Baseline(o[1]) > 0
  /\ Begin(o, Baseline(o[1]), Generation(o[1])) \/ BeginFails(o, Baseline(o[1]), Generation(o[1]))
  /\ UNCHANGED <<folder, charges, shared, stage>>

CancelSuggestion(o) ==
  /\ Counted
  /\ op[o].state = "begun" /\ op[o].result = "none" /\ ~op[o].cancel
  /\ op' = [op EXCEPT ![o].cancel = TRUE]
  /\ UNCHANGED <<folder, charges, shared, stage, runner>>

Step(o, step) == runner' = [runner EXCEPT ![o].step = step]

\* cancellation_requested, or external_cancel_requested, which leaves cancel.json too.
Break(o) ==
  /\ runner[o].step \in {"page", "asking"} /\ op[o].cancel
  /\ Step(o, "applying")
  /\ UNCHANGED <<folder, op, charges, shared, stage, events>>

\* assert_current: the baseline is still the job's, and nothing is frozen.
Current(o) == op[o].baseline = Baseline(o[1]) /\ ~Frozen(o[1])

Page(o) ==
  /\ runner[o].step = "page" /\ ~op[o].cancel /\ Current(o) /\ HasBudget(o[1])
  /\ Step(o, "asking")
  /\ UNCHANGED <<folder, op, charges, shared, stage, events>>

Ask(o) ==
  /\ runner[o].step = "asking" /\ ~op[o].cancel
  /\ charges' = [charges EXCEPT ![o].sent = @ + 1]
  /\ Step(o, "asked")
  /\ UNCHANGED <<folder, op, shared, stage, events>>

\* The response is stored and is a valid proposal.
Answer(o) ==
  /\ runner[o].step = "asked"
  /\ op' = [op EXCEPT ![o].answered = @ + 1]
  /\ Step(o, IF op[o].answered + 1 = N THEN "applying" ELSE "page")
  /\ UNCHANGED <<folder, charges, shared, stage, events>>

\* The suggestion fails: what its result will say.
Failed(o) == runner' = [runner EXCEPT ![o] = [@ EXCEPT !.step = "summing", !.result = "failed"]]

\* The outcome of the request is unknown.
LoseAndRetry(o) ==  \* mutant: the client sends the request again by itself
  /\ Counted
  /\ runner[o].step = "asked"
  /\ charges' = [charges EXCEPT ![o].unknown = @ + 1]
  /\ Step(o, "asking")
  /\ UNCHANGED <<folder, op, shared, stage>>

Lose(o) ==
  /\ Counted
  /\ runner[o].step = "asked"
  /\ charges' = [charges EXCEPT ![o].unknown = @ + 1]
  /\ Failed(o)
  /\ UNCHANGED <<folder, op, shared, stage>>

\* The request fails, its response is of no use, the folder is busy, ...
Fail(o) ==
  /\ Counted
  /\ runner[o].step \in {"page", "asking", "asked", "applying"}
  /\ Failed(o)
  /\ UNCHANGED <<folder, op, charges, shared, stage>>

\* apply_suggestion saves the proposal as the review's next generation ...
ApplicableNow(o) ==  \* mutant: applied to whatever generation the review has
  Current(o)

Applicable(o) == Current(o) /\ Generation(o[1]) = op[o].generation

Saved(o) == folder' = [folder EXCEPT ![o[1]].history = Append(@, o[2])]

\* ... although its receipt may fail, and a cancel may come after it was looked for.
Apply(o) ==
  /\ runner[o].step = "applying" /\ op[o].answered > 0 /\ Applicable(o)
  /\ Saved(o)
  /\ \E result \in {"applied"} \union (IF op[o].cancel THEN {"cancelled"} ELSE {}) :
       runner' = [runner EXCEPT ![o] =
         [step |-> "summing", result |-> result, landed |-> Generation(o[1]) + 1]]
  /\ UNCHANGED <<op, charges, shared, stage, events>>

ApplyUnreceipted(o) ==
  /\ Counted
  /\ runner[o].step = "applying" /\ op[o].answered > 0 /\ Applicable(o)
  /\ Saved(o) /\ Failed(o)
  /\ UNCHANGED <<op, charges, shared, stage>>

\* The folder has changed, or there is no budget.
Refuse(o) ==
  /\ \/ runner[o].step = "page" /\ ~(Current(o) /\ HasBudget(o[1]))
     \/ runner[o].step = "applying" /\ ~Current(o)
     \/ runner[o].step = "applying" /\ op[o].answered > 0 /\ ~Applicable(o)
  /\ Failed(o)
  /\ UNCHANGED <<folder, op, charges, shared, stage, events>>

\* Cancelled before the first response: there is nothing to apply.
ApplyNothing(o) ==
  /\ runner[o].step = "applying" /\ op[o].answered = 0 /\ Current(o)
  /\ runner' = [runner EXCEPT ![o] = [@ EXCEPT !.step = "summing", !.result = "cancelled"]]
  /\ UNCHANGED <<folder, op, charges, shared, stage, events>>

\* accounting_summary.json
Sum(o) ==
  /\ runner[o].step = "summing"
  /\ op' = [op EXCEPT ![o].summary = IF charges[o].unknown = 0 THEN "priced" ELSE "unpriced"]
  /\ charges' = [charges EXCEPT ![o].billed = charges[o].sent]
  /\ Step(o, "finishing")
  /\ UNCHANGED <<folder, shared, stage, events>>

SumFails(o) ==
  /\ Counted
  /\ runner[o].step = "summing"
  /\ Step(o, "finishing")
  /\ UNCHANGED <<folder, op, charges, shared, stage>>

\* suggest returns or raises; a stage goes on only with a proposal that is whole and priced.
Returns(o, whole) ==
  /\ runner' = [runner EXCEPT ![o] = Idle]
  /\ IF o[2] \notin Kinds THEN UNCHANGED stage
     ELSE IF whole THEN Goto(o[1], "finish") ELSE Fallback(o[1])

Whole(o, result) == result = "applied" /\ op[o].answered = N /\ op[o].summary = "priced"

\* finish_suggestion: a result that is there already must be the same.
Finish(o) ==
  /\ runner[o].step = "finishing"
  /\ IF op[o].result = "none"
     THEN op' = [op EXCEPT ![o] = [@ EXCEPT !.result = runner[o].result, !.landed = runner[o].landed]]
     ELSE UNCHANGED op
  /\ Returns(o, op[o].result \in {"none", runner[o].result} /\ Whole(o, runner[o].result))
  /\ UNCHANGED <<folder, charges, shared, events>>

FinishFails(o) ==
  /\ Counted
  /\ runner[o].step = "finishing"
  /\ Returns(o, FALSE)
  /\ UNCHANGED <<folder, op, charges, shared>>

-----------------------------------------------------------------------------
(* What else the operator does *)

OperatorAuthorizes(j) ==
  /\ Counted
  /\ Attached(j) /\ authorized[j]["included"] = "none"
  /\ \E left \in {"made", "operator"} : authorized' = [authorized EXCEPT ![j]["included"] = left]
  /\ UNCHANGED <<folder, op, charges, pointer, candidate, stage, runner>>

\* save_decisions of the review, which knows nothing of the layout's folder
Edit(j) ==
  /\ Counted
  /\ Baseline(j) > 0 /\ Generation(j) < MaxGeneration
  /\ folder' = [folder EXCEPT ![j].history = Append(@, "operator")]
  /\ UNCHANGED <<op, charges, shared, stage, runner>>

SelectDelivery(j) ==
  /\ Counted
  /\ Attached(j) /\ Baseline(j) > 0 /\ ~Frozen(j)
  /\ \E d \in {[kind |-> "original", baseline |-> Baseline(j), generation |-> 0],
               [kind |-> "reviewed", baseline |-> Baseline(j), generation |-> Generation(j)]} :
       folder' = [folder EXCEPT ![j].selection = d]
  /\ UNCHANGED <<op, charges, shared, stage, runner>>

\* resolve_delivery with a freeze nonce
FreezeUnsettled(j) ==  \* mutant: a suggestion may still be running
  /\ Counted
  /\ Attached(j) /\ Baseline(j) > 0
  /\ ~Frozen(j) /\ Deliverable(j)
  /\ folder' = [folder EXCEPT ![j].frozen = Delivery(j)]
  /\ UNCHANGED <<op, charges, shared, stage, runner>>

Freeze(j) ==
  /\ Counted
  /\ Attached(j) /\ Baseline(j) > 0
  /\ Settled(j)
  /\ ~Frozen(j) /\ Deliverable(j)
  /\ folder' = [folder EXCEPT ![j].frozen = Delivery(j)]
  /\ UNCHANGED <<op, charges, shared, stage, runner>>

-----------------------------------------------------------------------------
(* The automatic stage: run_automatic_layout *)

\* _reserve: one job at a time of a run folder is active.
Reservable == \A j \in Jobs : ~Formatting(j)

\* The translation is complete.
Start(j) ==
  /\ At(j, "unstarted") /\ Reservable
  /\ Goto(j, "begin")
  /\ UNCHANGED <<folder, op, charges, shared, runner, events>>

\* recover_layout_job
Recover(j) ==
  /\ At(j, "raw_fallback") /\ Reservable
  /\ stage' = [stage EXCEPT ![j] = [Unstarted EXCEPT !.step = "begin", !.kind = "recovery"]]
  /\ UNCHANGED <<folder, op, charges, shared, runner, events>>

Busy == {"begin", "authorize", "prepare", "prepared", "pointed",
         "finish", "saved", "build", "publish", "mark"}

\* The stage finds itself cancelled (see TranslationJobs) or meets an error: a check that fails, a
\* busy folder.
StageFails(j) ==
  /\ stage[j].step \in Busy
  /\ Fallback(j)
  /\ UNCHANGED <<folder, op, charges, shared, runner, events>>

Touched(j) == folder[j].selection # None \/ folder[j].automatic # None \/ Frozen(j)

FailedPredecessorUnsettled ==  \* mutant: the included suggestion need not have ended
  pointer["included"] # None /\ "included" \notin candidate

\* _failed_predecessor: the included suggestion has failed, is priced, and nothing was made of it
\* nor of its folder, but for the candidate of the recovery itself.
FailedPredecessor ==
  LET p == pointer["included"]
      o == <<p.job, "included">> IN
  /\ p # None /\ "included" \notin candidate
  /\ op[o].result = "failed" /\ op[o].summary = "priced" /\ charges[o].billed > 0
  /\ Touched(p.job) => /\ "recovery" \in candidate
                       /\ pointer["recovery"].job = p.job /\ folder[p.job].automatic # None

MayRun(j, k) ==
  k = "recovery" => FailedPredecessor /\ (k \in candidate \/ ~Touched(j))

\* A paid suggestion is only finished. (A candidate is used again, unless it no longer verifies.)
NextStep(k) == IF pointer[k] # None THEN "finish" ELSE "authorize"

Enter(j) ==
  /\ At(j, "begin") /\ MayRun(j, stage[j].kind)
  /\ IF stage[j].kind \in candidate
     THEN Ends(j, "laid_out")
     ELSE Goto(j, NextStep(stage[j].kind))
  /\ UNCHANGED <<folder, op, charges, shared, runner, events>>

\* authorize_automatic, authorize_recovery
Authorize(j) ==
  /\ At(j, "authorize")
  /\ authorized[j][stage[j].kind] \in {"none", "automatic"}
  /\ authorized' = [authorized EXCEPT ![j][stage[j].kind] = "automatic"]
  /\ Goto(j, "prepare")
  /\ UNCHANGED <<folder, op, charges, pointer, candidate, runner, events>>

StagePrepares(j) ==
  /\ At(j, "prepare")
  /\ IF IsPrepared(j, stage[j].kind) THEN UNCHANGED folder ELSE Prepared(j, stage[j].kind)
  /\ stage' = [stage EXCEPT ![j] = [step |-> "prepared", kind |-> stage[j].kind,
                 baseline |-> Len(folder'[j].prepared), generation |-> Len(folder'[j].history)]]
  /\ UNCHANGED <<op, charges, shared, runner, events>>

\* operation.json; another job's is not replaced.
Point(j) ==
  /\ At(j, "prepared")
  /\ LET mine == [job |-> j, baseline |-> stage[j].baseline, generation |-> stage[j].generation] IN
       /\ pointer[stage[j].kind] \in {None, mine}
       /\ pointer' = [pointer EXCEPT ![stage[j].kind] = mine]
  /\ Goto(j, "pointed")
  /\ UNCHANGED <<folder, op, charges, authorized, candidate, runner, events>>

StageSuggests(j) ==
  /\ At(j, "pointed")
  /\ Begin(<<j, stage[j].kind>>, stage[j].baseline, stage[j].generation)
  /\ stage' = [stage EXCEPT ![j] = [Unstarted EXCEPT !.step = "suggest", !.kind = stage[j].kind]]
  /\ UNCHANGED <<folder, charges, shared, events>>

\* The stage fails on the way: with the directory of an authorization and no receipt, with half a
\* preparation, with the directory of a suggestion and no intent.
StageInterrupted(j) ==
  /\ Counted
  /\ \/ /\ At(j, "authorize") /\ authorized[j][stage[j].kind] = "none"
        /\ authorized' = [authorized EXCEPT ![j][stage[j].kind] = "made"]
        /\ UNCHANGED <<folder, op, runner>>
     \/ /\ At(j, "prepare")
        /\ Unprepared(j, stage[j].kind)
        /\ UNCHANGED <<op, authorized, runner>>
     \/ /\ At(j, "pointed")
        /\ BeginFails(<<j, stage[j].kind>>, stage[j].baseline, stage[j].generation)
        /\ UNCHANGED <<folder, authorized>>
  /\ Fallback(j)
  /\ UNCHANGED <<charges, pointer, candidate>>

\* The paid suggestion of the stage, of this job or of an earlier one
Paid(j) == <<pointer[stage[j].kind].job, stage[j].kind>>

\* _recover_settled_result: a suggestion that ended without a result, but has every page and a
\* price, is applied now, or was applied already; then its result is written.
Recoverable(o) ==
  /\ op[o].state = "begun" /\ op[o].result = "none" /\ ~op[o].cancel
  /\ op[o].summary = "priced" /\ charges[o].billed = N /\ op[o].answered = N

AppliedAlready(o) ==
  /\ Generation(o[1]) = op[o].generation + 1
  /\ folder[o[1]].history[op[o].generation + 1] = o[2]

RecoverResult(j) ==
  /\ At(j, "finish")
  /\ LET o == Paid(j) IN
       IF Recoverable(o)
       THEN /\ op[o].baseline = Baseline(o[1])
            /\ \/ AppliedAlready(o) /\ UNCHANGED folder
               \/ Applicable(o) /\ Saved(o)
            /\ Goto(j, "saved")
       ELSE UNCHANGED folder /\ Goto(j, "build")
  /\ UNCHANGED <<op, charges, shared, runner, events>>

WriteResult(j) ==
  /\ At(j, "saved")
  /\ LET o == Paid(j) IN
       /\ op[o].result \in {"none", "applied"}
       /\ op' = [op EXCEPT ![o] = [@ EXCEPT !.result = "applied", !.landed = op[o].generation + 1]]
  /\ Goto(j, "build")
  /\ UNCHANGED <<folder, charges, shared, runner, events>>

\* _finish_saved_proposals: the candidate is built of the generation the result names ...
AtResult(o) == op[o].baseline = Baseline(o[1]) /\ op[o].landed = Generation(o[1])

Build(j) ==
  /\ At(j, "build")
  /\ Whole(Paid(j), op[Paid(j)].result) /\ AtResult(Paid(j))
  /\ Goto(j, "publish")
  /\ UNCHANGED <<folder, op, charges, shared, runner, events>>

\* ... published by publish_automatic_candidate ...
Publish(j) ==
  /\ At(j, "publish")
  /\ LET i == Paid(j)[1]
         mine == [kind |-> "automatic", baseline |-> op[Paid(j)].baseline,
                  generation |-> op[Paid(j)].landed] IN
       /\ AtResult(Paid(j)) /\ ~Frozen(i) /\ Settled(i)
       /\ \/ folder[i].automatic = mine /\ UNCHANGED folder
          \/ /\ folder[i].automatic = None /\ folder[i].selection = None
             /\ folder' = [folder EXCEPT ![i].automatic = mine]
  /\ Goto(j, "mark")
  /\ UNCHANGED <<op, charges, shared, runner, events>>

\* ... and marked, if it is what the origin delivers.
Mark(j) ==
  /\ At(j, "mark")
  /\ LET i == Paid(j)[1] IN folder[i].selection = None /\ Deliverable(i) /\ CostsComplete(i)
  /\ candidate' = candidate \union {stage[j].kind}
  /\ Ends(j, "laid_out")
  /\ UNCHANGED <<folder, op, charges, authorized, pointer, runner, events>>

\* The process dies: its jobs are forgotten, and with them what runs for them.
Crash ==
  /\ stage' = [j \in Jobs |-> IF Attached(j) THEN [Unstarted EXCEPT !.step = "gone"] ELSE stage[j]]
  /\ runner' = [o \in Ops |-> Idle]
  /\ UNCHANGED <<folder, op, charges, shared, events>>

-----------------------------------------------------------------------------
Stage(j) ==
  \/ Start(j) \/ Recover(j) \/ StageFails(j) \/ Enter(j) \/ Authorize(j) \/ StagePrepares(j)
  \/ Point(j) \/ StageSuggests(j) \/ RecoverResult(j) \/ WriteResult(j)
  \/ Build(j) \/ Publish(j) \/ Mark(j)

Suggestion(o) ==
  \/ Page(o) \/ Break(o) \/ Ask(o) \/ Answer(o) \/ Apply(o) \/ ApplyNothing(o)
  \/ Refuse(o) \/ Sum(o) \/ Finish(o)

\* What the operator does, and what goes wrong
Operator(j) ==
  \/ OperatorPrepares(j) \/ OperatorAuthorizes(j) \/ Edit(j) \/ SelectDelivery(j) \/ Freeze(j)

Trouble(o) ==
  \/ Lose(o) \/ Fail(o) \/ ApplyUnreceipted(o) \/ SumFails(o) \/ FinishFails(o)

Next ==
  \/ \E j \in Jobs : Stage(j) \/ StageInterrupted(j) \/ Operator(j)
  \/ \E o \in Ops : Suggestion(o) \/ Suggest(o) \/ CancelSuggestion(o) \/ Trouble(o)
  \/ Crash

Spec == Init /\ [][Next]_vars

-----------------------------------------------------------------------------
(* Properties *)

Folders    == [prepared : Seq(Drafts), drafts : [Drafts -> Incomplete..Cardinality(Drafts)],
               history : Seq(Authors), selection : Deliveries \union {None},
               automatic : Deliveries \union {None}, frozen : Deliveries \union {None}]
Results    == {"none", "applied", "failed", "cancelled"}
Operations == [state : {"none", "made", "begun"}, baseline : 0..Cardinality(Drafts),
               generation : 0..MaxGeneration, cancel : BOOLEAN, answered : 0..N,
               summary : {"none", "priced", "unpriced"}, result : Results, landed : 0..MaxGeneration]
Stages     == [step : Busy \union {"unstarted", "suggest", "raw_fallback", "laid_out", "gone"},
               kind : Kinds, baseline : 0..Cardinality(Drafts), generation : 0..MaxGeneration]
Runners    == [step : {"idle", "page", "asking", "asked", "applying", "summing", "finishing"},
               result : Results, landed : 0..MaxGeneration]

\* The state has its type; in particular no suggestion sends more requests than there are pages.
TypeOK ==
  /\ folder \in [Jobs -> Folders]
  /\ \A j \in Jobs : Baseline(j) <= Cardinality(Drafts) /\ Generation(j) <= MaxGeneration
  /\ op \in [Ops -> Operations]
  /\ charges \in [Ops -> [sent : 0..N, unknown : 0..N, billed : 0..N]]
  /\ authorized \in [Jobs -> [Kinds -> {"none", "made", "automatic", "operator"}]]
  /\ pointer \in [Kinds -> Pointers \union {None}] /\ candidate \subseteq Kinds
  /\ stage \in [Jobs -> Stages] /\ runner \in [Ops -> Runners]
  /\ events \in 0..MaxEvents

\* A suggestion never overrides a review that has gone on: in the history of the current review it
\* stands as the successor of the generation it was asked for, once; and a result that says it was
\* applied, while its baseline is the current one, names that place, whoever wrote it.
SuggestionsKeepEdits ==
  \A o \in Ops : LET history == folder[o[1]].history IN
    /\ \A i \in 1..Len(history) : history[i] = o[2] =>
         op[o].baseline = Baseline(o[1]) /\ i = op[o].generation + 1
    /\ op[o].result = "applied" /\ op[o].baseline = Baseline(o[1]) =>
         op[o].landed = op[o].generation + 1 /\ history[op[o].landed] = o[2]

\* However often the translation is resumed or its layout recovered, by whichever job, a kind of the
\* automatic stage is paid for once, by the job the pointer names, with a finished authorization; and
\* the recovery only after the included suggestion has failed with a known price.
AutomaticPayments ==
  \A o \in Ops : o[2] \in Kinds /\ charges[o].sent > 0 =>
    /\ pointer[o[2]] # None /\ pointer[o[2]].job = o[1]
    /\ authorized[o[1]][o[2]] = "automatic"
    /\ o[2] = "recovery" => \E p \in Jobs : LET included == <<p, "included">> IN
         /\ op[included].result = "failed" /\ op[included].summary = "priced"
         /\ charges[included].sent > 0

\* The folder of a job keeps what LayoutDelivery promises.
Promise == INSTANCE LayoutDelivery WITH
  Suggestions <- Kinds \union Manual,
  Documents   <- Deliveries,
  delivery    <- [j \in Jobs |-> Delivery(j)],
  frozen      <- {j \in Jobs : Frozen(j)},
  sent        <- [o \in Ops |-> charges[o].sent],
  priced      <- {o \in Ops : op[o].summary = "priced"}

\* The delivery of a job is frozen only when the price of every request sent for it is known; after
\* that no step of any stage, suggestion or request replaces the document, and no suggestion that was
\* under way is paid for. A priced suggestion, finished or recovered, sends nothing more.
DeliverySpec == Promise!Spec

=============================================================================
