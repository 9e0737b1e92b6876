-------------------------- MODULE OrdinaryLayoutProof --------------------------
(********************************************************************************)
(* The layout of a translation for any number of jobs, suggestions and pages.   *)
(* A suggestion runs against a folder that others change meanwhile, and its end *)
(* may be written by its own thread or by a stage that resumes it, so the       *)
(* argument keeps three things apart: where a suggestion stands with its paid   *)
(* requests (OpsFit, RunnersFit), what a stage relies on when it goes on        *)
(* (PaymentsFit, StagesFit), and what of it the review has (HistoryFits,        *)
(* SavedFits). A frozen delivery is then one that nothing runs for any more.    *)
(********************************************************************************)
EXTENDS OrdinaryLayout, FiniteSetTheorems, TLAPS

Begun(o)     == op[o].state = "begun"
Asks(o)      == runner[o].step \in {"page", "asking", "asked", "applying"}
Placed(o, i) == i \in 1..Generation(o[1]) /\ folder[o[1]].history[i] = o[2]

\* A preparation knows its place, so that none is prepared twice.
FoldersFit ==
  \A j \in Jobs : \A i \in 1..Baseline(j) : folder[j].drafts[folder[j].prepared[i]] = i

\* A suggestion without an intent has done nothing; one that has an intent is of a baseline and a
\* generation that the folder has had; what is billed was sent; the summary comes after the requests.
OpFits(o) ==
  /\ ~Begun(o) => /\ op[o].summary = "none" /\ op[o].result = "none" /\ op[o].answered = 0
                  /\ charges[o] = NoCharges /\ runner[o] = Idle
  /\ Begun(o) => op[o].baseline \in 1..Baseline(o[1]) /\ op[o].generation < MaxGeneration
  /\ op[o].answered <= charges[o].sent /\ charges[o].billed <= charges[o].sent
  /\ op[o].summary # "none" => runner[o].step \in {"idle", "finishing"}

OpsFit == \A o \in Ops : OpFits(o)

\* A request is sent for the page after those that were answered; the stage of a kind waits for it.
RunnerFits(o) ==
  /\ Asks(o) => charges[o].unknown = 0 /\ runner[o].result = "none"
  /\ runner[o].step \in {"page", "asking"} => charges[o].sent = op[o].answered /\ op[o].answered < N
  /\ runner[o].step = "asked" => charges[o].sent = op[o].answered + 1
  /\ runner[o].step # "idle" /\ o[2] \in Kinds => At(o[1], "suggest") /\ stage[o[1]].kind = o[2]

RunnersFit == \A o \in Ops : RunnerFits(o)

\* The included suggestion of some job has failed, and what it cost is known.
Predecessor == \E p \in Jobs : LET included == <<p, "included">> IN
  op[included].result = "failed" /\ op[included].summary = "priced" /\ charges[included].sent > 0

\* A suggestion of a stage was asked for by the job of the pointer, with an authorization.
PaymentFits(o) == o[2] \in Kinds /\ Begun(o) =>
  /\ pointer[o[2]] # None /\ pointer[o[2]].job = o[1]
  /\ authorized[o[1]][o[2]] = "automatic"
  /\ o[2] = "recovery" => Predecessor

PaymentsFit == \A o \in Ops : PaymentFits(o)

\* What a stage has established on its way.
StageFits(j) ==
  /\ stage[j].step \in {"authorize", "prepare", "prepared", "pointed"} /\ stage[j].kind = "recovery"
       => Predecessor
  /\ stage[j].step \in {"prepare", "prepared", "pointed"} => authorized[j][stage[j].kind] = "automatic"
  /\ stage[j].step \in {"prepared", "pointed"} => stage[j].baseline > 0
  /\ At(j, "pointed") => pointer[stage[j].kind] # None /\ pointer[stage[j].kind].job = j
  /\ stage[j].step \in {"finish", "saved", "build", "publish", "mark"} => pointer[stage[j].kind] # None
  /\ At(j, "saved") => Begun(Paid(j))
  /\ stage[j].step \in {"publish", "mark"} => op[Paid(j)].result = "applied"

StagesFit == \A j \in Jobs : StageFits(j)

\* In the review of its baseline a suggestion has no place but its own, and a suggestion that says
\* it was applied, in its result or in the thread that has still to write it, has that place.
HistoryFitsFor(o) ==
  /\ \A i \in 1..Generation(o[1]) : folder[o[1]].history[i] = o[2] =>
        Begun(o) /\ op[o].baseline = Baseline(o[1]) /\ i = op[o].generation + 1
  /\ op[o].baseline = Baseline(o[1]) =>
       /\ op[o].result = "applied" => op[o].landed = op[o].generation + 1 /\ Placed(o, op[o].landed)
       /\ runner[o].result = "applied" =>
            runner[o].landed = op[o].generation + 1 /\ Placed(o, runner[o].landed)

HistoryFits == \A o \in Ops : HistoryFitsFor(o)

\* So has one that a stage has saved and is about to say so.
SavedFitsFor(j) == At(j, "saved") /\ op[Paid(j)].baseline = Baseline(Paid(j)[1])
                     => Placed(Paid(j), op[Paid(j)].generation + 1)

SavedFits == \A j \in Jobs : SavedFitsFor(j)

FrozenFits == \A j \in Jobs : Frozen(j) => Settled(j)

IInv ==
  /\ TypeOK /\ FoldersFit
  /\ OpsFit /\ RunnersFit /\ PaymentsFit /\ StagesFit
  /\ HistoryFits /\ SavedFits /\ FrozenFits

-----------------------------------------------------------------------------
(* What happens to a folder *)

\* There are three nonces to prepare with.
LEMMA DraftsCounted == Cardinality(Drafts) = 3
<1>1. Drafts = {"included", "recovery", "operator"}
  BY DEF Drafts, Kinds
<1>2. IsFiniteSet({"included"}) /\ Cardinality({"included"}) = 1
  BY FS_Singleton
<1>3. IsFiniteSet({"included", "recovery"}) /\ Cardinality({"included", "recovery"}) = 2
  <2>1. {"included", "recovery"} = {"included"} \union {"recovery"} /\ "recovery" \notin {"included"}
    OBVIOUS
  <2> QED
    BY <1>2, <2>1, FS_AddElement
<1>4. Cardinality({"included", "recovery", "operator"}) = 3
  <2>1. /\ {"included", "recovery", "operator"} = {"included", "recovery"} \union {"operator"}
        /\ "operator" \notin {"included", "recovery"}
    OBVIOUS
  <2> QED
    BY <1>3, <2>1, FS_AddElement
<1> QED
  BY <1>1, <1>4

\* The folder of a job is one.
LEMMA FolderTypes ==
  ASSUME TypeOK, NEW j \in Jobs
  PROVE  /\ folder[j] \in Folders /\ Baseline(j) \in Nat /\ Generation(j) \in Nat
         /\ folder[j].prepared \in Seq(Drafts) /\ folder[j].history \in Seq(Authors)
         /\ folder[j].drafts \in [Drafts -> Incomplete..Cardinality(Drafts)]
         /\ Baseline(j) <= 3 /\ Generation(j) <= MaxGeneration
<1>1. folder[j] \in Folders /\ Baseline(j) <= 3 /\ Generation(j) <= MaxGeneration
  BY DraftsCounted DEF TypeOK
<1> QED
  BY <1>1 DEF Folders, Baseline, Generation

\* A nonce that was not prepared, or not finished, has no place yet.
LEMMA Unplaced ==
  ASSUME TypeOK, FoldersFit, NEW j \in Jobs, NEW n \in Drafts,
         folder[j].drafts[n] \in {0, Baseline(j) + 1}
  PROVE  ~IsPrepared(j, n)
BY FolderTypes DEF FoldersFit, IsPrepared

\* And there is room for it.
LEMMA RoomForDraft ==
  ASSUME TypeOK, FoldersFit, NEW j \in Jobs, NEW n \in Drafts, ~IsPrepared(j, n)
  PROVE  Baseline(j) + 1 \in 1..3
<1> DEFINE p == folder[j].prepared
<1>1. /\ p \in Seq(Drafts) /\ Len(p) \in Nat /\ Len(p) <= 3
      /\ \A i \in 1..Len(p) : p[i] \in Drafts /\ p[i] # n /\ folder[j].drafts[p[i]] = i
  <2>1. p \in Seq(Drafts) /\ Len(p) \in Nat /\ Len(p) <= 3
    BY FolderTypes DEF Baseline
  <2>2. \A i \in 1..Len(p) : p[i] # n
    BY DEF IsPrepared, Baseline
  <2>3. \A i \in 1..Len(p) : folder[j].drafts[p[i]] = i
    BY DEF FoldersFit, Baseline
  <2>4. \A i \in 1..Len(p) : p[i] \in Drafts
    BY <2>1
  <2> QED
    BY <2>1, <2>2, <2>3, <2>4
<1>b. Baseline(j) = Len(p)
  BY DEF Baseline
<1> HIDE DEF p
<1>2. ASSUME Len(p) = 3 PROVE FALSE
  <2>1. {p[1], p[2], p[3], n} \subseteq {"included", "recovery", "operator"}
    BY <1>1, <1>2 DEF Drafts, Kinds
  <2>2. n # p[1] /\ n # p[2] /\ n # p[3]
    BY <1>1, <1>2
  <2>3. p[1] # p[2] /\ p[1] # p[3] /\ p[2] # p[3]
    BY <1>1, <1>2
  <2> QED
    BY <2>1, <2>2, <2>3
<1> QED
  BY <1>1, <1>b, <1>2

\* What a folder delivers, which only the operator's choice and a publication change.
SameDelivery(j) ==
  /\ folder'[j].selection = folder[j].selection /\ folder'[j].automatic = folder[j].automatic
  /\ folder'[j].frozen = folder[j].frozen

SameReview(j) == folder'[j].prepared = folder[j].prepared /\ folder'[j].history = folder[j].history

\* A preparation starts a review anew, of the next baseline ...
LEMMA PreparedIs ==
  ASSUME TypeOK, FoldersFit, NEW j \in Jobs, NEW n \in Drafts, Prepared(j, n)
  PROVE  /\ folder' \in [Jobs -> Folders] /\ FoldersFit'
         /\ Baseline(j)' = Baseline(j) + 1 /\ Baseline(j)' <= Cardinality(Drafts)
         /\ Generation(j)' = 0
         /\ \A i \in Jobs \ {j} : folder'[i] = folder[i]
         /\ SameDelivery(j) /\ ~Frozen(j)
<1> DEFINE b   == Baseline(j) + 1
           new == [folder[j] EXCEPT !.prepared = Append(folder[j].prepared, n), !.drafts[n] = b, !.history = <<>>]
<1>1. /\ folder[j] \in Folders /\ folder[j].prepared \in Seq(Drafts) /\ Baseline(j) \in Nat
      /\ folder[j].drafts \in [Drafts -> Incomplete..3]
  BY FolderTypes, DraftsCounted
<1>2. ~IsPrepared(j, n) /\ b \in 1..3
  <2>1. ~IsPrepared(j, n)
    BY Unplaced DEF Prepared
  <2> QED
    BY <2>1, RoomForDraft
<1>3. folder' = [folder EXCEPT ![j] = new]
  BY DEF Prepared
<1>4. [folder[j].drafts EXCEPT ![n] = b] \in [Drafts -> Incomplete..3]
  BY <1>1, <1>2 DEF Incomplete
<1>5. /\ new \in Folders
      /\ new.prepared = Append(folder[j].prepared, n) /\ new.history = <<>>
      /\ new.drafts = [folder[j].drafts EXCEPT ![n] = b]
      /\ new.selection = folder[j].selection /\ new.automatic = folder[j].automatic
      /\ new.frozen = folder[j].frozen
  <2>1. Append(folder[j].prepared, n) \in Seq(Drafts) /\ <<>> \in Seq(Authors)
    BY <1>1
  <2> QED
    BY <1>1, <1>4, <2>1, DraftsCounted DEF Folders
<1> HIDE DEF new
<1>6. folder' \in [Jobs -> Folders] /\ folder'[j] = new
      /\ \A i \in Jobs \ {j} : folder'[i] = folder[i]
  BY <1>3, <1>5 DEF TypeOK
<1>7. Baseline(j)' = b /\ Generation(j)' = 0
  BY <1>1, <1>5, <1>6 DEF Baseline, Generation
<1>8. FoldersFit'
  <2>1. ASSUME NEW i \in 1..b PROVE new.drafts[new.prepared[i]] = i
    <3>1. CASE i = b
      <4>1. new.prepared[i] = n
        BY <1>1, <1>5, <3>1 DEF Baseline
      <4> QED
        BY <1>1, <1>5, <3>1, <4>1
    <3>2. CASE i \in 1..Baseline(j)
      <4>1. new.prepared[i] = folder[j].prepared[i] /\ folder[j].prepared[i] \in Drafts
        BY <1>1, <1>5, <3>2 DEF Baseline
      <4>2. folder[j].prepared[i] # n
        BY <1>2, <3>2 DEF IsPrepared
      <4> QED
        BY <1>1, <1>5, <3>2, <4>1, <4>2 DEF FoldersFit
    <3> QED
      BY <1>1, <3>1, <3>2
  <2>2. ASSUME NEW i \in Jobs \ {j} PROVE \A k \in 1..Baseline(i)' :
                                            folder'[i].drafts[folder'[i].prepared[k]] = k
    BY <1>6 DEF FoldersFit, Baseline
  <2> QED
    BY <1>6, <1>7, <2>1, <2>2 DEF FoldersFit
<1> QED
  BY <1>2, <1>5, <1>6, <1>7, <1>8, DraftsCounted DEF SameDelivery, Prepared

\* ... one that fails leaves the review alone ...
LEMMA UnpreparedIs ==
  ASSUME TypeOK, FoldersFit, NEW j \in Jobs, NEW n \in Drafts, Unprepared(j, n)
  PROVE  /\ folder' \in [Jobs -> Folders] /\ FoldersFit'
         /\ \A i \in Jobs : SameReview(i) /\ SameDelivery(i)
<1>1. PICK left \in {Incomplete, Baseline(j) + 1} : folder' = [folder EXCEPT ![j].drafts[n] = left]
  BY DEF Unprepared
<1>2. /\ folder[j] \in Folders /\ folder[j].prepared \in Seq(Drafts) /\ Baseline(j) \in Nat
      /\ folder[j].drafts \in [Drafts -> Incomplete..3]
  BY FolderTypes, DraftsCounted
<1>3. ~IsPrepared(j, n) /\ left \in Incomplete..3
  <2>1. ~IsPrepared(j, n)
    BY Unplaced DEF Unprepared
  <2> QED
    BY <2>1, RoomForDraft DEF Incomplete
<1> DEFINE new == [folder[j] EXCEPT !.drafts[n] = left]
<1>4. folder' = [folder EXCEPT ![j] = new]
  BY <1>1
<1>5. [folder[j].drafts EXCEPT ![n] = left] \in [Drafts -> Incomplete..3]
  BY <1>2, <1>3
<1>6. /\ new \in Folders
      /\ new.prepared = folder[j].prepared /\ new.history = folder[j].history
      /\ new.drafts = [folder[j].drafts EXCEPT ![n] = left]
      /\ new.selection = folder[j].selection /\ new.automatic = folder[j].automatic
      /\ new.frozen = folder[j].frozen
  BY <1>2, <1>5, DraftsCounted DEF Folders
<1> HIDE DEF new
<1>7. folder' \in [Jobs -> Folders] /\ folder'[j] = new
      /\ \A i \in Jobs \ {j} : folder'[i] = folder[i]
  BY <1>4, <1>6 DEF TypeOK
<1>8. \A i \in Jobs : SameReview(i) /\ SameDelivery(i)
  BY <1>6, <1>7 DEF SameReview, SameDelivery
<1>9. FoldersFit'
  <2>1. \A i \in Jobs : Baseline(i)' = Baseline(i)
    BY <1>8 DEF SameReview, Baseline
  <2>2. \A i \in 1..Baseline(j) : folder[j].prepared[i] # n /\ folder[j].prepared[i] \in Drafts
    BY <1>2, <1>3 DEF IsPrepared, Baseline
  <2>3. \A i \in 1..Baseline(j) : new.drafts[new.prepared[i]] = i
    BY <1>2, <1>6, <2>2 DEF FoldersFit
  <2> QED
    BY <1>7, <2>1, <2>3 DEF FoldersFit
<1> QED
  BY <1>7, <1>8, <1>9

\* ... a review goes on by a generation of an author's ...
Grows(j, author) == folder' = [folder EXCEPT ![j].history = Append(@, author)]

\* It stays a folder of the same baseline and delivery, and the new generation is the author's.
LEMMA GrowsIs ==
  ASSUME TypeOK, FoldersFit, NEW j \in Jobs, NEW author \in Authors, Grows(j, author),
         Generation(j) < MaxGeneration
  PROVE  /\ folder' \in [Jobs -> Folders] /\ FoldersFit'
         /\ \A i \in Jobs : SameDelivery(i) /\ Baseline(i)' = Baseline(i)
         /\ \A i \in Jobs \ {j} : folder'[i] = folder[i]
         /\ Generation(j)' = Generation(j) + 1 /\ Generation(j)' \in 0..MaxGeneration
         /\ folder'[j].history[Generation(j) + 1] = author
         /\ \A i \in 1..Generation(j) : folder'[j].history[i] = folder[j].history[i]
<1> DEFINE new == [folder[j] EXCEPT !.history = Append(@, author)]
<1>1. folder[j] \in Folders /\ folder[j].history \in Seq(Authors) /\ Generation(j) \in Nat
  BY FolderTypes
<1>2. folder' = [folder EXCEPT ![j] = new]
  BY DEF Grows
<1>3. /\ new \in Folders
      /\ new.history = Append(folder[j].history, author)
      /\ new.prepared = folder[j].prepared /\ new.drafts = folder[j].drafts
      /\ new.selection = folder[j].selection /\ new.automatic = folder[j].automatic
      /\ new.frozen = folder[j].frozen
  <2>1. Append(folder[j].history, author) \in Seq(Authors)
    BY <1>1
  <2> QED
    BY <1>1, <2>1 DEF Folders
<1> HIDE DEF new
<1>4. folder' \in [Jobs -> Folders] /\ folder'[j] = new
      /\ \A i \in Jobs \ {j} : folder'[i] = folder[i]
  BY <1>2, <1>3 DEF TypeOK
<1>5. \A i \in Jobs : SameDelivery(i) /\ Baseline(i)' = Baseline(i)
  BY <1>3, <1>4 DEF SameDelivery, Baseline
<1>6. FoldersFit'
  BY <1>3, <1>4, <1>5 DEF FoldersFit
<1>7. /\ Generation(j)' = Generation(j) + 1
      /\ folder'[j].history[Generation(j) + 1] = author
      /\ \A i \in 1..Generation(j) : folder'[j].history[i] = folder[j].history[i]
  BY <1>1, <1>3, <1>4 DEF Generation
<1> QED
  BY <1>1, <1>4, <1>5, <1>6, <1>7, LayoutAssumption

\* ... and a choice, a publication or a freeze leaves it alone.
LEMMA DeliveryIs ==
  ASSUME TypeOK, FoldersFit, NEW j \in Jobs, NEW d \in Deliveries,
         \/ folder' = [folder EXCEPT ![j].selection = d]
         \/ folder' = [folder EXCEPT ![j].automatic = d]
         \/ folder' = [folder EXCEPT ![j].frozen = d]
  PROVE  /\ folder' \in [Jobs -> Folders] /\ FoldersFit'
         /\ \A i \in Jobs : SameReview(i)
         /\ \A i \in Jobs \ {j} : SameDelivery(i)
<1>1. folder[j] \in Folders
  BY FolderTypes
<1>2. PICK new : /\ folder' = [folder EXCEPT ![j] = new]
                 /\ \/ new = [folder[j] EXCEPT !.selection = d]
                    \/ new = [folder[j] EXCEPT !.automatic = d]
                    \/ new = [folder[j] EXCEPT !.frozen = d]
  OBVIOUS
<1>3. /\ new \in Folders
      /\ new.prepared = folder[j].prepared /\ new.history = folder[j].history
      /\ new.drafts = folder[j].drafts
  BY <1>1, <1>2 DEF Folders
<1>4. folder' \in [Jobs -> Folders] /\ folder'[j] = new
      /\ \A i \in Jobs \ {j} : folder'[i] = folder[i]
  BY <1>2, <1>3 DEF TypeOK
<1>5. \A i \in Jobs : SameReview(i) /\ folder'[i].drafts = folder[i].drafts
  BY <1>3, <1>4 DEF SameReview
<1>6. FoldersFit'
  BY <1>5 DEF FoldersFit, SameReview, Baseline
<1> QED
  BY <1>4, <1>5, <1>6 DEF SameDelivery

-----------------------------------------------------------------------------
(* How the rest of the state moves with a step *)

\* What a suggestion has done stands.
OpMoves(o) ==
  /\ Begun(o) => /\ op'[o].state = "begun" /\ op'[o].baseline = op[o].baseline
                 /\ op'[o].generation = op[o].generation
  /\ op[o].result # "none" => op'[o].result = op[o].result
  /\ op[o].summary = "priced" => op'[o].summary = "priced"
  /\ charges[o].sent <= charges'[o].sent
  /\ op'[o].state = op[o].state \/ ~Frozen(o[1])

\* It says that it was applied only where it said so already.
SaysNoMore(o) ==
  /\ op'[o].result = "applied" =>
       \/ op[o].result = "applied" /\ op'[o].landed = op[o].landed
       \/ runner[o].result = "applied" /\ op'[o].landed = runner[o].landed
  /\ runner'[o].result = "applied" => runner[o].result = "applied" /\ runner'[o].landed = runner[o].landed

\* A review stays, starts anew or goes on; by a suggestion, where that may be applied.
ReviewMoves(o) ==
  \/ SameReview(o[1])
  \/ Baseline(o[1])' = Baseline(o[1]) + 1 /\ Generation(o[1])' = 0
  \/ /\ Baseline(o[1])' = Baseline(o[1]) /\ Generation(o[1])' = Generation(o[1]) + 1
     /\ \A i \in 1..Generation(o[1]) : folder'[o[1]].history[i] = folder[o[1]].history[i]
     /\ folder'[o[1]].history[Generation(o[1]) + 1] = o[2] =>
          Begun(o) /\ op[o].baseline = Baseline(o[1]) /\ op[o].generation = Generation(o[1])

PointersStand ==
  /\ \A k \in Kinds : pointer[k] # None => pointer'[k] = pointer[k]
  /\ \A j \in Jobs, k \in Kinds : authorized[j][k] = "automatic" => authorized'[j][k] = "automatic"

\* A suggestion is a job's, and is in its types.
LEMMA OpTypes ==
  ASSUME TypeOK, NEW o \in Ops
  PROVE  /\ o[1] \in Jobs /\ o[2] \in Kinds \union Manual /\ o = <<o[1], o[2]>>
         /\ op[o] \in Operations /\ runner[o] \in Runners
         /\ charges[o] \in [sent : 0..N, unknown : 0..N, billed : 0..N]
         /\ Baseline(o[1]) \in Nat /\ Generation(o[1]) \in Nat
BY FolderTypes DEF TypeOK, Ops

\* The suggestion that a stage goes on with is one.
LEMMA PaidIs ==
  ASSUME TypeOK, NEW j \in Jobs, pointer[stage[j].kind] # None
  PROVE  Paid(j) \in Ops /\ Paid(j)[1] \in Jobs /\ Paid(j)[2] = stage[j].kind /\ stage[j].kind \in Kinds
<1>1. stage[j].kind \in Kinds
  BY DEF TypeOK, Stages
<1>2. pointer[stage[j].kind] \in Pointers
  BY <1>1 DEF TypeOK
<1>3. pointer[stage[j].kind].job \in Jobs
  BY <1>2 DEF Pointers
<1> QED
  BY <1>1, <1>3 DEF Paid, Ops

\* A failed predecessor stays one.
LEMMA PredecessorStands == (\A o \in Ops : OpMoves(o)) /\ TypeOK /\ TypeOK' /\ Predecessor => Predecessor'
<1> SUFFICES ASSUME \A o \in Ops : OpMoves(o), TypeOK, TypeOK', Predecessor PROVE Predecessor'
  OBVIOUS
<1>1. PICK p \in Jobs : /\ op[<<p, "included">>].result = "failed"
                        /\ op[<<p, "included">>].summary = "priced"
                        /\ charges[<<p, "included">>].sent > 0
  BY DEF Predecessor
<1> DEFINE o == <<p, "included">>
<1>2. o \in Ops
  BY DEF Ops, Kinds
<1>3. OpMoves(o)
  BY <1>2
<1>4. op'[o].result = "failed" /\ op'[o].summary = "priced"
  BY <1>1, <1>3 DEF OpMoves
<1>5. charges[o].sent \in Nat /\ charges'[o].sent \in Nat /\ charges[o].sent <= charges'[o].sent
  BY <1>2, <1>3 DEF TypeOK, OpMoves
<1>6. charges'[o].sent > 0
  BY <1>1, <1>5
<1> QED
  BY <1>4, <1>6 DEF Predecessor

\* What a suggestion of a stage was asked for with stands.
LEMMA PaymentStands ==
  ASSUME IInv, TypeOK', \A q \in Ops : OpMoves(q), PointersStand, NEW o \in Ops, Begun(o)
  PROVE  PaymentFits(o)'
<1>1. PaymentFits(o) /\ o[1] \in Jobs
  BY OpTypes DEF IInv, PaymentsFit
<1>2. Predecessor => Predecessor'
  BY PredecessorStands DEF IInv
<1> QED
  BY <1>1, <1>2 DEF PaymentFits, PointersStand

\* And what a stage has established, while the stage stays where it is.
LEMMA StageStands ==
  ASSUME IInv, TypeOK', \A q \in Ops : OpMoves(q), PointersStand, NEW j \in Jobs, stage'[j] = stage[j]
  PROVE  StageFits(j)'
<1>1. StageFits(j) /\ stage[j].kind \in Kinds
  BY DEF IInv, StagesFit, TypeOK, Stages
<1>2. Predecessor => Predecessor'
  BY PredecessorStands DEF IInv
<1>3. CASE pointer[stage[j].kind] = None
  BY <1>1, <1>2, <1>3 DEF StageFits, PointersStand, At
<1>4. CASE pointer[stage[j].kind] # None
  <2>1. pointer'[stage[j].kind] = pointer[stage[j].kind] /\ Paid(j) \in Ops /\ Paid(j)' = Paid(j)
    BY <1>1, <1>4, PaidIs DEF IInv, PointersStand, Paid
  <2>2. OpMoves(Paid(j))
    BY <2>1
  <2>3. /\ Begun(Paid(j)) => op'[Paid(j)].state = "begun"
        /\ op[Paid(j)].result = "applied" => op'[Paid(j)].result = "applied"
    BY <2>2 DEF OpMoves
  <2>4. /\ Begun(Paid(j))' <=> op'[Paid(j)].state = "begun"
        /\ op'[Paid(j)'].result = op'[Paid(j)].result
    BY <2>1 DEF Begun
  <2> QED
    BY <1>1, <1>2, <1>4, <2>1, <2>3, <2>4 DEF StageFits, PointersStand, At
<1> QED
  BY <1>3, <1>4

\* A place in a review is kept while its baseline is the current one.
LEMMA PlaceStands ==
  ASSUME TypeOK, TypeOK', NEW o \in Ops, ReviewMoves(o), Begun(o), OpFits(o),
         op[o].baseline = Baseline(o[1])', NEW i, Placed(o, i)
  PROVE  op[o].baseline = Baseline(o[1]) /\ Placed(o, i)'
<1>1. Baseline(o[1]) \in Nat /\ Generation(o[1]) \in Nat /\ op[o].baseline <= Baseline(o[1])
  BY OpTypes DEF OpFits
<1>2. CASE SameReview(o[1])
  BY <1>2 DEF SameReview, Placed, Baseline, Generation
<1>3. CASE ~SameReview(o[1])
  BY <1>1, <1>3 DEF ReviewMoves, Placed
<1> QED
  BY <1>2, <1>3

\* What the review has of a suggestion stays right.
LEMMA HistoryStands ==
  ASSUME IInv, TypeOK', NEW o \in Ops, ReviewMoves(o), OpMoves(o), SaysNoMore(o),
         SameReview(o[1]) \/ op'[o] = op[o]
  PROVE  HistoryFitsFor(o)'
<1>1. HistoryFitsFor(o) /\ OpFits(o) /\ o[1] \in Jobs
  BY OpTypes DEF IInv, HistoryFits, OpsFit
<1>2. /\ Baseline(o[1]) \in Nat /\ Generation(o[1]) \in Nat /\ op[o] \in Operations
      /\ Baseline(o[1])' \in Nat /\ Generation(o[1])' \in Nat
  <2>1. Baseline(o[1]) \in Nat /\ Generation(o[1]) \in Nat /\ op[o] \in Operations
    BY OpTypes DEF IInv
  <2>2. folder'[o[1]] \in Folders
    BY <1>1 DEF TypeOK
  <2> QED
    BY <2>1, <2>2 DEF Folders, Baseline, Generation
<1>3. ASSUME NEW i \in 1..Generation(o[1])', folder'[o[1]].history[i] = o[2]
      PROVE  op'[o].state = "begun" /\ op'[o].baseline = Baseline(o[1])' /\ i = op'[o].generation + 1
  <2>1. CASE SameReview(o[1])
    <3>1. Begun(o) /\ op[o].baseline = Baseline(o[1]) /\ i = op[o].generation + 1
      BY <1>1, <1>3, <2>1 DEF SameReview, HistoryFitsFor, Generation
    <3> QED
      BY <2>1, <3>1 DEF SameReview, OpMoves, Baseline
  <2>2. CASE ~SameReview(o[1])
    <3>1. /\ Baseline(o[1])' = Baseline(o[1]) /\ Generation(o[1])' = Generation(o[1]) + 1
          /\ \A l \in 1..Generation(o[1]) : folder'[o[1]].history[l] = folder[o[1]].history[l]
          /\ folder'[o[1]].history[Generation(o[1]) + 1] = o[2] =>
               Begun(o) /\ op[o].baseline = Baseline(o[1]) /\ op[o].generation = Generation(o[1])
      BY <1>2, <1>3, <2>2 DEF ReviewMoves
    <3>2. Begun(o) /\ op[o].baseline = Baseline(o[1]) /\ i = op[o].generation + 1
      <4>1. CASE i \in 1..Generation(o[1])
        BY <1>1, <1>3, <3>1, <4>1 DEF HistoryFitsFor
      <4>2. CASE i = Generation(o[1]) + 1
        BY <1>3, <3>1, <4>2
      <4> QED
        BY <1>2, <1>3, <3>1, <4>1, <4>2
    <3> QED
      BY <3>1, <3>2 DEF OpMoves
  <2> QED
    BY <2>1, <2>2
<1>4. ASSUME op'[o].baseline = Baseline(o[1])', NEW i,
             \/ op'[o].result = "applied" /\ i = op'[o].landed
             \/ runner'[o].result = "applied" /\ i = runner'[o].landed
      PROVE  i = op'[o].generation + 1 /\ Placed(o, i)'
  <2>1. \/ op[o].result = "applied" /\ i = op[o].landed
        \/ runner[o].result = "applied" /\ i = runner[o].landed
    BY <1>4 DEF SaysNoMore
  <2>2. Begun(o)
    BY <1>1, <2>1 DEF OpFits, Idle
  <2>3. op'[o].baseline = op[o].baseline /\ op'[o].generation = op[o].generation
    BY <2>2 DEF OpMoves
  <2>4. op[o].baseline = Baseline(o[1])
    <3>1. op[o].baseline \in 1..Baseline(o[1]) /\ op[o].baseline = Baseline(o[1])'
      BY <1>1, <1>4, <2>2, <2>3 DEF OpFits
    <3>2. SameReview(o[1]) => Baseline(o[1])' = Baseline(o[1])
      BY DEF SameReview, Baseline
    <3> QED
      BY <1>2, <3>1, <3>2 DEF ReviewMoves
  <2>5. i = op[o].generation + 1 /\ Placed(o, i)
    BY <1>1, <2>1, <2>4 DEF HistoryFitsFor
  <2> QED
    BY <1>1, <1>4, <2>2, <2>3, <2>5, PlaceStands DEF IInv
<1> QED
  BY <1>3, <1>4 DEF HistoryFitsFor, Begun

\* So does what a stage has saved.
LEMMA SavedStands ==
  ASSUME IInv, TypeOK', \A q \in Ops : OpMoves(q) /\ ReviewMoves(q), PointersStand,
         NEW j \in Jobs, stage'[j] = stage[j]
  PROVE  SavedFitsFor(j)'
<1> SUFFICES ASSUME stage[j].step = "saved" PROVE SavedFitsFor(j)'
  BY DEF SavedFitsFor, At
<1>1. pointer[stage[j].kind] # None /\ Begun(Paid(j)) /\ SavedFitsFor(j)
  BY DEF IInv, StagesFit, StageFits, SavedFits, At
<1>2. Paid(j) \in Ops /\ Paid(j)' = Paid(j)
  BY <1>1, PaidIs DEF IInv, PointersStand, Paid
<1>3. PICK o \in Ops : o = Paid(j)
  BY <1>2
<1>4. /\ OpMoves(o) /\ ReviewMoves(o) /\ OpFits(o) /\ Begun(o)
      /\ op[o].baseline = Baseline(o[1]) => Placed(o, op[o].generation + 1)
  BY <1>1, <1>3 DEF IInv, OpsFit, SavedFitsFor, At
<1>5. op'[o].baseline = op[o].baseline /\ op'[o].generation = op[o].generation
  BY <1>4 DEF OpMoves
<1>6. ASSUME op'[o].baseline = Baseline(o[1])' PROVE Placed(o, op[o].generation + 1)'
  <2>1. op[o].baseline = Baseline(o[1])
    <3>1. Baseline(o[1]) \in Nat /\ op[o].baseline <= Baseline(o[1])
      BY <1>4, OpTypes DEF IInv, OpFits
    <3>2. SameReview(o[1]) => Baseline(o[1])' = Baseline(o[1])
      BY DEF SameReview, Baseline
    <3> QED
      BY <1>4, <1>5, <1>6, <3>1, <3>2 DEF ReviewMoves
  <2>2. PICK i : i = op[o].generation + 1
    OBVIOUS
  <2>3. Placed(o, i)
    BY <1>4, <2>1, <2>2
  <2>4. Placed(o, i)'
    BY <1>4, <1>5, <1>6, <2>3, PlaceStands DEF IInv
  <2>5. i = op'[o].generation + 1
    BY <1>5, <2>2
  <2> QED
    BY <2>4, <2>5 DEF Placed
<1>7. Paid(j)' = o
  BY <1>2, <1>3
<1>8. SavedFitsFor(j)' <=> (At(j, "saved")' /\ op'[o].baseline = Baseline(o[1])'
                              => Placed(o, op[o].generation + 1)')
  BY <1>7 DEF SavedFitsFor, Placed, Baseline, Generation
<1> QED
  BY <1>5, <1>6, <1>8

-----------------------------------------------------------------------------
(* A step of a stage, of a suggestion, or of a folder *)

\* While neither op nor charges change, all suggestions move.
LEMMA AllStay == ASSUME TypeOK, UNCHANGED <<op, charges>> PROVE \A o \in Ops : OpMoves(o)
BY DEF TypeOK, OpMoves, Begun

\* The thread of a suggestion of a stage finds the stage waiting, if the stage that moves does not wait.
LEMMA RunnerStands ==
  ASSUME IInv, NEW o \in Ops, NEW j \in Jobs, \A i \in Jobs \ {j} : stage'[i] = stage[i],
         ~At(j, "suggest") \/ stage'[j] = stage[j], op'[o] = op[o], charges'[o] = charges[o],
         runner'[o] = runner[o]
  PROVE  RunnerFits(o)'
<1>1. RunnerFits(o) /\ o[1] \in Jobs
  BY OpTypes DEF IInv, RunnersFit
<1>2. runner[o].step # "idle" /\ o[2] \in Kinds => stage'[o[1]] = stage[o[1]]
  BY <1>1 DEF RunnerFits, At
<1> QED
  BY <1>1, <1>2 DEF RunnerFits, At, Asks

\* A settled folder stays settled.
LEMMA SettledStands ==
  ASSUME TypeOK, \A o \in Ops : OpMoves(o), NEW j \in Jobs, Frozen(j), Settled(j)
  PROVE  Settled(j)'
<1> SUFFICES ASSUME NEW o \in Ops, o[1] = j, op'[o].state # "none"
             PROVE  op'[o].state = "begun" /\ op'[o].result # "none" /\ op'[o].summary = "priced"
  BY DEF Settled, OpsOf
<1>1. OpMoves(o)
  OBVIOUS
<1>2. op[o].state = "begun" /\ op[o].result # "none" /\ op[o].summary = "priced"
  BY <1>1 DEF Settled, OpsOf, OpMoves
<1> QED
  BY <1>1, <1>2 DEF OpMoves, Begun

\* A stage goes on, and perhaps writes its pointer or its authorization.
LEMMA StageFrame ==
  ASSUME IInv, TypeOK', PointersStand, UNCHANGED <<folder, op, charges, runner>>,
         NEW j \in Jobs, \A i \in Jobs \ {j} : stage'[i] = stage[i],
         ~At(j, "suggest") \/ stage'[j] = stage[j],
         StageFits(j)', SavedFitsFor(j)'
  PROVE  IInv'
<1>0. TypeOK /\ \A o \in Ops : OpMoves(o) /\ ReviewMoves(o) /\ SaysNoMore(o) /\ SameReview(o[1])
  BY AllStay DEF IInv, ReviewMoves, SaysNoMore, SameReview
<1>1. FoldersFit' /\ OpsFit'
  BY DEF IInv, FoldersFit, OpsFit, OpFits, Begun, Baseline
<1>2. RunnersFit'
  BY RunnerStands DEF RunnersFit
<1>3. PaymentsFit'
  <2> SUFFICES ASSUME NEW o \in Ops, Begun(o) PROVE PaymentFits(o)'
    BY DEF PaymentsFit, PaymentFits, Begun
  <2> QED
    BY <1>0, PaymentStands
<1>4. StagesFit'
  BY <1>0, StageStands DEF StagesFit
<1>5. HistoryFits'
  BY <1>0, HistoryStands DEF HistoryFits
<1>6. SavedFits'
  BY <1>0, SavedStands DEF SavedFits
<1>7. FrozenFits'
  BY DEF IInv, FrozenFits, Frozen, Settled, OpsOf
<1> QED
  BY <1>1, <1>2, <1>3, <1>4, <1>5, <1>6, <1>7 DEF IInv

\* A suggestion begins or goes on, and a stage perhaps with it.
LEMMA OpFrame ==
  ASSUME IInv, TypeOK', UNCHANGED <<folder, shared>>, NEW o \in Ops, NEW j \in Jobs,
         \A q \in Ops \ {o} : op'[q] = op[q] /\ charges'[q] = charges[q] /\ runner'[q] = runner[q],
         \A i \in Jobs \ {j} : stage'[i] = stage[i],
         \/ ~At(j, "suggest") \/ stage'[j] = stage[j]
         \/ o[1] = j /\ o[2] \in Kinds /\ runner[o].step # "idle",
         OpMoves(o), OpFits(o)', RunnerFits(o)', HistoryFitsFor(o)',
         Begun(o) \/ PaymentFits(o)', stage'[j] = stage[j] \/ (StageFits(j)' /\ SavedFitsFor(j)')
  PROVE  IInv'
<1>0. TypeOK /\ PointersStand /\ FoldersFit' /\ \A q \in Ops : ReviewMoves(q) /\ SameReview(q[1])
  BY DEF IInv, PointersStand, shared, FoldersFit, Baseline, ReviewMoves, SameReview
<1>1. \A q \in Ops : OpMoves(q)
  <2> SUFFICES ASSUME NEW q \in Ops, q # o PROVE OpMoves(q)
    OBVIOUS
  <2>1. charges[q].sent <= charges[q].sent
    BY <1>0 DEF TypeOK
  <2> QED
    BY <2>1 DEF OpMoves, Begun
<1>2. ASSUME NEW q \in Ops, q # o
      PROVE  OpFits(q)' /\ RunnerFits(q)' /\ PaymentFits(q)' /\ HistoryFitsFor(q)'
  <2>1. op'[q] = op[q] /\ charges'[q] = charges[q] /\ runner'[q] = runner[q] /\ SaysNoMore(q)
    BY <1>2 DEF SaysNoMore
  <2>2. OpFits(q)'
    BY <2>1 DEF IInv, OpsFit, OpFits, Begun, Baseline
  <2>3. RunnerFits(q)'
    <3>1. CASE ~At(j, "suggest") \/ stage'[j] = stage[j]
      BY <2>1, <3>1, RunnerStands
    <3>2. CASE o[1] = j /\ o[2] \in Kinds /\ runner[o].step # "idle"
      <4>1. RunnerFits(q) /\ RunnerFits(o) /\ q = <<q[1], q[2]>> /\ o = <<o[1], o[2]>> /\ q[1] \in Jobs
        BY <1>0, OpTypes DEF IInv, RunnersFit
      <4>2. runner[q].step # "idle" /\ q[2] \in Kinds => q[1] # j
        BY <1>2, <3>2, <4>1 DEF RunnerFits
      <4> QED
        BY <2>1, <4>1, <4>2 DEF RunnerFits, At, Asks
    <3> QED
      BY <3>1, <3>2
  <2>4. PaymentFits(q)'
    <3>1. CASE Begun(q)
      BY <1>0, <1>1, <3>1, PaymentStands
    <3>2. CASE ~Begun(q)
      BY <2>1, <3>2 DEF PaymentFits, Begun
    <3> QED
      BY <3>1, <3>2
  <2>5. HistoryFitsFor(q)'
    BY <1>0, <1>1, <2>1, HistoryStands
  <2> QED
    BY <2>2, <2>3, <2>4, <2>5
<1>3. OpsFit' /\ RunnersFit' /\ PaymentsFit' /\ HistoryFits'
  <2>1. PaymentFits(o)'
    BY <1>0, <1>1, PaymentStands
  <2> QED
    BY <1>2, <2>1 DEF OpsFit, RunnersFit, PaymentsFit, HistoryFits
<1>4. StagesFit'
  BY <1>0, <1>1, StageStands DEF StagesFit
<1>5. SavedFits'
  BY <1>0, <1>1, SavedStands DEF SavedFits
<1>6. FrozenFits'
  <2> SUFFICES ASSUME NEW i \in Jobs, Frozen(i) PROVE Settled(i)'
    BY DEF FrozenFits, Frozen
  <2> QED
    BY <1>0, <1>1, SettledStands DEF IInv, FrozenFits
<1> QED
  BY <1>0, <1>3, <1>4, <1>5, <1>6 DEF IInv

\* A folder changes, and perhaps a stage with it.
LEMMA FolderFrame ==
  ASSUME IInv, TypeOK', FoldersFit', UNCHANGED <<op, charges, runner, shared>>, NEW j \in Jobs,
         \A q \in Ops : ReviewMoves(q),
         \A i \in Jobs : folder'[i].frozen = folder[i].frozen \/ Settled(i),
         \A i \in Jobs \ {j} : stage'[i] = stage[i],
         ~At(j, "suggest") \/ stage'[j] = stage[j],
         StageFits(j)', SavedFitsFor(j)'
  PROVE  IInv'
<1>0. TypeOK /\ PointersStand /\ \A q \in Ops : OpMoves(q) /\ SaysNoMore(q)
  BY AllStay DEF IInv, PointersStand, shared, SaysNoMore
<1>1. OpsFit'
  <2> SUFFICES ASSUME NEW o \in Ops PROVE OpFits(o)'
    BY DEF OpsFit
  <2>1. Baseline(o[1])' \in {Baseline(o[1]), Baseline(o[1]) + 1} /\ Baseline(o[1]) \in Nat
    BY <1>0, OpTypes DEF ReviewMoves, SameReview, Baseline
  <2> QED
    BY <2>1 DEF IInv, OpsFit, OpFits, Begun
<1>2. RunnersFit'
  BY RunnerStands DEF RunnersFit
<1>3. PaymentsFit'
  <2> SUFFICES ASSUME NEW o \in Ops, Begun(o) PROVE PaymentFits(o)'
    BY DEF PaymentsFit, PaymentFits, Begun
  <2> QED
    BY <1>0, PaymentStands
<1>4. StagesFit'
  BY <1>0, StageStands DEF StagesFit
<1>5. HistoryFits'
  BY <1>0, HistoryStands DEF HistoryFits
<1>6. SavedFits'
  BY <1>0, SavedStands DEF SavedFits
<1>7. FrozenFits'
  BY DEF IInv, FrozenFits, Frozen, Settled, OpsOf
<1> QED
  BY <1>1, <1>2, <1>3, <1>4, <1>5, <1>6, <1>7 DEF IInv

-----------------------------------------------------------------------------
(* What a step does to the stage, or to the suggestion, that takes it *)

Steps == Busy \union {"unstarted", "suggest", "raw_fallback", "laid_out", "gone"}

\* A stage that goes to a step stays what it is but for that.
LEMMA GotoIs ==
  ASSUME TypeOK, NEW j \in Jobs, NEW step \in Steps, Goto(j, step)
  PROVE  /\ stage' \in [Jobs -> Stages] /\ \A i \in Jobs \ {j} : stage'[i] = stage[i]
         /\ stage'[j].step = step /\ stage'[j].kind = stage[j].kind /\ stage[j].kind \in Kinds
         /\ stage'[j].baseline = stage[j].baseline /\ stage'[j].generation = stage[j].generation
<1>1. stage[j] \in Stages /\ stage' = [stage EXCEPT ![j] = [stage[j] EXCEPT !.step = step]]
  BY DEF TypeOK, Goto
<1>2. [stage[j] EXCEPT !.step = step] \in Stages
  BY <1>1 DEF Stages, Steps
<1> QED
  BY <1>1, <1>2 DEF TypeOK, Stages

\* A stage that starts, ends, or waits for its suggestion has nothing to rely on but its kind.
Bare(step, kind) == [step |-> step, kind |-> kind, baseline |-> 0, generation |-> 0]

Sets(j, step, kind) == stage' = [stage EXCEPT ![j] = Bare(step, kind)]

\* A stage that is set to a step is of that kind and has nothing prepared.
LEMMA SetsIs ==
  ASSUME TypeOK, NEW j \in Jobs, NEW step \in Steps, NEW kind \in Kinds, Sets(j, step, kind)
  PROVE  /\ stage' \in [Jobs -> Stages] /\ \A i \in Jobs \ {j} : stage'[i] = stage[i]
         /\ stage'[j].step = step /\ stage'[j].kind = kind
<1>1. Bare(step, kind) \in Stages
  BY LayoutAssumption, DraftsCounted DEF Stages, Steps, Bare
<1> QED
  BY <1>1 DEF Sets, TypeOK, Bare

\* Setting a stage is how the actions reset it ...
LEMMA BareIs ==
  ASSUME NEW step, NEW kind
  PROVE  [Unstarted EXCEPT !.step = step, !.kind = kind] = Bare(step, kind)
<1>1. [Unstarted EXCEPT !.step = step] = Bare(step, "included")
  BY DEF Unstarted, Bare
<1>2. [Bare(step, "included") EXCEPT !.kind = kind] = Bare(step, kind)
  BY DEF Bare
<1> QED
  BY <1>1, <1>2

\* ... and how they end it.
LEMMA EndsIs ==
  ASSUME NEW j \in Jobs, NEW step, Ends(j, step)
  PROVE  Sets(j, step, "included") /\ "included" \in Kinds
<1>1. [Unstarted EXCEPT !.step = step] = Bare(step, "included")
  BY DEF Unstarted, Bare
<1> QED
  BY <1>1 DEF Ends, Sets, Kinds

\* A stage that is at none of the steps in between has established nothing.
LEMMA NothingEstablished ==
  ASSUME NEW j \in Jobs,
         stage'[j].step \in {"unstarted", "begin", "suggest", "raw_fallback", "laid_out", "gone"}
  PROVE  StageFits(j)' /\ SavedFitsFor(j)'
BY DEF StageFits, SavedFitsFor, At

\* The bound on what goes wrong.
LEMMA CountedIs == ASSUME TypeOK, Counted PROVE events' \in 0..MaxEvents
<1>1. events \in 0..MaxEvents /\ events < MaxEvents /\ events' = events + 1
  BY DEF TypeOK, Counted
<1> QED
  BY <1>1, LayoutAssumption

\* A thread goes to its next step.
LEMMA StepIs ==
  ASSUME TypeOK, NEW o \in Ops,
         NEW step \in {"idle", "page", "asking", "asked", "applying", "summing", "finishing"},
         Step(o, step)
  PROVE  /\ runner' \in [Ops -> Runners] /\ \A q \in Ops \ {o} : runner'[q] = runner[q]
         /\ runner'[o].step = step /\ runner'[o].result = runner[o].result
         /\ runner'[o].landed = runner[o].landed
<1>1. runner[o] \in Runners /\ runner' = [runner EXCEPT ![o] = [runner[o] EXCEPT !.step = step]]
  BY DEF TypeOK, Step
<1>2. [runner[o] EXCEPT !.step = step] \in Runners
  BY <1>1 DEF Runners
<1> QED
  BY <1>1, <1>2 DEF TypeOK, Runners

\* The suggestion ends without being applied.
EndsAs(o, result) == runner' = [runner EXCEPT ![o] = [@ EXCEPT !.step = "summing", !.result = result]]

\* It goes on to its summary, with that result.
LEMMA EndsAsIs ==
  ASSUME TypeOK, NEW o \in Ops, NEW result \in {"failed", "cancelled"}, EndsAs(o, result)
  PROVE  /\ runner' \in [Ops -> Runners] /\ \A q \in Ops \ {o} : runner'[q] = runner[q]
         /\ runner'[o].step = "summing" /\ runner'[o].result = result
<1>1. /\ runner[o] \in Runners
      /\ runner' = [runner EXCEPT ![o] = [runner[o] EXCEPT !.step = "summing", !.result = result]]
  BY DEF TypeOK, EndsAs
<1>2. [runner[o] EXCEPT !.step = "summing", !.result = result] \in Runners
  BY <1>1 DEF Runners, Results
<1> QED
  BY <1>1, <1>2 DEF TypeOK, Runners

\* A step of a thread alone: where it comes from, and that it claims nothing.
LEMMA ThreadFrame ==
  ASSUME IInv, NEW o \in Ops, UNCHANGED <<folder, op, charges, shared, stage>>,
         events' \in 0..MaxEvents, runner' \in [Ops -> Runners],
         \A q \in Ops \ {o} : runner'[q] = runner[q],
         Begun(o), SaysNoMore(o), RunnerFits(o)',
         op[o].summary # "none" => runner'[o].step \in {"idle", "finishing"}
  PROVE  IInv'
<1>1. TypeOK'
  BY DEF IInv, TypeOK, shared, Baseline, Generation
<1>2. o[1] \in Jobs /\ TypeOK
  BY OpTypes DEF IInv
<1>3. OpMoves(o) /\ ReviewMoves(o) /\ PointersStand /\ \A q \in Ops : OpMoves(q)
  BY <1>2, AllStay DEF ReviewMoves, SameReview, PointersStand, shared
<1>4. OpFits(o)'
  BY DEF IInv, OpsFit, OpFits, Begun, Baseline
<1>5. HistoryFitsFor(o)'
  BY <1>1, <1>2, <1>3, HistoryStands DEF SameReview
<1> QED
  BY <1>1, <1>2, <1>3, <1>4, <1>5, OpFrame

-----------------------------------------------------------------------------
(* The inductive invariant *)

\* A folder has nothing at first, and nothing was asked for.
LEMMA InitInvariant == Init => IInv
<1> SUFFICES ASSUME Init PROVE IInv
  OBVIOUS
<1> USE DraftsCounted, LayoutAssumption
<1>1. TypeOK
  <2>1. FreshFolder \in Folders
    <3>1. [n \in Drafts |-> 0] \in [Drafts -> Incomplete..Cardinality(Drafts)]
      BY DEF Incomplete
    <3>2. <<>> \in Seq(Drafts) /\ <<>> \in Seq(Authors)
      OBVIOUS
    <3> QED
      BY <3>1, <3>2 DEF FreshFolder, Folders
  <2>2. FreshOp \in Operations /\ Idle \in Runners /\ Unstarted \in Stages
    BY DEF FreshOp, Operations, Results, Idle, Runners, Unstarted, Stages, Kinds
  <2>3. NoCharges \in [sent : 0..N, unknown : 0..N, billed : 0..N]
    BY DEF NoCharges
  <2>4. folder \in [Jobs -> Folders] /\ \A j \in Jobs : Baseline(j) = 0 /\ Generation(j) = 0
    BY <2>1 DEF Init, FreshFolder, Baseline, Generation
  <2>5. op \in [Ops -> Operations] /\ charges \in [Ops -> [sent : 0..N, unknown : 0..N, billed : 0..N]]
    BY <2>2, <2>3 DEF Init
  <2>6. stage \in [Jobs -> Stages] /\ runner \in [Ops -> Runners]
    BY <2>2 DEF Init
  <2>7. /\ authorized \in [Jobs -> [Kinds -> {"none", "made", "automatic", "operator"}]]
        /\ pointer \in [Kinds -> Pointers \union {None}] /\ candidate \subseteq Kinds
        /\ events \in 0..MaxEvents
    BY DEF Init
  <2> QED
    BY <2>4, <2>5, <2>6, <2>7 DEF TypeOK
<1>2. \A o \in Ops : o[1] \in Jobs /\ op[o] = FreshOp /\ charges[o] = NoCharges /\ runner[o] = Idle
  BY DEF Init, Ops
<1>3. \A j \in Jobs : folder[j] = FreshFolder /\ stage[j].step = "unstarted"
  BY DEF Init, Unstarted
<1>4. FoldersFit /\ FrozenFits
  BY <1>3 DEF FoldersFit, FrozenFits, Frozen, Baseline, FreshFolder
<1>5. OpsFit /\ RunnersFit /\ PaymentsFit
  BY <1>2 DEF OpsFit, OpFits, RunnersFit, RunnerFits, PaymentsFit, PaymentFits, Begun, Asks, FreshOp,
              NoCharges, Idle
<1>6. HistoryFits
  BY <1>2, <1>3 DEF HistoryFits, HistoryFitsFor, Generation, FreshFolder, FreshOp, Idle
<1>7. StagesFit /\ SavedFits
  BY <1>3 DEF StagesFit, StageFits, SavedFits, SavedFitsFor, At
<1> QED
  BY <1>1, <1>4, <1>5, <1>6, <1>7 DEF IInv

\* A recovery may run only after the included suggestion has failed.
LEMMA FailedIsPredecessor == ASSUME IInv, FailedPredecessor PROVE Predecessor
<1>1. PICK p \in Pointers : p = pointer["included"]
  BY DEF IInv, FailedPredecessor, TypeOK, Kinds
<1> DEFINE o == <<p.job, "included">>
<1>2. p.job \in Jobs /\ o \in Ops
  BY DEF Pointers, Ops, Kinds
<1>3. op[o].result = "failed" /\ op[o].summary = "priced" /\ charges[o].billed > 0
  BY <1>1 DEF FailedPredecessor
<1>4. charges[o].billed \in Nat /\ charges[o].sent \in Nat /\ charges[o].billed <= charges[o].sent
  BY <1>2, LayoutAssumption DEF IInv, TypeOK, OpsFit, OpFits
<1>5. charges[o].sent > 0
  BY <1>3, <1>4
<1> QED
  BY <1>2, <1>3, <1>5 DEF Predecessor

\* A suggestion begins, for the baseline and the generation that the folder has ...
LEMMA BeginIs ==
  ASSUME IInv, NEW o \in Ops, NEW b, NEW g, Begin(o, b, g), b > 0, UNCHANGED <<folder, charges>>,
         o[2] \in Kinds => stage'[o[1]].step = "suggest" /\ stage'[o[1]].kind = o[2]
  PROVE  /\ op' \in [Ops -> Operations] /\ runner' \in [Ops -> Runners]
         /\ \A q \in Ops \ {o} : op'[q] = op[q] /\ runner'[q] = runner[q]
         /\ ~Begun(o) /\ OpMoves(o) /\ OpFits(o)' /\ RunnerFits(o)' /\ HistoryFitsFor(o)'
<1>1. /\ o[1] \in Jobs /\ op[o] \in Operations /\ TypeOK /\ OpFits(o) /\ HistoryFitsFor(o)
      /\ Baseline(o[1]) \in Nat /\ Generation(o[1]) \in Nat
  BY OpTypes DEF IInv, OpsFit, HistoryFits
<1>2. /\ ~Begun(o) /\ ~Frozen(o[1])
      /\ b = Baseline(o[1]) /\ g = Generation(o[1]) /\ g < MaxGeneration
  BY DEF Begin, MayBegin, Begun
<1>3. /\ op[o].summary = "none" /\ op[o].result = "none" /\ op[o].answered = 0
      /\ charges[o] = NoCharges /\ runner[o] = Idle
  BY <1>1, <1>2 DEF OpFits
<1> DEFINE new == [op[o] EXCEPT !.state = "begun", !.baseline = b, !.generation = g]
<1>4. op' = [op EXCEPT ![o] = new]
  BY DEF Begin
<1>5. /\ new \in Operations /\ new.state = "begun" /\ new.baseline = b /\ new.generation = g
      /\ new.summary = "none" /\ new.result = "none" /\ new.answered = 0
  <2>1. b \in 0..Cardinality(Drafts) /\ g \in 0..MaxGeneration
    <3>1. Baseline(o[1]) <= 3 /\ Generation(o[1]) <= MaxGeneration
      BY <1>1, FolderTypes
    <3> QED
      BY <1>1, <1>2, <3>1, DraftsCounted, LayoutAssumption
  <2> QED
    BY <1>1, <1>3, <2>1 DEF Operations
<1> HIDE DEF new
<1>6. op' \in [Ops -> Operations] /\ op'[o] = new /\ \A q \in Ops \ {o} : op'[q] = op[q]
  BY <1>1, <1>4, <1>5 DEF TypeOK
<1>7. /\ runner' \in [Ops -> Runners] /\ \A q \in Ops \ {o} : runner'[q] = runner[q]
      /\ runner'[o].step = "page" /\ runner'[o].result = "none"
  <2>1. Step(o, "page")
    BY DEF Begin, Step
  <2> QED
    BY <1>1, <1>3, <2>1, StepIs DEF Idle
<1>8. charges'[o].sent = 0 /\ charges'[o].unknown = 0 /\ charges'[o].billed = 0 /\ charges[o].sent = 0
  BY <1>3 DEF NoCharges
<1>9. OpMoves(o)
  BY <1>2, <1>3, <1>5, <1>6, <1>8 DEF OpMoves
<1>10. OpFits(o)'
  <2>1. b \in 1..Baseline(o[1])' /\ g < MaxGeneration
    BY <1>1, <1>2 DEF Baseline
  <2> QED
    BY <1>5, <1>6, <1>8, <2>1 DEF OpFits, Begun
<1>11. RunnerFits(o)'
  BY <1>5, <1>6, <1>7, <1>8, LayoutAssumption DEF RunnerFits, Asks, At
<1>12. HistoryFitsFor(o)'
  <2>1. \A i \in 1..Generation(o[1])' : folder'[o[1]].history[i] # o[2]
    BY <1>1, <1>2 DEF HistoryFitsFor, Generation
  <2> QED
    BY <1>5, <1>6, <1>7, <2>1 DEF HistoryFitsFor
<1> QED
  BY <1>2, <1>6, <1>7, <1>9, <1>10, <1>11, <1>12

\* ... or leaves a directory.
LEMMA BeginFailsIs ==
  ASSUME IInv, NEW o \in Ops, NEW b, NEW g, BeginFails(o, b, g), UNCHANGED <<folder, charges>>
  PROVE  /\ op' \in [Ops -> Operations] /\ runner' = runner
         /\ \A q \in Ops \ {o} : op'[q] = op[q]
         /\ OpMoves(o) /\ OpFits(o)' /\ RunnerFits(o)' /\ HistoryFitsFor(o)' /\ PaymentFits(o)'
<1>1. /\ op[o] \in Operations /\ TypeOK /\ OpFits(o) /\ HistoryFitsFor(o) /\ charges[o].sent \in Nat
  BY OpTypes DEF IInv, OpsFit, HistoryFits
<1>2. ~Begun(o) /\ ~Frozen(o[1])
  BY DEF BeginFails, MayBegin, Begun
<1>3. /\ op[o].summary = "none" /\ op[o].result = "none" /\ op[o].answered = 0
      /\ charges[o] = NoCharges /\ runner[o] = Idle
  BY <1>1, <1>2 DEF OpFits
<1> DEFINE new == [op[o] EXCEPT !.state = "made"]
<1>4. op' = [op EXCEPT ![o] = new] /\ runner' = runner
  BY DEF BeginFails
<1>5. /\ new \in Operations /\ new.state = "made"
      /\ new.summary = "none" /\ new.result = "none" /\ new.answered = 0
  BY <1>1, <1>3 DEF Operations
<1> HIDE DEF new
<1>6. op' \in [Ops -> Operations] /\ op'[o] = new /\ \A q \in Ops \ {o} : op'[q] = op[q]
  BY <1>1, <1>4, <1>5 DEF TypeOK
<1>7. OpMoves(o)
  BY <1>1, <1>2, <1>3, <1>5, <1>6 DEF OpMoves
<1>8. OpFits(o)'
  BY <1>3, <1>4, <1>5, <1>6 DEF OpFits, Begun, NoCharges
<1>9. RunnerFits(o)' /\ PaymentFits(o)'
  BY <1>3, <1>4, <1>5, <1>6 DEF RunnerFits, PaymentFits, Begun, Asks, Idle
<1>10. HistoryFitsFor(o)'
  <2>1. \A i \in 1..Generation(o[1])' : folder'[o[1]].history[i] # o[2]
    BY <1>1, <1>2 DEF HistoryFitsFor, Generation
  <2> QED
    BY <1>3, <1>4, <1>5, <1>6, <2>1 DEF HistoryFitsFor, Idle
<1> QED
  BY <1>4, <1>6, <1>7, <1>8, <1>9, <1>10

\* The steps of a stage between its suggestions.
LEMMA StageStep == ASSUME IInv, NEW j \in Jobs, Stage(j) PROVE IInv'
<1>0. TypeOK /\ StageFits(j) /\ stage[j] \in Stages /\ stage[j].kind \in Kinds
  BY DEF IInv, TypeOK, StagesFit, Stages
<1>a. UNCHANGED pointer /\ UNCHANGED authorized => PointersStand
  BY DEF PointersStand
<1>b. ASSUME stage' \in [Jobs -> Stages], UNCHANGED <<folder, op, charges, shared, runner, events>>
      PROVE  TypeOK' /\ PointersStand
  BY <1>0, <1>a, <1>b DEF TypeOK, shared, Baseline, Generation
<1>1. CASE Start(j)
  <2>1. Goto(j, "begin") /\ "begin" \in Steps /\ ~At(j, "suggest")
    BY <1>1 DEF Start, Steps, Busy, At
  <2>2. stage' \in [Jobs -> Stages] /\ stage'[j].step = "begin" /\ \A i \in Jobs \ {j} : stage'[i] = stage[i]
    BY <1>0, <2>1, GotoIs
  <2>3. StageFits(j)' /\ SavedFitsFor(j)'
    BY <2>2, NothingEstablished
  <2> QED
    BY <1>1, <1>b, <2>1, <2>2, <2>3, StageFrame DEF Start
<1>2. CASE Recover(j)
  <2>1. Sets(j, "begin", "recovery") /\ "begin" \in Steps /\ "recovery" \in Kinds /\ ~At(j, "suggest")
    BY <1>2, BareIs DEF Recover, Sets, Steps, Busy, Kinds, At
  <2>2. stage' \in [Jobs -> Stages] /\ stage'[j].step = "begin" /\ \A i \in Jobs \ {j} : stage'[i] = stage[i]
    BY <1>0, <2>1, SetsIs
  <2>3. StageFits(j)' /\ SavedFitsFor(j)'
    BY <2>2, NothingEstablished
  <2> QED
    BY <1>2, <1>b, <2>1, <2>2, <2>3, StageFrame DEF Recover
<1>3. CASE StageFails(j)
  <2>1. Sets(j, "raw_fallback", "included") /\ "raw_fallback" \in Steps /\ "included" \in Kinds
        /\ ~At(j, "suggest")
    BY <1>3, EndsIs DEF StageFails, Fallback, Busy, Steps, At
  <2>2. /\ stage' \in [Jobs -> Stages] /\ stage'[j].step = "raw_fallback"
        /\ \A i \in Jobs \ {j} : stage'[i] = stage[i]
    BY <1>0, <2>1, SetsIs
  <2>3. StageFits(j)' /\ SavedFitsFor(j)'
    BY <2>2, NothingEstablished
  <2> QED
    BY <1>3, <1>b, <2>1, <2>2, <2>3, StageFrame DEF StageFails
<1>4. CASE Enter(j)
  <2>0. ~At(j, "suggest") /\ UNCHANGED <<folder, op, charges, shared, runner, events>>
    BY <1>4 DEF Enter, At
  <2>1. CASE stage[j].kind \in candidate
    <3>1. Sets(j, "laid_out", "included") /\ "laid_out" \in Steps /\ "included" \in Kinds
      BY <1>4, <2>1, EndsIs DEF Enter, Steps
    <3>2. /\ stage' \in [Jobs -> Stages] /\ stage'[j].step = "laid_out"
          /\ \A i \in Jobs \ {j} : stage'[i] = stage[i]
      BY <1>0, <3>1, SetsIs
    <3>3. StageFits(j)' /\ SavedFitsFor(j)'
      BY <3>2, NothingEstablished
    <3> QED
      BY <1>b, <2>0, <3>2, <3>3, StageFrame
  <2>2. CASE stage[j].kind \notin candidate
    <3>1. PICK step \in {"finish", "authorize"} :
             Goto(j, step) /\ (step = "finish" <=> pointer[stage[j].kind] # None)
      BY <1>4, <2>2 DEF Enter, NextStep
    <3>2. step \in Steps
      BY DEF Steps, Busy
    <3>3. /\ stage' \in [Jobs -> Stages] /\ stage'[j].step = step /\ stage'[j].kind = stage[j].kind
          /\ \A i \in Jobs \ {j} : stage'[i] = stage[i]
      BY <1>0, <3>1, <3>2, GotoIs
    <3>4. stage[j].kind = "recovery" => Predecessor'
      <4>1. stage[j].kind = "recovery" => Predecessor
        BY <1>4, FailedIsPredecessor DEF Enter, MayRun
      <4> QED
        BY <2>0, <4>1 DEF Predecessor
    <3>5. StageFits(j)' /\ SavedFitsFor(j)'
      BY <2>0, <3>1, <3>3, <3>4 DEF StageFits, SavedFitsFor, At, shared
    <3> QED
      BY <1>b, <2>0, <3>3, <3>5, StageFrame
  <2> QED
    BY <2>1, <2>2
<1>5. CASE Authorize(j)
  <2>1. Goto(j, "prepare") /\ "prepare" \in Steps /\ ~At(j, "suggest")
    BY <1>5 DEF Authorize, Steps, Busy, At
  <2>2. /\ stage' \in [Jobs -> Stages] /\ stage'[j].step = "prepare" /\ stage'[j].kind = stage[j].kind
        /\ \A i \in Jobs \ {j} : stage'[i] = stage[i]
    BY <1>0, <2>1, GotoIs
  <2>3. /\ authorized' \in [Jobs -> [Kinds -> {"none", "made", "automatic", "operator"}]]
        /\ authorized'[j][stage[j].kind] = "automatic"
        /\ \A i \in Jobs, k \in Kinds : authorized[i][k] = "automatic" => authorized'[i][k] = "automatic"
    BY <1>0, <1>5 DEF Authorize, TypeOK
  <2>4. TypeOK' /\ PointersStand
    BY <1>0, <1>5, <2>2, <2>3 DEF Authorize, TypeOK, PointersStand, Baseline, Generation
  <2>5. stage[j].kind = "recovery" => Predecessor'
    BY <1>0, <1>5 DEF Authorize, StageFits, At, Predecessor
  <2>6. StageFits(j)' /\ SavedFitsFor(j)'
    BY <2>2, <2>3, <2>5 DEF StageFits, SavedFitsFor, At
  <2> QED
    BY <1>5, <2>1, <2>2, <2>4, <2>6, StageFrame DEF Authorize
<1>6. CASE Point(j)
  <2> DEFINE mine == [job |-> j, baseline |-> stage[j].baseline, generation |-> stage[j].generation]
  <2>1. Goto(j, "pointed") /\ "pointed" \in Steps /\ ~At(j, "suggest")
    BY <1>6 DEF Point, Steps, Busy, At
  <2>2. /\ stage' \in [Jobs -> Stages] /\ stage'[j].step = "pointed" /\ stage'[j].kind = stage[j].kind
        /\ stage'[j].baseline = stage[j].baseline /\ \A i \in Jobs \ {j} : stage'[i] = stage[i]
    BY <1>0, <2>1, GotoIs
  <2>3. mine \in Pointers /\ mine # None /\ mine.job = j
    <3>1. stage[j].baseline \in 1..Cardinality(Drafts) /\ stage[j].generation \in 0..MaxGeneration
      BY <1>0, <1>6, DraftsCounted DEF Point, StageFits, At, Stages
    <3> QED
      BY <3>1, LayoutAssumption DEF Pointers
  <2>4. pointer[stage[j].kind] \in {None, mine} /\ pointer' = [pointer EXCEPT ![stage[j].kind] = mine]
    BY <1>6 DEF Point
  <2> HIDE DEF mine
  <2>5. TypeOK' /\ PointersStand
    BY <1>0, <1>6, <2>2, <2>3, <2>4 DEF Point, TypeOK, PointersStand, Baseline, Generation
  <2>6. /\ pointer'[stage[j].kind] = mine
        /\ stage[j].kind = "recovery" => Predecessor'
        /\ authorized'[j][stage[j].kind] = "automatic" /\ stage[j].baseline > 0
    BY <1>0, <1>6, <2>4 DEF Point, StageFits, At, Predecessor, TypeOK
  <2>7. StageFits(j)' /\ SavedFitsFor(j)'
    BY <2>2, <2>3, <2>6 DEF StageFits, SavedFitsFor, At
  <2> QED
    BY <1>6, <2>1, <2>2, <2>5, <2>7, StageFrame DEF Point
<1>7. CASE Build(j)
  <2>1. Goto(j, "publish") /\ "publish" \in Steps /\ ~At(j, "suggest")
    BY <1>7 DEF Build, Steps, Busy, At
  <2>2. /\ stage' \in [Jobs -> Stages] /\ stage'[j].step = "publish" /\ stage'[j].kind = stage[j].kind
        /\ \A i \in Jobs \ {j} : stage'[i] = stage[i]
    BY <1>0, <2>1, GotoIs
  <2>3. pointer[stage[j].kind] # None /\ op[Paid(j)].result = "applied"
    BY <1>0, <1>7 DEF Build, Whole, StageFits, At
  <2>4. StageFits(j)' /\ SavedFitsFor(j)'
    BY <1>7, <2>2, <2>3 DEF Build, shared, StageFits, SavedFitsFor, At, Paid
  <2> QED
    BY <1>7, <1>b, <2>1, <2>2, <2>4, StageFrame DEF Build
<1>8. CASE Mark(j)
  <2>1. Sets(j, "laid_out", "included") /\ "laid_out" \in Steps /\ "included" \in Kinds /\ ~At(j, "suggest")
    BY <1>8, EndsIs DEF Mark, Steps, At
  <2>2. /\ stage' \in [Jobs -> Stages] /\ stage'[j].step = "laid_out"
        /\ \A i \in Jobs \ {j} : stage'[i] = stage[i]
    BY <1>0, <2>1, SetsIs
  <2>3. TypeOK' /\ PointersStand
    BY <1>0, <1>8, <2>2 DEF Mark, TypeOK, PointersStand, Baseline, Generation
  <2>4. StageFits(j)' /\ SavedFitsFor(j)'
    BY <2>2, NothingEstablished
  <2> QED
    BY <1>8, <2>1, <2>2, <2>3, <2>4, StageFrame DEF Mark
<1>9. CASE StagePrepares(j)
  <2> DEFINE k   == stage[j].kind
             new == [step |-> "prepared", kind |-> k, baseline |-> Len(folder'[j].prepared),
                     generation |-> Len(folder'[j].history)]
  <2>1. k \in Kinds /\ k \in Drafts /\ At(j, "prepare") /\ stage' = [stage EXCEPT ![j] = new]
    BY <1>0, <1>9 DEF StagePrepares, Drafts
  <2>2. /\ folder' \in [Jobs -> Folders] /\ FoldersFit'
        /\ Len(folder'[j].prepared) \in 1..Cardinality(Drafts)
        /\ Len(folder'[j].history) \in 0..MaxGeneration
        /\ \A i \in Jobs \ {j} : folder'[i] = folder[i]
        /\ \/ SameReview(j)
           \/ Baseline(j)' = Baseline(j) + 1 /\ Generation(j)' = 0
        /\ \A i \in Jobs : folder'[i].frozen = folder[i].frozen
    <3>1. CASE IsPrepared(j, k)
      <4>1. UNCHANGED folder /\ Baseline(j) > 0
        BY <1>0, <1>9, <3>1, FolderTypes DEF StagePrepares, IsPrepared
      <4>2. Len(folder[j].prepared) \in 1..3 /\ Len(folder[j].history) \in 0..MaxGeneration
        <5>1. Baseline(j) \in 1..3 /\ Generation(j) \in 0..MaxGeneration
          BY <1>0, <4>1, FolderTypes, LayoutAssumption
        <5> QED
          BY <5>1 DEF Baseline, Generation
      <4> QED
        BY <1>0, <4>1, <4>2, DraftsCounted DEF IInv, TypeOK, FoldersFit, Baseline, SameReview
    <3>2. CASE ~IsPrepared(j, k)
      <4>1. Prepared(j, k) /\ FoldersFit
        BY <1>9, <3>2 DEF StagePrepares, IInv
      <4>2. /\ folder' \in [Jobs -> Folders] /\ FoldersFit'
            /\ Baseline(j)' = Baseline(j) + 1 /\ Baseline(j)' <= Cardinality(Drafts)
            /\ Generation(j)' = 0
            /\ \A i \in Jobs \ {j} : folder'[i] = folder[i]
            /\ SameDelivery(j)
        BY <1>0, <2>1, <4>1, PreparedIs
      <4>3. Len(folder'[j].prepared) \in 1..Cardinality(Drafts) /\ Len(folder'[j].history) \in 0..MaxGeneration
        BY <1>0, <4>2, FolderTypes, DraftsCounted, LayoutAssumption DEF Baseline, Generation
      <4> QED
        BY <4>2, <4>3 DEF SameDelivery
    <3> QED
      BY <3>1, <3>2
  <2>3. new \in Stages
    BY <2>1, <2>2 DEF Stages, Busy
  <2>4. /\ new.step = "prepared" /\ new.kind = k /\ new.baseline > 0
        /\ stage'[j] = new /\ stage' \in [Jobs -> Stages] /\ \A i \in Jobs \ {j} : stage'[i] = stage[i]
    <3>1. new.step = "prepared" /\ new.kind = k /\ new.baseline = Len(folder'[j].prepared)
      OBVIOUS
    <3>2. Len(folder'[j].prepared) > 0
      BY <2>2, DraftsCounted
    <3> HIDE DEF new
    <3>3. stage'[j] = new /\ stage' \in [Jobs -> Stages] /\ \A i \in Jobs \ {j} : stage'[i] = stage[i]
      BY <1>0, <2>1, <2>3 DEF TypeOK
    <3> QED
      BY <3>1, <3>2, <3>3
  <2> HIDE DEF new
  <2>5. TypeOK'
    <3>1. \A i \in Jobs : Len(folder'[i].prepared) <= Cardinality(Drafts)
                          /\ Len(folder'[i].history) <= MaxGeneration
      <4>1. \A i \in Jobs \ {j} : Len(folder'[i].prepared) <= Cardinality(Drafts)
                                 /\ Len(folder'[i].history) <= MaxGeneration
        BY <1>0, <2>2 DEF TypeOK, Baseline, Generation
      <4>2. \A n : n \in 1..Cardinality(Drafts) => n <= Cardinality(Drafts)
        BY DraftsCounted
      <4>3. \A n : n \in 0..MaxGeneration => n <= MaxGeneration
        BY LayoutAssumption
      <4> HIDE DEF new
      <4> QED
        BY <2>2, <4>1, <4>2, <4>3
    <3> QED
      BY <1>0, <1>9, <2>2, <2>4, <3>1 DEF StagePrepares, shared, TypeOK, Baseline, Generation
  <2>6. \A q \in Ops : ReviewMoves(q)
    <3> SUFFICES ASSUME NEW q \in Ops PROVE ReviewMoves(q)
      OBVIOUS
    <3>1. q[1] \in Jobs
      BY <1>0, OpTypes
    <3> QED
      BY <2>2, <3>1 DEF ReviewMoves, SameReview
  <2>7. StageFits(j)' /\ SavedFitsFor(j)'
    BY <1>0, <1>9, <2>1, <2>4
       DEF StagePrepares, shared, StageFits, SavedFitsFor, At, Predecessor
  <2> QED
    BY <1>9, <2>1, <2>2, <2>4, <2>5, <2>6, <2>7, FolderFrame DEF StagePrepares, At
<1>10. CASE Publish(j)
  <2>1. pointer[stage[j].kind] # None /\ op[Paid(j)].result = "applied" /\ At(j, "publish")
    BY <1>0, <1>10 DEF Publish, StageFits, At
  <2>2. PICK o \in Ops : o = Paid(j)
    BY <1>0, <2>1, PaidIs
  <2> DEFINE mine == [kind |-> "automatic", baseline |-> op[o].baseline, generation |-> op[o].landed]
  <2>3. o[1] \in Jobs /\ mine \in Deliveries
    <3>1. o[1] \in Jobs /\ op[o] \in Operations /\ OpFits(o)
      BY <1>0, OpTypes DEF IInv, OpsFit
    <3>2. Begun(o)
      BY <2>1, <2>2, <3>1 DEF OpFits
    <3>3. op[o].baseline \in 1..Cardinality(Drafts) /\ op[o].landed \in 0..MaxGeneration
      BY <3>1, <3>2, DraftsCounted DEF OpFits, Operations
    <3> QED
      BY <3>1, <3>3 DEF Deliveries
  <2>4. UNCHANGED folder \/ folder' = [folder EXCEPT ![o[1]].automatic = mine]
    BY <1>10, <2>2 DEF Publish
  <2> HIDE DEF mine
  <2>5. /\ folder' \in [Jobs -> Folders] /\ FoldersFit' /\ \A i \in Jobs : SameReview(i)
        /\ \A i \in Jobs : folder'[i].frozen = folder[i].frozen
    <3>1. CASE UNCHANGED folder
      BY <1>0, <3>1 DEF IInv, TypeOK, FoldersFit, SameReview, Baseline
    <3>2. CASE folder' = [folder EXCEPT ![o[1]].automatic = mine]
      <4>1. folder' \in [Jobs -> Folders] /\ FoldersFit' /\ \A i \in Jobs : SameReview(i)
        BY <1>0, <2>3, <3>2, DeliveryIs DEF IInv
      <4>2. \A i \in Jobs : folder'[i].frozen = folder[i].frozen
        BY <1>0, <3>2 DEF TypeOK, Folders
      <4> QED
        BY <4>1, <4>2
    <3> QED
      BY <2>4, <3>1, <3>2
  <2>6. Goto(j, "mark") /\ "mark" \in Steps /\ ~At(j, "suggest")
    BY <1>10, <2>1 DEF Publish, Steps, Busy, At
  <2>7. /\ stage' \in [Jobs -> Stages] /\ stage'[j].step = "mark" /\ stage'[j].kind = stage[j].kind
        /\ \A i \in Jobs \ {j} : stage'[i] = stage[i]
    BY <1>0, <2>6, GotoIs
  <2>8. TypeOK'
    BY <1>0, <1>10, <2>5, <2>7 DEF Publish, shared, TypeOK, SameReview, Baseline, Generation
  <2>9. (\A q \in Ops : ReviewMoves(q)) /\ StageFits(j)' /\ SavedFitsFor(j)'
    <3>1. \A q \in Ops : ReviewMoves(q)
      BY <1>0, <2>5, OpTypes DEF ReviewMoves
    <3>2. StageFits(j)' /\ SavedFitsFor(j)'
      BY <1>10, <2>1, <2>7 DEF Publish, shared, StageFits, SavedFitsFor, At, Paid
    <3> QED
      BY <3>1, <3>2
  <2> QED
    BY <1>10, <2>5, <2>6, <2>7, <2>8, <2>9, FolderFrame DEF Publish
<1>11. CASE RecoverResult(j)
  <2>1. At(j, "finish") /\ pointer[stage[j].kind] # None
    BY <1>0, <1>11 DEF RecoverResult, StageFits, At
  <2>2. PICK o \in Ops : o = Paid(j)
    BY <1>0, <2>1, PaidIs
  <2>3. /\ o[1] \in Jobs /\ o[2] \in Authors /\ OpFits(o) /\ ~At(j, "suggest")
        /\ op[o].generation \in Nat /\ Generation(o[1]) \in Nat
    BY <1>0, <2>1, OpTypes DEF IInv, OpsFit, Authors, Operations, At
  <2>4. CASE Recoverable(o)
    <3>1. Goto(j, "saved") /\ "saved" \in Steps /\ Begun(o) /\ op[o].baseline = Baseline(o[1])
      BY <1>11, <2>2, <2>4 DEF RecoverResult, Recoverable, Steps, Busy, Begun
    <3>2. /\ stage' \in [Jobs -> Stages] /\ stage'[j].step = "saved" /\ stage'[j].kind = stage[j].kind
          /\ \A i \in Jobs \ {j} : stage'[i] = stage[i]
      BY <1>0, <3>1, GotoIs
    <3>3. Paid(j)' = o
      BY <1>11, <2>2, <3>2 DEF RecoverResult, shared, Paid
    <3>4. /\ folder' \in [Jobs -> Folders] /\ FoldersFit' /\ \A q \in Ops : ReviewMoves(q)
          /\ \A i \in Jobs : folder'[i].frozen = folder[i].frozen /\ Baseline(i)' = Baseline(i)
                             /\ Generation(i)' <= MaxGeneration
          /\ Placed(o, op[o].generation + 1)'
      <4>1. CASE AppliedAlready(o) /\ UNCHANGED folder
        <5>1. Placed(o, op[o].generation + 1)
          BY <2>3, <4>1 DEF AppliedAlready, Placed
        <5>2. Placed(o, op[o].generation + 1)'
          BY <1>11, <4>1, <5>1 DEF RecoverResult, Placed, Generation
        <5> QED
          BY <1>0, <4>1, <5>2, FolderTypes
             DEF IInv, TypeOK, FoldersFit, ReviewMoves, SameReview, Baseline, Generation
      <4>2. CASE Applicable(o) /\ Saved(o)
        <5>1. /\ Grows(o[1], o[2]) /\ Generation(o[1]) = op[o].generation
              /\ Generation(o[1]) < MaxGeneration
          BY <3>1, <4>2, <2>3 DEF Applicable, Saved, Grows, OpFits
        <5>2. /\ folder' \in [Jobs -> Folders] /\ FoldersFit'
              /\ \A i \in Jobs : SameDelivery(i) /\ Baseline(i)' = Baseline(i)
              /\ \A i \in Jobs \ {o[1]} : folder'[i] = folder[i]
              /\ Generation(o[1])' = Generation(o[1]) + 1 /\ Generation(o[1])' \in 0..MaxGeneration
              /\ folder'[o[1]].history[Generation(o[1]) + 1] = o[2]
              /\ \A i \in 1..Generation(o[1]) : folder'[o[1]].history[i] = folder[o[1]].history[i]
          BY <1>0, <2>3, <5>1, GrowsIs DEF IInv
        <5>3. ASSUME NEW q \in Ops PROVE ReviewMoves(q)
          <6>1. q[1] \in Jobs /\ q = <<q[1], q[2]>> /\ o = <<o[1], o[2]>>
            BY <1>0, OpTypes
          <6>2. CASE q[1] # o[1]
            BY <5>2, <6>1, <6>2 DEF ReviewMoves, SameReview
          <6>3. CASE q[1] = o[1]
            BY <3>1, <5>1, <5>2, <6>1, <6>3 DEF ReviewMoves
          <6> QED
            BY <6>2, <6>3
        <5>4. Placed(o, op[o].generation + 1)'
          <6>1. op'[o].generation = Generation(o[1])
            BY <1>11, <5>1 DEF RecoverResult
          <6>2. op'[o].generation + 1 \in 1..Generation(o[1])'
            BY <2>3, <5>2, <6>1
          <6> QED
            BY <5>2, <6>1, <6>2 DEF Placed
        <5>5. \A i \in Jobs : Generation(i)' <= MaxGeneration
          <6>1. \A i \in Jobs \ {o[1]} : Generation(i)' <= MaxGeneration
            BY <1>0, <5>2 DEF TypeOK, Generation
          <6>2. Generation(o[1])' <= MaxGeneration
            BY <5>2, LayoutAssumption
          <6> QED
            BY <6>1, <6>2
        <5> QED
          BY <5>2, <5>3, <5>4, <5>5 DEF SameDelivery
      <4> QED
        BY <1>11, <2>2, <2>4, <4>1, <4>2 DEF RecoverResult
    <3>5. TypeOK'
      BY <1>0, <1>11, <3>2, <3>4 DEF RecoverResult, shared, TypeOK
    <3>6. StageFits(j)' /\ SavedFitsFor(j)'
      <4>1. StageFits(j)'
        BY <1>11, <2>1, <3>1, <3>2, <3>3 DEF RecoverResult, shared, StageFits, At, Begun
      <4>2. SavedFitsFor(j)'
        BY <3>3, <3>4 DEF SavedFitsFor, Placed, Generation
      <4> QED
        BY <4>1, <4>2
    <3> QED
      BY <1>11, <2>3, <3>2, <3>4, <3>5, <3>6, FolderFrame DEF RecoverResult
  <2>5. CASE ~Recoverable(o)
    <3>1. Goto(j, "build") /\ "build" \in Steps
          /\ UNCHANGED <<folder, op, charges, shared, runner, events>>
      BY <1>11, <2>2, <2>5 DEF RecoverResult, Steps, Busy
    <3>2. /\ stage' \in [Jobs -> Stages] /\ stage'[j].step = "build" /\ stage'[j].kind = stage[j].kind
          /\ \A i \in Jobs \ {j} : stage'[i] = stage[i]
      BY <1>0, <3>1, GotoIs
    <3>3. StageFits(j)' /\ SavedFitsFor(j)'
      BY <2>1, <3>1, <3>2 DEF shared, StageFits, SavedFitsFor, At
    <3> QED
      BY <1>b, <2>3, <3>1, <3>2, <3>3, StageFrame
  <2> QED
    BY <2>4, <2>5
<1>12. CASE WriteResult(j)
  <2>1. At(j, "saved") /\ pointer[stage[j].kind] # None /\ Begun(Paid(j))
    BY <1>0, <1>12 DEF WriteResult, StageFits, At
  <2>2. PICK o \in Ops : o = Paid(j)
    BY <1>0, <2>1, PaidIs
  <2>3. /\ o[1] \in Jobs /\ Begun(o) /\ op[o] \in Operations /\ op[o].result \in {"none", "applied"}
        /\ OpFits(o) /\ RunnerFits(o) /\ HistoryFitsFor(o)
        /\ op[o].baseline = Baseline(o[1]) => Placed(o, op[o].generation + 1)
    BY <1>0, <1>12, <2>1, <2>2, OpTypes
       DEF WriteResult, IInv, OpsFit, RunnersFit, HistoryFits, SavedFits, SavedFitsFor
  <2> DEFINE new == [op[o] EXCEPT !.result = "applied", !.landed = op[o].generation + 1]
  <2>4. op' = [op EXCEPT ![o] = new] /\ Goto(j, "build") /\ "build" \in Steps
    BY <1>12, <2>2 DEF WriteResult, Steps, Busy
  <2>5. /\ new \in Operations /\ new.result = "applied" /\ new.landed = op[o].generation + 1
        /\ new.state = op[o].state /\ new.baseline = op[o].baseline
        /\ new.generation = op[o].generation /\ new.summary = op[o].summary
        /\ new.answered = op[o].answered
    <3>1. op[o].generation + 1 \in 0..MaxGeneration
      BY <2>3, LayoutAssumption DEF OpFits, Operations
    <3> QED
      BY <2>3, <3>1 DEF Operations, Results
  <2> HIDE DEF new
  <2>6. op'[o] = new /\ op' \in [Ops -> Operations] /\ \A q \in Ops \ {o} : op'[q] = op[q]
    BY <1>0, <2>4, <2>5 DEF TypeOK
  <2>7. /\ stage' \in [Jobs -> Stages] /\ stage'[j].step = "build" /\ stage'[j].kind = stage[j].kind
        /\ \A i \in Jobs \ {j} : stage'[i] = stage[i]
    BY <1>0, <2>4, GotoIs
  <2>8. TypeOK'
    BY <1>0, <1>12, <2>6, <2>7 DEF WriteResult, shared, TypeOK, Baseline, Generation
  <2>9. charges[o].sent \in Nat
    BY <1>0 DEF TypeOK
  <2>10. OpMoves(o)
    BY <1>12, <2>3, <2>5, <2>6, <2>9 DEF WriteResult, OpMoves, Begun
  <2>11. OpFits(o)'
    BY <1>12, <2>3, <2>5, <2>6 DEF WriteResult, OpFits, Begun, Baseline
  <2>12. RunnerFits(o)'
    <3>1. runner[o].step # "idle" /\ o[2] \in Kinds => o[1] # j
      BY <2>1, <2>3 DEF RunnerFits, At
    <3> QED
      BY <1>12, <2>3, <2>5, <2>6, <2>7, <3>1 DEF WriteResult, RunnerFits, Asks, At
  <2>13. HistoryFitsFor(o)'
    BY <1>12, <2>3, <2>5, <2>6 DEF WriteResult, HistoryFitsFor, Begun, Placed, Baseline, Generation
  <2>14. StageFits(j)' /\ SavedFitsFor(j)'
    BY <1>12, <2>1, <2>7 DEF WriteResult, shared, StageFits, SavedFitsFor, At
  <2> QED
    BY <1>12, <2>1, <2>3, <2>6, <2>7, <2>8, <2>10, <2>11, <2>12, <2>13, <2>14, OpFrame
       DEF WriteResult, At
<1>13. CASE StageSuggests(j)
  <2> DEFINE k == stage[j].kind
  <2>1. PICK o \in Ops : o = <<j, k>> /\ o[1] = j /\ o[2] = k
    <3>1. <<j, k>> \in Ops
      BY <1>0 DEF Ops
    <3> QED
      BY <3>1
  <2>2. /\ At(j, "pointed") /\ Begin(o, stage[j].baseline, stage[j].generation)
        /\ stage' = [stage EXCEPT ![j] = [Unstarted EXCEPT !.step = "suggest", !.kind = k]]
        /\ UNCHANGED <<folder, charges, shared, events>>
    BY <1>13, <2>1 DEF StageSuggests
  <2>3. Sets(j, "suggest", k) /\ "suggest" \in Steps /\ ~At(j, "suggest")
    BY <2>2, BareIs DEF Sets, Steps, At
  <2>4. /\ stage' \in [Jobs -> Stages] /\ stage'[j].step = "suggest" /\ stage'[j].kind = k
        /\ \A i \in Jobs \ {j} : stage'[i] = stage[i]
    BY <1>0, <2>3, SetsIs
  <2>5. stage[j].baseline > 0
    BY <1>0, <2>2 DEF StageFits, At
  <2>6. /\ op' \in [Ops -> Operations] /\ runner' \in [Ops -> Runners]
        /\ \A q \in Ops \ {o} : op'[q] = op[q] /\ runner'[q] = runner[q]
        /\ ~Begun(o) /\ OpMoves(o) /\ OpFits(o)' /\ RunnerFits(o)' /\ HistoryFitsFor(o)'
    BY <2>1, <2>2, <2>4, <2>5, BeginIs
  <2>7. PaymentFits(o)'
    <3>1. /\ pointer[k] # None /\ pointer[k].job = j /\ authorized[j][k] = "automatic"
          /\ k = "recovery" => Predecessor
      BY <1>0, <2>2 DEF StageFits, At
    <3>2. k = "recovery" => Predecessor'
      <4>1. \A q \in Ops : OpMoves(q)
        <5>1. \A q \in Ops : charges[q].sent <= charges[q].sent
          BY <1>0 DEF TypeOK
        <5> QED
          BY <2>2, <2>6, <5>1 DEF OpMoves, Begun
      <4>2. TypeOK'
        BY <1>0, <2>2, <2>4, <2>6 DEF shared, TypeOK, Baseline, Generation
      <4> QED
        BY <1>0, <3>1, <4>1, <4>2, PredecessorStands
    <3> QED
      BY <2>1, <2>2, <3>1, <3>2 DEF shared, PaymentFits
  <2>8. TypeOK'
    BY <1>0, <2>2, <2>4, <2>6 DEF shared, TypeOK, Baseline, Generation
  <2>9. StageFits(j)' /\ SavedFitsFor(j)'
    BY <2>4, NothingEstablished
  <2> QED
    BY <2>2, <2>3, <2>4, <2>6, <2>7, <2>8, <2>9, OpFrame
<1> QED
  BY <1>1, <1>2, <1>3, <1>4, <1>5, <1>6, <1>7, <1>8, <1>9, <1>10, <1>11, <1>12, <1>13 DEF Stage

\* A stage that fails on the way leaves what it has made.
LEMMA InterruptedStep == ASSUME IInv, NEW j \in Jobs, StageInterrupted(j) PROVE IInv'
<1>0. /\ TypeOK /\ stage[j].kind \in Kinds /\ stage[j].kind \in Drafts
      /\ UNCHANGED <<charges, pointer, candidate>> /\ events' \in 0..MaxEvents
  <2>1. TypeOK /\ stage[j].kind \in Kinds
    BY DEF IInv, TypeOK, Stages
  <2>2. events' \in 0..MaxEvents
    BY <2>1, CountedIs DEF StageInterrupted
  <2> QED
    BY <2>1, <2>2 DEF Drafts, StageInterrupted
<1>1. Sets(j, "raw_fallback", "included") /\ "raw_fallback" \in Steps /\ "included" \in Kinds
      /\ ~At(j, "suggest")
  BY EndsIs DEF StageInterrupted, Fallback, Steps, At
<1>2. /\ stage' \in [Jobs -> Stages] /\ stage'[j].step = "raw_fallback"
      /\ \A i \in Jobs \ {j} : stage'[i] = stage[i]
  BY <1>0, <1>1, SetsIs
<1>3. StageFits(j)' /\ SavedFitsFor(j)'
  BY <1>2, NothingEstablished
<1>4. CASE /\ authorized[j][stage[j].kind] = "none"
           /\ authorized' = [authorized EXCEPT ![j][stage[j].kind] = "made"]
           /\ UNCHANGED <<folder, op, runner>>
  <2>1. /\ authorized' \in [Jobs -> [Kinds -> {"none", "made", "automatic", "operator"}]]
        /\ \A i \in Jobs, k \in Kinds : authorized[i][k] = "automatic" => authorized'[i][k] = "automatic"
    BY <1>0, <1>4 DEF TypeOK
  <2>2. TypeOK' /\ PointersStand
    BY <1>0, <1>2, <1>4, <2>1 DEF TypeOK, PointersStand, Baseline, Generation
  <2> QED
    BY <1>0, <1>1, <1>2, <1>3, <1>4, <2>2, StageFrame
<1>5. CASE Unprepared(j, stage[j].kind) /\ UNCHANGED <<op, authorized, runner>>
  <2>1. PICK n \in Drafts : n = stage[j].kind
    BY <1>0
  <2>2. folder' \in [Jobs -> Folders] /\ FoldersFit' /\ \A i \in Jobs : SameReview(i) /\ SameDelivery(i)
    BY <1>0, <1>5, <2>1, UnpreparedIs DEF IInv
  <2>3. TypeOK'
    BY <1>0, <1>2, <1>5, <2>2 DEF TypeOK, SameReview, Baseline, Generation
  <2>4. \A q \in Ops : ReviewMoves(q)
    BY <1>0, <2>2, OpTypes DEF ReviewMoves
  <2> QED
    BY <1>0, <1>1, <1>2, <1>3, <1>5, <2>2, <2>3, <2>4, FolderFrame DEF shared, SameDelivery
<1>6. CASE /\ BeginFails(<<j, stage[j].kind>>, stage[j].baseline, stage[j].generation)
           /\ UNCHANGED <<folder, authorized>>
  <2>1. PICK o \in Ops : o = <<j, stage[j].kind>>
    BY <1>0 DEF Ops
  <2>2. /\ op' \in [Ops -> Operations] /\ runner' = runner
        /\ \A q \in Ops \ {o} : op'[q] = op[q]
        /\ OpMoves(o) /\ OpFits(o)' /\ RunnerFits(o)' /\ HistoryFitsFor(o)' /\ PaymentFits(o)'
    BY <1>0, <1>6, <2>1, BeginFailsIs
  <2>3. TypeOK'
    BY <1>0, <1>2, <1>6, <2>2 DEF TypeOK, Baseline, Generation
  <2> QED
    BY <1>0, <1>1, <1>2, <1>3, <1>6, <2>2, <2>3, OpFrame DEF shared
<1> QED
  BY <1>4, <1>5, <1>6 DEF StageInterrupted

\* What the operator does to a job.
LEMMA OperatorStep == ASSUME IInv, NEW j \in Jobs, Operator(j) PROVE IInv'
<1>0. TypeOK /\ FoldersFit /\ StageFits(j) /\ SavedFitsFor(j)
  BY DEF IInv, StagesFit, SavedFits
<1>a. ASSUME folder' \in [Jobs -> Folders], FoldersFit', Counted,
             UNCHANGED <<op, charges, shared, stage, runner>>,
             \A i \in Jobs : Baseline(i)' <= Cardinality(Drafts) /\ Generation(i)' <= MaxGeneration,
             \A q \in Ops : ReviewMoves(q),
             \A i \in Jobs : folder'[i].frozen = folder[i].frozen \/ Settled(i)
      PROVE  IInv'
  <2>1. TypeOK'
    BY <1>0, <1>a, CountedIs DEF shared, TypeOK
  <2>2. PointersStand /\ \A q \in Ops : OpMoves(q)
    BY <1>0, <1>a, AllStay DEF PointersStand, shared
  <2>3. StageFits(j)' /\ SavedFitsFor(j)'
    BY <1>a, <2>1, <2>2, StageStands, SavedStands
  <2> QED
    BY <1>a, <2>1, <2>3, FolderFrame
<1>1. CASE OperatorPrepares(j)
  <2>1. PICK n \in Drafts : n = "operator"
    BY DEF Drafts
  <2>2. CASE Prepared(j, n)
    <3>1. /\ folder' \in [Jobs -> Folders] /\ FoldersFit'
          /\ Baseline(j)' = Baseline(j) + 1 /\ Baseline(j)' <= Cardinality(Drafts)
          /\ Generation(j)' = 0
          /\ \A i \in Jobs \ {j} : folder'[i] = folder[i]
          /\ SameDelivery(j)
      BY <1>0, <2>2, PreparedIs
    <3>2. \A i \in Jobs : Baseline(i)' <= Cardinality(Drafts) /\ Generation(i)' <= MaxGeneration
      <4>1. \A i \in Jobs \ {j} : Baseline(i)' <= Cardinality(Drafts) /\ Generation(i)' <= MaxGeneration
        BY <1>0, <3>1 DEF TypeOK, Baseline, Generation
      <4> QED
        BY <3>1, <4>1, LayoutAssumption
    <3>3. ASSUME NEW q \in Ops PROVE ReviewMoves(q)
      <4>1. q[1] \in Jobs
        BY <1>0, OpTypes
      <4> QED
        BY <3>1, <4>1 DEF ReviewMoves, SameReview
    <3> QED
      BY <1>1, <1>a, <3>1, <3>2, <3>3 DEF OperatorPrepares, SameDelivery
  <2>3. CASE Unprepared(j, n)
    <3>1. folder' \in [Jobs -> Folders] /\ FoldersFit' /\ \A i \in Jobs : SameReview(i) /\ SameDelivery(i)
      BY <1>0, <2>3, UnpreparedIs
    <3>2. \A i \in Jobs : Baseline(i)' <= Cardinality(Drafts) /\ Generation(i)' <= MaxGeneration
      BY <1>0, <3>1 DEF TypeOK, SameReview, Baseline, Generation
    <3>3. \A q \in Ops : ReviewMoves(q)
      BY <1>0, <3>1, OpTypes DEF ReviewMoves
    <3> QED
      BY <1>1, <1>a, <3>1, <3>2, <3>3 DEF OperatorPrepares, SameDelivery
  <2> QED
    BY <1>1, <2>1, <2>2, <2>3 DEF OperatorPrepares
<1>2. CASE OperatorAuthorizes(j)
  <2>1. PICK left \in {"made", "operator"} : authorized' = [authorized EXCEPT ![j]["included"] = left]
    BY <1>2 DEF OperatorAuthorizes
  <2>2. /\ authorized' \in [Jobs -> [Kinds -> {"none", "made", "automatic", "operator"}]]
        /\ \A i \in Jobs, k \in Kinds : authorized[i][k] = "automatic" => authorized'[i][k] = "automatic"
    BY <1>0, <1>2, <2>1 DEF OperatorAuthorizes, TypeOK, Kinds
  <2>3. TypeOK' /\ PointersStand
    <3>1. events' \in 0..MaxEvents
      BY <1>0, <1>2, CountedIs DEF OperatorAuthorizes
    <3> QED
      BY <1>0, <1>2, <2>2, <3>1 DEF OperatorAuthorizes, TypeOK, PointersStand, Baseline, Generation
  <2>4. \A q \in Ops : OpMoves(q) /\ ReviewMoves(q)
    BY <1>0, <1>2, AllStay DEF OperatorAuthorizes, ReviewMoves, SameReview
  <2>5. StageFits(j)' /\ SavedFitsFor(j)'
    BY <1>2, <2>3, <2>4, StageStands, SavedStands DEF OperatorAuthorizes
  <2> QED
    BY <1>2, <2>3, <2>5, StageFrame DEF OperatorAuthorizes
<1>3. CASE Edit(j)
  <2>1. PICK author \in Authors : author = "operator"
    BY DEF Authors
  <2>2. Grows(j, author) /\ Generation(j) < MaxGeneration /\ Generation(j) \in Nat
    BY <1>0, <1>3, <2>1, FolderTypes DEF Edit, Grows
  <2>3. /\ folder' \in [Jobs -> Folders] /\ FoldersFit'
        /\ \A i \in Jobs : SameDelivery(i) /\ Baseline(i)' = Baseline(i)
        /\ \A i \in Jobs \ {j} : folder'[i] = folder[i]
        /\ Generation(j)' = Generation(j) + 1 /\ Generation(j)' \in 0..MaxGeneration
        /\ folder'[j].history[Generation(j) + 1] = author
        /\ \A i \in 1..Generation(j) : folder'[j].history[i] = folder[j].history[i]
    BY <1>0, <2>2, GrowsIs
  <2>4. \A i \in Jobs : Baseline(i)' <= Cardinality(Drafts) /\ Generation(i)' <= MaxGeneration
    <3>1. \A i \in Jobs \ {j} : Generation(i)' <= MaxGeneration
      BY <1>0, <2>3 DEF TypeOK, Generation
    <3>2. Generation(j)' <= MaxGeneration
      BY <2>3, LayoutAssumption
    <3> QED
      BY <1>0, <2>3, <3>1, <3>2 DEF TypeOK
  <2>5. ASSUME NEW q \in Ops PROVE ReviewMoves(q)
    <3>1. q[1] \in Jobs /\ q[2] # author
      BY <1>0, <2>1, OpTypes, LayoutAssumption DEF Drafts, Kinds
    <3>2. CASE q[1] # j
      BY <2>3, <3>1, <3>2 DEF ReviewMoves, SameReview
    <3>3. CASE q[1] = j
      BY <2>3, <3>1, <3>3 DEF ReviewMoves
    <3> QED
      BY <3>2, <3>3
  <2> QED
    BY <1>3, <1>a, <2>3, <2>4, <2>5 DEF Edit, SameDelivery
<1>4. CASE SelectDelivery(j)
  <2>1. PICK d \in Deliveries : folder' = [folder EXCEPT ![j].selection = d]
    <3>1. Baseline(j) \in 1..Cardinality(Drafts) /\ Generation(j) \in 0..MaxGeneration
      BY <1>0, <1>4, FolderTypes, DraftsCounted, LayoutAssumption DEF SelectDelivery
    <3>2. /\ [kind |-> "original", baseline |-> Baseline(j), generation |-> 0] \in Deliveries
          /\ [kind |-> "reviewed", baseline |-> Baseline(j), generation |-> Generation(j)] \in Deliveries
      BY <3>1, LayoutAssumption DEF Deliveries
    <3> QED
      BY <1>4, <3>2 DEF SelectDelivery
  <2>2. folder' \in [Jobs -> Folders] /\ FoldersFit' /\ \A i \in Jobs : SameReview(i)
    BY <1>0, <2>1, DeliveryIs
  <2>3. \A i \in Jobs : folder'[i].frozen = folder[i].frozen
    BY <1>0, <2>1 DEF TypeOK, Folders
  <2>4. \A i \in Jobs : Baseline(i)' <= Cardinality(Drafts) /\ Generation(i)' <= MaxGeneration
    BY <1>0, <2>2 DEF TypeOK, SameReview, Baseline, Generation
  <2>5. \A q \in Ops : ReviewMoves(q)
    BY <1>0, <2>2, OpTypes DEF ReviewMoves
  <2> QED
    BY <1>4, <1>a, <2>2, <2>3, <2>4, <2>5 DEF SelectDelivery
<1>5. CASE Freeze(j)
  <2>1. PICK d \in Deliveries : folder' = [folder EXCEPT ![j].frozen = d]
    <3>1. Delivery(j) \in Deliveries
      BY <1>0, <1>5, FolderTypes DEF Freeze, Deliverable, Delivery, Folders
    <3> QED
      BY <1>5, <3>1 DEF Freeze
  <2>2. folder' \in [Jobs -> Folders] /\ FoldersFit' /\ \A i \in Jobs : SameReview(i)
    BY <1>0, <2>1, DeliveryIs
  <2>3. \A i \in Jobs : folder'[i].frozen = folder[i].frozen \/ Settled(i)
    BY <1>0, <1>5, <2>1 DEF Freeze, TypeOK
  <2>4. \A i \in Jobs : Baseline(i)' <= Cardinality(Drafts) /\ Generation(i)' <= MaxGeneration
    BY <1>0, <2>2 DEF TypeOK, SameReview, Baseline, Generation
  <2>5. \A q \in Ops : ReviewMoves(q)
    BY <1>0, <2>2, OpTypes DEF ReviewMoves
  <2> QED
    BY <1>5, <1>a, <2>2, <2>3, <2>4, <2>5 DEF Freeze
<1> QED
  BY <1>1, <1>2, <1>3, <1>4, <1>5 DEF Operator


-----------------------------------------------------------------------------
(* The steps of a suggestion *)

\* What runs has begun, and is not summed up before it has ended.
LEMMA RunningIs ==
  ASSUME IInv, NEW o \in Ops, runner[o].step # "idle"
  PROVE  /\ TypeOK /\ Begun(o) /\ OpFits(o) /\ RunnerFits(o) /\ HistoryFitsFor(o)
         /\ o[1] \in Jobs /\ op[o] \in Operations /\ runner[o] \in Runners
         /\ charges[o] \in [sent : 0..N, unknown : 0..N, billed : 0..N]
         /\ runner[o].step # "finishing" => op[o].summary = "none"
BY OpTypes DEF IInv, OpsFit, OpFits, RunnersFit, HistoryFits, Idle

\* The thread looks for a cancellation, goes on to the next page, gives up, or fails to sum up.
LEMMA ThreadStep ==
  ASSUME IInv, NEW o \in Ops,
         Page(o) \/ Break(o) \/ ApplyNothing(o) \/ Refuse(o) \/ Fail(o) \/ SumFails(o)
  PROVE  IInv'
<1>1. UNCHANGED <<folder, op, charges, shared, stage>> /\ runner[o].step # "idle"
  BY DEF Page, Break, ApplyNothing, Refuse, Fail, SumFails
<1>2. events' \in 0..MaxEvents
  BY CountedIs DEF Page, Break, ApplyNothing, Refuse, Fail, SumFails, IInv, TypeOK
<1>3. /\ TypeOK /\ Begun(o) /\ RunnerFits(o)
      /\ runner[o].step # "finishing" => op[o].summary = "none"
  BY <1>1, RunningIs
<1>4. CASE Page(o)
  <2>1. Step(o, "asking") /\ runner[o].step = "page"
    BY <1>4 DEF Page
  <2>2. /\ runner' \in [Ops -> Runners] /\ \A q \in Ops \ {o} : runner'[q] = runner[q]
        /\ runner'[o].step = "asking" /\ runner'[o].result = runner[o].result
        /\ runner'[o].landed = runner[o].landed
    BY <1>3, <2>1, StepIs
  <2>3. RunnerFits(o)' /\ SaysNoMore(o)
    BY <1>1, <1>3, <2>1, <2>2 DEF RunnerFits, Asks, At, SaysNoMore
  <2> QED
    BY <1>1, <1>2, <1>3, <2>1, <2>2, <2>3, ThreadFrame
<1>5. CASE Break(o)
  <2>1. Step(o, "applying") /\ runner[o].step \in {"page", "asking"}
    BY <1>5 DEF Break
  <2>2. /\ runner' \in [Ops -> Runners] /\ \A q \in Ops \ {o} : runner'[q] = runner[q]
        /\ runner'[o].step = "applying" /\ runner'[o].result = runner[o].result
        /\ runner'[o].landed = runner[o].landed
    BY <1>3, <2>1, StepIs
  <2>3. RunnerFits(o)' /\ SaysNoMore(o)
    BY <1>1, <1>3, <2>1, <2>2 DEF RunnerFits, Asks, At, SaysNoMore
  <2> QED
    BY <1>1, <1>2, <1>3, <2>1, <2>2, <2>3, ThreadFrame
<1>6. CASE SumFails(o)
  <2>1. Step(o, "finishing") /\ runner[o].step = "summing"
    BY <1>6 DEF SumFails
  <2>2. /\ runner' \in [Ops -> Runners] /\ \A q \in Ops \ {o} : runner'[q] = runner[q]
        /\ runner'[o].step = "finishing" /\ runner'[o].result = runner[o].result
        /\ runner'[o].landed = runner[o].landed
    BY <1>3, <2>1, StepIs
  <2>3. RunnerFits(o)' /\ SaysNoMore(o)
    BY <1>1, <1>3, <2>1, <2>2 DEF RunnerFits, Asks, At, SaysNoMore
  <2> QED
    BY <1>1, <1>2, <1>3, <2>2, <2>3, ThreadFrame
<1>7. CASE ApplyNothing(o) \/ Refuse(o) \/ Fail(o)
  <2>1. PICK result \in {"failed", "cancelled"} : EndsAs(o, result)
    BY <1>7 DEF ApplyNothing, Refuse, Fail, Failed, EndsAs
  <2>2. /\ runner' \in [Ops -> Runners] /\ \A q \in Ops \ {o} : runner'[q] = runner[q]
        /\ runner'[o].step = "summing" /\ runner'[o].result = result
    BY <1>3, <2>1, EndsAsIs
  <2>3. RunnerFits(o)' /\ SaysNoMore(o)
    BY <1>1, <1>3, <2>2 DEF RunnerFits, Asks, At, SaysNoMore
  <2>4. op[o].summary = "none"
    BY <1>3, <1>7 DEF ApplyNothing, Refuse, Fail
  <2> QED
    BY <1>1, <1>2, <1>3, <2>2, <2>3, <2>4, ThreadFrame
<1> QED
  BY <1>4, <1>5, <1>6, <1>7

\* A step of a thread with its directory and its charges, for which no stage goes on.
LEMMA CallFrame ==
  ASSUME IInv, NEW o \in Ops, UNCHANGED <<folder, shared, stage>>, events' \in 0..MaxEvents,
         op' \in [Ops -> Operations], runner' \in [Ops -> Runners],
         charges' \in [Ops -> [sent : 0..N, unknown : 0..N, billed : 0..N]],
         \A q \in Ops \ {o} : op'[q] = op[q] /\ charges'[q] = charges[q] /\ runner'[q] = runner[q],
         Begun(o), OpMoves(o), SaysNoMore(o), OpFits(o)', RunnerFits(o)'
  PROVE  IInv'
<1>1. TypeOK'
  BY DEF IInv, TypeOK, shared, Baseline, Generation
<1>2. o[1] \in Jobs /\ ReviewMoves(o) /\ SameReview(o[1])
  BY OpTypes DEF IInv, ReviewMoves, SameReview
<1>3. HistoryFitsFor(o)'
  BY <1>1, <1>2, HistoryStands
<1> QED
  BY <1>1, <1>2, <1>3, OpFrame

\* A request is sent, for a page that was not asked for before ...
LEMMA AskStep == ASSUME IInv, NEW o \in Ops, Ask(o) PROVE IInv'
<1>1. /\ runner[o].step = "asking" /\ Step(o, "asked")
      /\ charges' = [charges EXCEPT ![o].sent = @ + 1]
      /\ UNCHANGED <<folder, op, shared, stage, events>>
  BY DEF Ask
<1>2. /\ TypeOK /\ Begun(o) /\ OpFits(o) /\ RunnerFits(o) /\ op[o] \in Operations
      /\ charges[o] \in [sent : 0..N, unknown : 0..N, billed : 0..N]
  BY <1>1, RunningIs
<1> DEFINE new == [charges[o] EXCEPT !.sent = charges[o].sent + 1]
<1>3. /\ new \in [sent : 0..N, unknown : 0..N, billed : 0..N]
      /\ new.sent = charges[o].sent + 1 /\ new.unknown = charges[o].unknown
      /\ new.billed = charges[o].billed
  <2>1. charges[o].sent + 1 \in 0..N
    BY <1>1, <1>2, LayoutAssumption DEF RunnerFits, Operations
  <2> QED
    BY <1>2, <2>1
<1>4. charges' = [charges EXCEPT ![o] = new]
  BY <1>1
<1> HIDE DEF new
<1>5. /\ charges' \in [Ops -> [sent : 0..N, unknown : 0..N, billed : 0..N]]
      /\ charges'[o] = new /\ \A q \in Ops \ {o} : charges'[q] = charges[q]
  BY <1>2, <1>3, <1>4 DEF TypeOK
<1>6. /\ runner' \in [Ops -> Runners] /\ \A q \in Ops \ {o} : runner'[q] = runner[q]
      /\ runner'[o].step = "asked" /\ runner'[o].result = runner[o].result
      /\ runner'[o].landed = runner[o].landed
  BY <1>1, <1>2, StepIs
<1>7. OpMoves(o) /\ SaysNoMore(o)
  BY <1>1, <1>2, <1>3, <1>5, <1>6 DEF OpMoves, SaysNoMore, Begun
<1>8. OpFits(o)'
  BY <1>1, <1>2, <1>3, <1>5, <1>6 DEF OpFits, Begun, Baseline, Operations
<1>9. RunnerFits(o)'
  BY <1>1, <1>2, <1>3, <1>5, <1>6 DEF RunnerFits, Asks, At
<1>10. op' \in [Ops -> Operations] /\ events' \in 0..MaxEvents
  BY <1>1, <1>2 DEF TypeOK
<1> QED
  BY <1>1, <1>2, <1>5, <1>6, <1>7, <1>8, <1>9, <1>10, CallFrame

\* ... its outcome is not known ...
LEMMA LoseStep == ASSUME IInv, NEW o \in Ops, Lose(o) PROVE IInv'
<1>1. /\ runner[o].step = "asked" /\ EndsAs(o, "failed") /\ Counted
      /\ charges' = [charges EXCEPT ![o].unknown = @ + 1]
      /\ UNCHANGED <<folder, op, shared, stage>>
  BY DEF Lose, Failed, EndsAs
<1>2. /\ TypeOK /\ Begun(o) /\ OpFits(o) /\ RunnerFits(o) /\ op[o].summary = "none"
      /\ charges[o] \in [sent : 0..N, unknown : 0..N, billed : 0..N]
  BY <1>1, RunningIs
<1> DEFINE new == [charges[o] EXCEPT !.unknown = charges[o].unknown + 1]
<1>3. /\ new \in [sent : 0..N, unknown : 0..N, billed : 0..N]
      /\ new.sent = charges[o].sent /\ new.billed = charges[o].billed
  <2>1. charges[o].unknown + 1 \in 0..N
    BY <1>1, <1>2, LayoutAssumption DEF RunnerFits, Asks
  <2> QED
    BY <1>2, <2>1
<1>4. charges' = [charges EXCEPT ![o] = new]
  BY <1>1
<1> HIDE DEF new
<1>5. /\ charges' \in [Ops -> [sent : 0..N, unknown : 0..N, billed : 0..N]]
      /\ charges'[o] = new /\ \A q \in Ops \ {o} : charges'[q] = charges[q]
  BY <1>2, <1>3, <1>4 DEF TypeOK
<1>6. /\ runner' \in [Ops -> Runners] /\ \A q \in Ops \ {o} : runner'[q] = runner[q]
      /\ runner'[o].step = "summing" /\ runner'[o].result = "failed"
  BY <1>1, <1>2, EndsAsIs
<1>7. OpMoves(o) /\ SaysNoMore(o)
  BY <1>1, <1>2, <1>3, <1>5, <1>6 DEF OpMoves, SaysNoMore, Begun
<1>8. OpFits(o)'
  BY <1>1, <1>2, <1>3, <1>5, <1>6 DEF OpFits, Begun, Baseline
<1>9. RunnerFits(o)'
  BY <1>1, <1>2, <1>6 DEF RunnerFits, Asks, At
<1>10. op' \in [Ops -> Operations] /\ events' \in 0..MaxEvents
  BY <1>1, <1>2, CountedIs DEF TypeOK
<1> QED
  BY <1>1, <1>2, <1>5, <1>6, <1>7, <1>8, <1>9, <1>10, CallFrame

\* ... or it is answered ...
LEMMA AnswerStep == ASSUME IInv, NEW o \in Ops, Answer(o) PROVE IInv'
<1>1. PICK step \in {"applying", "page"} :
        /\ runner[o].step = "asked" /\ Step(o, step) /\ (step = "page" => op[o].answered + 1 # N)
        /\ op' = [op EXCEPT ![o].answered = @ + 1]
        /\ UNCHANGED <<folder, charges, shared, stage, events>>
  BY DEF Answer
<1>2. /\ TypeOK /\ Begun(o) /\ OpFits(o) /\ RunnerFits(o) /\ op[o] \in Operations
      /\ op[o].summary = "none" /\ charges[o] \in [sent : 0..N, unknown : 0..N, billed : 0..N]
  BY <1>1, RunningIs
<1> DEFINE new == [op[o] EXCEPT !.answered = op[o].answered + 1]
<1>3. /\ new \in Operations /\ new.answered = op[o].answered + 1 /\ new.answered = charges[o].sent
      /\ new.state = op[o].state /\ new.baseline = op[o].baseline
      /\ new.generation = op[o].generation /\ new.summary = op[o].summary
      /\ new.result = op[o].result /\ new.landed = op[o].landed
  <2>1. op[o].answered + 1 \in 0..N /\ op[o].answered + 1 = charges[o].sent
    BY <1>1, <1>2, LayoutAssumption DEF RunnerFits, Operations
  <2> QED
    BY <1>2, <2>1 DEF Operations
<1>4. op' = [op EXCEPT ![o] = new]
  BY <1>1
<1> HIDE DEF new
<1>5. op' \in [Ops -> Operations] /\ op'[o] = new /\ \A q \in Ops \ {o} : op'[q] = op[q]
  BY <1>2, <1>3, <1>4 DEF TypeOK
<1>6. /\ runner' \in [Ops -> Runners] /\ \A q \in Ops \ {o} : runner'[q] = runner[q]
      /\ runner'[o].step = step /\ runner'[o].result = runner[o].result
      /\ runner'[o].landed = runner[o].landed
  BY <1>1, <1>2, StepIs
<1>7. OpMoves(o) /\ SaysNoMore(o)
  BY <1>1, <1>2, <1>3, <1>5, <1>6 DEF OpMoves, SaysNoMore, Begun
<1>8. OpFits(o)'
  BY <1>1, <1>2, <1>3, <1>5, <1>6 DEF OpFits, Begun, Baseline
<1>9. RunnerFits(o)'
  <2>1. step = "page" => new.answered < N
    BY <1>1, <1>2, <1>3, LayoutAssumption DEF Operations
  <2> QED
    BY <1>1, <1>2, <1>3, <1>5, <1>6, <2>1 DEF RunnerFits, Asks, At
<1>10. /\ charges' \in [Ops -> [sent : 0..N, unknown : 0..N, billed : 0..N]]
       /\ events' \in 0..MaxEvents
  BY <1>1, <1>2 DEF TypeOK
<1> QED
  BY <1>1, <1>2, <1>5, <1>6, <1>7, <1>8, <1>9, <1>10, CallFrame

\* ... and at last they are all in the summary.
LEMMA SumStep == ASSUME IInv, NEW o \in Ops, Sum(o) PROVE IInv'
<1>1. PICK summary \in {"priced", "unpriced"} :
        /\ runner[o].step = "summing" /\ Step(o, "finishing")
        /\ op' = [op EXCEPT ![o].summary = summary]
        /\ charges' = [charges EXCEPT ![o].billed = charges[o].sent]
        /\ UNCHANGED <<folder, shared, stage, events>>
  BY DEF Sum
<1>2. /\ TypeOK /\ Begun(o) /\ OpFits(o) /\ RunnerFits(o) /\ op[o] \in Operations
      /\ op[o].summary = "none" /\ charges[o] \in [sent : 0..N, unknown : 0..N, billed : 0..N]
  BY <1>1, RunningIs
<1> DEFINE new == [op[o] EXCEPT !.summary = summary]
           all == [charges[o] EXCEPT !.billed = charges[o].sent]
<1>3. /\ new \in Operations /\ new.summary = summary /\ new.answered = op[o].answered
      /\ new.state = op[o].state /\ new.baseline = op[o].baseline
      /\ new.generation = op[o].generation /\ new.result = op[o].result /\ new.landed = op[o].landed
  BY <1>2 DEF Operations
<1>4. /\ all \in [sent : 0..N, unknown : 0..N, billed : 0..N]
      /\ all.sent = charges[o].sent /\ all.billed = charges[o].sent /\ all.sent \in Nat
  BY <1>2
<1>5. op' = [op EXCEPT ![o] = new] /\ charges' = [charges EXCEPT ![o] = all]
  BY <1>1
<1> HIDE DEF new, all
<1>6. /\ op' \in [Ops -> Operations] /\ op'[o] = new /\ \A q \in Ops \ {o} : op'[q] = op[q]
      /\ charges' \in [Ops -> [sent : 0..N, unknown : 0..N, billed : 0..N]]
      /\ charges'[o] = all /\ \A q \in Ops \ {o} : charges'[q] = charges[q]
  BY <1>2, <1>3, <1>4, <1>5 DEF TypeOK
<1>7. /\ runner' \in [Ops -> Runners] /\ \A q \in Ops \ {o} : runner'[q] = runner[q]
      /\ runner'[o].step = "finishing" /\ runner'[o].result = runner[o].result
      /\ runner'[o].landed = runner[o].landed
  BY <1>1, <1>2, StepIs
<1>8. OpMoves(o) /\ SaysNoMore(o)
  BY <1>1, <1>2, <1>3, <1>4, <1>6, <1>7 DEF OpMoves, SaysNoMore, Begun
<1>9. OpFits(o)'
  BY <1>1, <1>2, <1>3, <1>4, <1>6, <1>7 DEF OpFits, Begun, Baseline
<1>10. RunnerFits(o)'
  BY <1>1, <1>2, <1>7 DEF RunnerFits, Asks, At
<1>11. events' \in 0..MaxEvents
  BY <1>1, <1>2 DEF TypeOK
<1> QED
  BY <1>1, <1>2, <1>6, <1>7, <1>8, <1>9, <1>10, <1>11, CallFrame

\* The operator asks for the cancellation.
LEMMA CancelStep == ASSUME IInv, NEW o \in Ops, CancelSuggestion(o) PROVE IInv'
<1>1. /\ Begun(o) /\ Counted /\ op' = [op EXCEPT ![o].cancel = TRUE]
      /\ UNCHANGED <<folder, charges, shared, stage, runner>>
  BY DEF CancelSuggestion, Begun
<1>2. TypeOK /\ OpFits(o) /\ RunnerFits(o) /\ op[o] \in Operations /\ charges[o].sent \in Nat
  BY OpTypes DEF IInv, OpsFit, RunnersFit
<1> DEFINE new == [op[o] EXCEPT !.cancel = TRUE]
<1>3. /\ new \in Operations /\ new.answered = op[o].answered /\ new.summary = op[o].summary
      /\ new.state = op[o].state /\ new.baseline = op[o].baseline
      /\ new.generation = op[o].generation /\ new.result = op[o].result /\ new.landed = op[o].landed
  BY <1>2 DEF Operations
<1>4. op' = [op EXCEPT ![o] = new]
  BY <1>1
<1> HIDE DEF new
<1>5. op' \in [Ops -> Operations] /\ op'[o] = new /\ \A q \in Ops \ {o} : op'[q] = op[q]
  BY <1>2, <1>3, <1>4 DEF TypeOK
<1>6. OpMoves(o) /\ SaysNoMore(o)
  BY <1>1, <1>2, <1>3, <1>5 DEF OpMoves, SaysNoMore, Begun
<1>7. OpFits(o)'
  BY <1>1, <1>2, <1>3, <1>5 DEF OpFits, Begun, Baseline
<1>8. RunnerFits(o)'
  BY <1>1, <1>2, <1>3, <1>5 DEF RunnerFits, Asks, At
<1>9. /\ charges' \in [Ops -> [sent : 0..N, unknown : 0..N, billed : 0..N]]
      /\ runner' \in [Ops -> Runners] /\ events' \in 0..MaxEvents
  BY <1>1, <1>2, CountedIs DEF TypeOK
<1> QED
  BY <1>1, <1>2, <1>5, <1>6, <1>7, <1>8, <1>9, CallFrame

\* A suggestion is asked for by the operator, whose nonces no stage has.
LEMMA SuggestStep == ASSUME IInv, NEW o \in Ops, Suggest(o) PROVE IInv'
<1>1. /\ TypeOK /\ o[1] \in Jobs /\ o[2] \notin Kinds /\ Baseline(o[1]) > 0
      /\ UNCHANGED <<folder, charges, shared, stage>> /\ events' \in 0..MaxEvents
  BY OpTypes, LayoutAssumption, CountedIs DEF Suggest, IInv, Drafts
<1>2. PICK b, g : b = Baseline(o[1]) /\ g = Generation(o[1])
  OBVIOUS
<1>3. CASE Begin(o, b, g)
  <2>1. /\ op' \in [Ops -> Operations] /\ runner' \in [Ops -> Runners]
        /\ \A q \in Ops \ {o} : op'[q] = op[q] /\ runner'[q] = runner[q]
        /\ OpMoves(o) /\ OpFits(o)' /\ RunnerFits(o)' /\ HistoryFitsFor(o)'
    BY <1>1, <1>2, <1>3, BeginIs
  <2>2. TypeOK' /\ PaymentFits(o)'
    BY <1>1, <2>1 DEF shared, TypeOK, PaymentFits, Baseline, Generation
  <2> QED
    BY <1>1, <2>1, <2>2, OpFrame
<1>4. CASE BeginFails(o, b, g)
  <2>1. /\ op' \in [Ops -> Operations] /\ runner' = runner
        /\ \A q \in Ops \ {o} : op'[q] = op[q]
        /\ OpMoves(o) /\ OpFits(o)' /\ RunnerFits(o)' /\ HistoryFitsFor(o)' /\ PaymentFits(o)'
    BY <1>1, <1>4, BeginFailsIs
  <2>2. TypeOK'
    BY <1>1, <2>1 DEF shared, TypeOK, Baseline, Generation
  <2> QED
    BY <1>1, <2>1, <2>2, OpFrame
<1> QED
  BY <1>2, <1>3, <1>4 DEF Suggest

\* The thread writes its result, or fails to, and the stage that waits for it goes on.
LEMMA FinishStep == ASSUME IInv, NEW o \in Ops, Finish(o) \/ FinishFails(o) PROVE IInv'
<1>1. /\ runner[o].step = "finishing" /\ runner' = [runner EXCEPT ![o] = Idle]
      /\ UNCHANGED <<folder, charges, shared>>
      /\ \/ UNCHANGED op
         \/ /\ op' = [op EXCEPT ![o] = [@ EXCEPT !.result = runner[o].result, !.landed = runner[o].landed]]
            /\ op[o].result = "none"
  BY DEF Finish, FinishFails, Returns
<1>2. /\ TypeOK /\ Begun(o) /\ OpFits(o) /\ RunnerFits(o) /\ o[1] \in Jobs /\ op[o] \in Operations
      /\ runner[o] \in Runners /\ charges[o].sent \in Nat /\ PaymentFits(o)
  BY <1>1, RunningIs DEF IInv, PaymentsFit
<1>3. events' \in 0..MaxEvents
  BY <1>2, CountedIs DEF Finish, FinishFails, TypeOK
<1>4. /\ runner' \in [Ops -> Runners] /\ runner'[o] = Idle /\ Idle.step = "idle" /\ Idle.result = "none"
      /\ \A q \in Ops \ {o} : runner'[q] = runner[q]
  <2>1. Idle \in Runners /\ Idle.step = "idle" /\ Idle.result = "none"
    BY LayoutAssumption DEF Idle, Runners, Results
  <2> QED
    BY <1>1, <1>2, <2>1 DEF TypeOK
<1>5. /\ op' \in [Ops -> Operations] /\ \A q \in Ops \ {o} : op'[q] = op[q]
      /\ op'[o].state = op[o].state /\ op'[o].baseline = op[o].baseline
      /\ op'[o].generation = op[o].generation /\ op'[o].answered = op[o].answered
      /\ op'[o].summary = op[o].summary
      /\ \/ op'[o].result = op[o].result /\ op'[o].landed = op[o].landed
         \/ /\ op[o].result = "none"
            /\ op'[o].result = runner[o].result /\ op'[o].landed = runner[o].landed
  <2>1. CASE UNCHANGED op
    BY <1>2, <2>1 DEF TypeOK
  <2>2. CASE /\ op' = [op EXCEPT ![o] = [@ EXCEPT !.result = runner[o].result, !.landed = runner[o].landed]]
             /\ op[o].result = "none"
    <3> DEFINE new == [op[o] EXCEPT !.result = runner[o].result, !.landed = runner[o].landed]
    <3>1. op' = [op EXCEPT ![o] = new]
      BY <2>2
    <3>2. /\ new \in Operations /\ new.answered = op[o].answered /\ new.summary = op[o].summary
          /\ new.state = op[o].state /\ new.baseline = op[o].baseline
          /\ new.generation = op[o].generation
          /\ new.result = runner[o].result /\ new.landed = runner[o].landed
      BY <1>2 DEF Operations, Runners
    <3> HIDE DEF new
    <3> QED
      BY <1>2, <2>2, <3>1, <3>2 DEF TypeOK
  <2> QED
    BY <1>1, <2>1, <2>2
<1>6. OpMoves(o) /\ SaysNoMore(o)
  BY <1>1, <1>2, <1>4, <1>5 DEF OpMoves, SaysNoMore, Begun
<1>7. OpFits(o)'
  BY <1>1, <1>2, <1>4, <1>5 DEF OpFits, Begun, Baseline
<1>8. RunnerFits(o)'
  BY <1>4 DEF RunnerFits, Asks
<1>9. charges' \in [Ops -> [sent : 0..N, unknown : 0..N, billed : 0..N]]
  BY <1>1, <1>2 DEF TypeOK
<1>10. CASE UNCHANGED stage
  BY <1>1, <1>2, <1>3, <1>4, <1>5, <1>6, <1>7, <1>8, <1>9, <1>10, CallFrame
<1>11. CASE o[2] \in Kinds /\ (Goto(o[1], "finish") \/ Fallback(o[1]))
  <2>1. stage[o[1]].step = "suggest" /\ stage[o[1]].kind = o[2] /\ pointer[o[2]] # None
    BY <1>1, <1>2, <1>11 DEF RunnerFits, PaymentFits, At
  <2>2. /\ stage' \in [Jobs -> Stages] /\ \A i \in Jobs \ {o[1]} : stage'[i] = stage[i]
        /\ StageFits(o[1])' /\ SavedFitsFor(o[1])'
    <3>1. CASE Goto(o[1], "finish")
      <4>1. /\ stage' \in [Jobs -> Stages] /\ stage'[o[1]].step = "finish"
            /\ stage'[o[1]].kind = stage[o[1]].kind
            /\ \A i \in Jobs \ {o[1]} : stage'[i] = stage[i]
        BY <1>2, <3>1, GotoIs DEF Steps, Busy
      <4> QED
        BY <1>1, <2>1, <4>1 DEF shared, StageFits, SavedFitsFor, At
    <3>2. CASE Fallback(o[1])
      <4>1. /\ stage' \in [Jobs -> Stages] /\ stage'[o[1]].step = "raw_fallback"
            /\ \A i \in Jobs \ {o[1]} : stage'[i] = stage[i]
        BY <1>2, <3>2, EndsIs, SetsIs DEF Fallback, Steps
      <4> QED
        BY <1>2, <4>1, NothingEstablished
    <3> QED
      BY <1>11, <3>1, <3>2
  <2>3. TypeOK'
    BY <1>1, <1>2, <1>3, <1>4, <1>5, <1>9, <2>2 DEF shared, TypeOK, Baseline, Generation
  <2>4. HistoryFitsFor(o)'
    <3>1. ReviewMoves(o) /\ SameReview(o[1])
      BY <1>1 DEF ReviewMoves, SameReview
    <3> QED
      BY <1>6, <2>3, <3>1, HistoryStands
  <2> QED
    BY <1>1, <1>2, <1>4, <1>5, <1>6, <1>7, <1>8, <1>11, <2>2, <2>3, <2>4, OpFrame
<1> QED
  BY <1>10, <1>11 DEF Finish, FinishFails, Returns

\* The proposal becomes the next generation of the review it was asked for, whatever becomes of its
\* receipt.
LEMMA ApplyStep == ASSUME IInv, NEW o \in Ops, Apply(o) \/ ApplyUnreceipted(o) PROVE IInv'
<1>1. /\ runner[o].step = "applying" /\ Applicable(o) /\ Grows(o[1], o[2])
      /\ UNCHANGED <<op, charges, shared, stage>>
  BY DEF Apply, ApplyUnreceipted, Saved, Grows
<1>2. /\ TypeOK /\ FoldersFit /\ Begun(o) /\ OpFits(o) /\ RunnerFits(o) /\ HistoryFitsFor(o)
      /\ o[1] \in Jobs /\ o[2] \in Authors /\ op[o] \in Operations /\ op[o].summary = "none"
      /\ runner[o] \in Runners /\ Generation(o[1]) \in Nat
      /\ Generation(o[1]) = op[o].generation /\ Baseline(o[1]) = op[o].baseline
      /\ Generation(o[1]) < MaxGeneration
  BY <1>1, RunningIs, OpTypes DEF IInv, Applicable, Current, Authors, OpFits
<1>3. /\ folder' \in [Jobs -> Folders] /\ FoldersFit'
      /\ \A i \in Jobs : SameDelivery(i) /\ Baseline(i)' = Baseline(i)
      /\ \A i \in Jobs \ {o[1]} : folder'[i] = folder[i]
      /\ Generation(o[1])' = Generation(o[1]) + 1 /\ Generation(o[1])' \in 0..MaxGeneration
      /\ folder'[o[1]].history[Generation(o[1]) + 1] = o[2]
      /\ \A i \in 1..Generation(o[1]) : folder'[o[1]].history[i] = folder[o[1]].history[i]
  BY <1>1, <1>2, GrowsIs
<1>4. /\ runner' \in [Ops -> Runners] /\ \A q \in Ops \ {o} : runner'[q] = runner[q]
      /\ runner'[o].step = "summing"
      /\ runner'[o].result = "applied" => runner'[o].landed = Generation(o[1]) + 1
  <2>1. CASE Apply(o)
    <3>1. PICK result \in {"applied", "cancelled"} : runner' = [runner EXCEPT ![o] =
             [step |-> "summing", result |-> result, landed |-> Generation(o[1]) + 1]]
      BY <2>1 DEF Apply
    <3>2. [step |-> "summing", result |-> result, landed |-> Generation(o[1]) + 1] \in Runners
      BY <1>3 DEF Runners, Results
    <3> QED
      BY <1>2, <3>1, <3>2 DEF TypeOK
  <2>2. CASE ApplyUnreceipted(o)
    <3>1. EndsAs(o, "failed")
      BY <2>2 DEF ApplyUnreceipted, Failed, EndsAs
    <3> QED
      BY <1>2, <3>1, EndsAsIs
  <2> QED
    BY <2>1, <2>2
<1>5. TypeOK'
  <2>1. events' \in 0..MaxEvents
    BY <1>2, CountedIs DEF Apply, ApplyUnreceipted, TypeOK
  <2>2. \A i \in Jobs : Baseline(i)' <= Cardinality(Drafts) /\ Generation(i)' <= MaxGeneration
    <3>1. \A i \in Jobs \ {o[1]} : Generation(i)' <= MaxGeneration
      BY <1>2, <1>3 DEF TypeOK, Generation
    <3>2. Generation(o[1])' <= MaxGeneration
      BY <1>3, LayoutAssumption
    <3> QED
      BY <1>2, <1>3, <3>1, <3>2 DEF TypeOK
  <2> QED
    BY <1>1, <1>2, <1>3, <1>4, <2>1, <2>2 DEF shared, TypeOK
<1>6. ASSUME NEW q \in Ops PROVE ReviewMoves(q)
  <2>1. q[1] \in Jobs /\ q = <<q[1], q[2]>> /\ o = <<o[1], o[2]>>
    BY <1>2, OpTypes
  <2>2. CASE q[1] # o[1]
    BY <1>3, <2>1, <2>2 DEF ReviewMoves, SameReview
  <2>3. CASE q[1] = o[1]
    BY <1>2, <1>3, <2>1, <2>3 DEF ReviewMoves
  <2> QED
    BY <2>2, <2>3
<1>7. PointersStand /\ \A q \in Ops : OpMoves(q)
  BY <1>1, <1>2, AllStay DEF PointersStand, shared
<1>8. OpsFit'
  <2> SUFFICES ASSUME NEW q \in Ops PROVE OpFits(q)'
    BY DEF OpsFit
  <2>1. Baseline(q[1])' = Baseline(q[1])
    BY <1>2, <1>3, OpTypes
  <2>2. CASE q = o
    BY <1>1, <1>2, <1>4, <2>1, <2>2 DEF OpFits, Begun
  <2>3. CASE q # o
    BY <1>1, <1>4, <2>1, <2>3 DEF IInv, OpsFit, OpFits, Begun
  <2> QED
    BY <2>2, <2>3
<1>9. RunnersFit'
  <2> SUFFICES ASSUME NEW q \in Ops PROVE RunnerFits(q)'
    BY DEF RunnersFit
  <2>1. CASE q = o
    BY <1>1, <1>2, <1>4, <2>1 DEF RunnerFits, Asks, At
  <2>2. CASE q # o
    BY <1>1, <1>4, <2>2 DEF IInv, RunnersFit, RunnerFits, Asks, At
  <2> QED
    BY <2>1, <2>2
<1>10. PaymentsFit'
  <2> SUFFICES ASSUME NEW q \in Ops, Begun(q) PROVE PaymentFits(q)'
    BY <1>1 DEF PaymentsFit, PaymentFits, Begun
  <2> QED
    BY <1>5, <1>7, PaymentStands
<1>11. StagesFit' /\ SavedFits'
  BY <1>1, <1>5, <1>6, <1>7, StageStands, SavedStands DEF StagesFit, SavedFits
<1>12. HistoryFits'
  <2>1. ASSUME NEW q \in Ops, q # o PROVE HistoryFitsFor(q)'
    <3>1. SaysNoMore(q) /\ op'[q] = op[q]
      BY <1>1, <1>4, <2>1 DEF SaysNoMore
    <3> QED
      BY <1>5, <1>6, <1>7, <3>1, HistoryStands
  <2>2. HistoryFitsFor(o)'
    <3>1. ASSUME NEW i \in 1..Generation(o[1])', folder'[o[1]].history[i] = o[2]
          PROVE  i = op[o].generation + 1
      BY <1>2, <1>3, <3>1 DEF HistoryFitsFor
    <3>2. op[o].result # "applied"
      BY <1>2 DEF HistoryFitsFor, Placed
    <3>3. Generation(o[1]) + 1 \in 1..Generation(o[1])'
      BY <1>2, <1>3
    <3>4. ASSUME runner'[o].result = "applied"
          PROVE  runner'[o].landed = op[o].generation + 1 /\ Placed(o, runner[o].landed)'
      BY <1>2, <1>3, <1>4, <3>3, <3>4 DEF Placed
    <3>5. op'[o] = op[o] /\ op[o].state = "begun" /\ Baseline(o[1])' = op[o].baseline
      BY <1>1, <1>2, <1>3 DEF Begun
    <3> QED
      BY <3>1, <3>2, <3>4, <3>5 DEF HistoryFitsFor, Begun
  <2> QED
    BY <2>1, <2>2 DEF HistoryFits
<1>13. FrozenFits'
  BY <1>1, <1>3 DEF IInv, FrozenFits, Frozen, Settled, OpsOf, SameDelivery
<1> QED
  BY <1>3, <1>5, <1>8, <1>9, <1>10, <1>11, <1>12, <1>13 DEF IInv

\* The process dies: nothing runs, and no stage has established anything.
LEMMA CrashStep == ASSUME IInv, Crash PROVE IInv'
<1>1. /\ TypeOK /\ UNCHANGED <<folder, op, charges, shared, events>>
      /\ runner' = [o \in Ops |-> Idle] /\ Idle.step = "idle" /\ Idle.result = "none"
  BY DEF IInv, Crash, Idle
<1>2. stage' \in [Jobs -> Stages] /\ \A j \in Jobs : stage'[j].step \in {"unstarted", "gone"}
  <2>1. /\ [Unstarted EXCEPT !.step = "gone"] \in Stages
        /\ [Unstarted EXCEPT !.step = "gone"].step = "gone"
    BY LayoutAssumption, DraftsCounted DEF Unstarted, Stages, Kinds
  <2> QED
    BY <1>1, <2>1 DEF Crash, Attached, TypeOK
<1>3. TypeOK'
  <2>1. Idle \in Runners
    BY LayoutAssumption DEF Idle, Runners, Results
  <2> QED
    BY <1>1, <1>2, <2>1 DEF shared, TypeOK, Baseline, Generation
<1>4. FoldersFit' /\ OpsFit' /\ PaymentsFit' /\ FrozenFits'
  <2>1. FoldersFit' /\ FrozenFits'
    BY <1>1 DEF IInv, FoldersFit, FrozenFits, Frozen, Settled, OpsOf, Baseline
  <2>2. OpsFit'
    BY <1>1 DEF IInv, OpsFit, OpFits, Begun, Baseline
  <2>3. PaymentsFit'
    BY <1>1 DEF IInv, shared, PaymentsFit, PaymentFits, Begun, Predecessor
  <2> QED
    BY <2>1, <2>2, <2>3
<1>5. RunnersFit'
  BY <1>1 DEF RunnersFit, RunnerFits, Asks
<1>6. StagesFit' /\ SavedFits'
  BY <1>2, NothingEstablished DEF StagesFit, SavedFits
<1>7. HistoryFits'
  <2> SUFFICES ASSUME NEW o \in Ops PROVE HistoryFitsFor(o)'
    BY DEF HistoryFits
  <2>1. OpMoves(o) /\ ReviewMoves(o) /\ SameReview(o[1]) /\ SaysNoMore(o)
    BY <1>1, AllStay DEF ReviewMoves, SameReview, SaysNoMore
  <2> QED
    BY <1>3, <2>1, HistoryStands
<1> QED
  BY <1>3, <1>4, <1>5, <1>6, <1>7 DEF IInv

\* Every step keeps the invariant.
LEMMA NextKeepsInvariant == IInv /\ [Next]_vars => IInv'
<1> SUFFICES ASSUME IInv, [Next]_vars PROVE IInv'
  OBVIOUS
<1>1. ASSUME NEW j \in Jobs, Stage(j) \/ StageInterrupted(j) \/ Operator(j) PROVE IInv'
  BY <1>1, StageStep, InterruptedStep, OperatorStep
<1>2. ASSUME NEW o \in Ops, Suggestion(o) \/ Suggest(o) \/ CancelSuggestion(o) \/ Trouble(o) PROVE IInv'
  BY <1>2, ThreadStep, AskStep, LoseStep, AnswerStep, SumStep, CancelStep, SuggestStep, FinishStep,
     ApplyStep DEF Suggestion, Trouble
<1>3. CASE UNCHANGED vars
  <2>1. UNCHANGED <<folder, op, charges, authorized, pointer, candidate, stage, runner, events>>
    BY <1>3 DEF vars, shared
  <2>2. TypeOK' /\ FoldersFit' /\ OpsFit'
    BY <2>1 DEF IInv, TypeOK, FoldersFit, OpsFit, OpFits, Begun, Baseline, Generation
  <2>3. RunnersFit' /\ PaymentsFit'
    BY <2>1 DEF IInv, RunnersFit, RunnerFits, PaymentsFit, PaymentFits, Begun, Asks, At, Predecessor
  <2>4. StagesFit' /\ SavedFits'
    <3>1. ASSUME NEW j \in Jobs PROVE StageFits(j)' /\ SavedFitsFor(j)'
      <4>1. (\A q \in Ops : OpMoves(q) /\ ReviewMoves(q)) /\ PointersStand
        BY <2>1, AllStay DEF IInv, ReviewMoves, SameReview, PointersStand
      <4> QED
        BY <2>1, <2>2, <4>1, StageStands, SavedStands
    <3> QED
      BY <3>1 DEF StagesFit, SavedFits
  <2>5. HistoryFits' /\ FrozenFits'
    BY <2>1 DEF IInv, HistoryFits, HistoryFitsFor, Placed, Begun, FrozenFits, Frozen, Settled, OpsOf,
                Baseline, Generation
  <2> QED
    BY <2>2, <2>3, <2>4, <2>5 DEF IInv
<1> QED
  BY <1>1, <1>2, <1>3, CrashStep DEF Next

\* However the suggestions, the stages, the operator and the deaths of the process interleave, the
\* folders and the suggestions fit each other (ordinary_layout_service.py, ordinary_auto_layout.py).
THEOREM LayoutInvariant == Spec => []IInv
BY InitInvariant, NextKeepsInvariant, PTL DEF Spec

-----------------------------------------------------------------------------
(* What the run checks, for every instance *)

\* The state keeps its type: no suggestion sends more requests than there are pages, whatever is
\* retried, recovered or cancelled.
THEOREM TypeCorrect == Spec => []TypeOK
<1>1. IInv => TypeOK
  BY DEF IInv
<1> QED
  BY <1>1, LayoutInvariant, PTL

\* No suggestion lands anywhere but on the generation it was asked for, and no result claims a place
\* it does not have, whichever thread or stage wrote it (apply_suggestion, _recover_settled_result).
THEOREM EditsAreKept == Spec => []SuggestionsKeepEdits
<1>1. IInv => SuggestionsKeepEdits
  BY DEF IInv, HistoryFits, HistoryFitsFor, Placed, SuggestionsKeepEdits, Generation
<1> QED
  BY <1>1, LayoutInvariant, PTL

\* A kind of the automatic stage is paid for by one job, authorized; the recovery only after the
\* included suggestion has failed at a known price (run_automatic_layout, recover_layout_job).
THEOREM PaymentsAreAutomatic == Spec => []AutomaticPayments
<1>1. IInv => AutomaticPayments
  <2> SUFFICES ASSUME IInv, NEW o \in Ops, o[2] \in Kinds, charges[o].sent > 0
               PROVE  /\ pointer[o[2]] # None /\ pointer[o[2]].job = o[1]
                      /\ authorized[o[1]][o[2]] = "automatic"
                      /\ o[2] = "recovery" => Predecessor
    BY DEF AutomaticPayments, Predecessor
  <2>1. Begun(o)
    BY DEF IInv, OpsFit, OpFits, NoCharges
  <2> QED
    BY <2>1 DEF IInv, PaymentsFit, PaymentFits
<1> QED
  BY <1>1, LayoutInvariant, PTL

-----------------------------------------------------------------------------
(* The folders keep what LayoutDelivery promises *)

\* What the promise sees of a step.
SameCharges == \A o \in Ops : charges'[o].sent = charges[o].sent /\ op'[o].summary = op[o].summary

SameDeliveries == \A j \in Jobs : SameDelivery(j)

\* The promise is about the suggestions there are.
LEMMA PromiseOps == Promise!Ops = Ops
BY DEF Promise!Ops, Ops

\* A step that neither pays nor delivers is none of its steps ...
LEMMA Stutters == ASSUME SameCharges, SameDeliveries PROVE UNCHANGED Promise!vars
<1>1. [j \in Jobs |-> Delivery(j)]' = [j \in Jobs |-> Delivery(j)]
  BY DEF SameDeliveries, SameDelivery, Delivery
<1>2. {j \in Jobs : Frozen(j)}' = {j \in Jobs : Frozen(j)}
  BY DEF SameDeliveries, SameDelivery, Frozen
<1>3. [o \in Ops |-> charges[o].sent]' = [o \in Ops |-> charges[o].sent]
  BY DEF SameCharges
<1>4. {o \in Ops : op[o].summary = "priced"}' = {o \in Ops : op[o].summary = "priced"}
  BY DEF SameCharges
<1> QED
  BY <1>1, <1>2, <1>3, <1>4 DEF Promise!vars

\* ... a choice or the first publication delivers ...
LEMMA Delivers ==
  ASSUME TypeOK, SameCharges, NEW j \in Jobs, NEW d \in Deliveries, ~Frozen(j),
         \/ folder' = [folder EXCEPT ![j].selection = d]
         \/ folder' = [folder EXCEPT ![j].automatic = d] /\ folder[j].selection = None
  PROVE  Promise!Next
<1>1. d # None /\ folder[j] \in Folders
  BY LayoutAssumption, FolderTypes
<1>2. /\ \A i \in Jobs \ {j} : folder'[i] = folder[i]
      /\ Delivery(j)' = d /\ folder'[j].frozen = folder[j].frozen
  BY <1>1 DEF TypeOK, Folders, Delivery
<1>3. /\ [i \in Jobs |-> Delivery(i)]' = [[i \in Jobs |-> Delivery(i)] EXCEPT ![j] = d]
      /\ [i \in Jobs |-> Delivery(i)]'[j] = d
  BY <1>2 DEF Delivery
<1>4. {i \in Jobs : Frozen(i)}' = {i \in Jobs : Frozen(i)} /\ j \notin {i \in Jobs : Frozen(i)}
  BY <1>2 DEF Frozen
<1>5. /\ [o \in Ops |-> charges[o].sent]' = [o \in Ops |-> charges[o].sent]
      /\ {o \in Ops : op[o].summary = "priced"}' = {o \in Ops : op[o].summary = "priced"}
  BY DEF SameCharges
<1>6. Promise!Deliver(j)
  BY <1>3, <1>4, <1>5 DEF Promise!Deliver
<1> QED
  BY <1>6 DEF Promise!Next

\* ... a request is paid for while nothing is frozen ...
LEMMA Pays == ASSUME IInv, NEW o \in Ops, Ask(o) PROVE Promise!Next
<1>1. TypeOK /\ o[1] \in Jobs /\ op[o].summary = "none" /\ Begun(o)
  BY RunningIs DEF Ask
<1>2. o[1] \notin {i \in Jobs : Frozen(i)} /\ o \notin {q \in Ops : op[q].summary = "priced"}
  BY <1>1 DEF IInv, FrozenFits, Settled, OpsOf, Begun
<1>3. [q \in Ops |-> charges[q].sent]' = [[q \in Ops |-> charges[q].sent] EXCEPT ![o] = @ + 1]
  BY <1>1 DEF Ask, TypeOK
<1>4. /\ [j \in Jobs |-> Delivery(j)]' = [j \in Jobs |-> Delivery(j)]
      /\ {j \in Jobs : Frozen(j)}' = {j \in Jobs : Frozen(j)}
      /\ {q \in Ops : op[q].summary = "priced"}' = {q \in Ops : op[q].summary = "priced"}
  BY DEF Ask, Delivery, Frozen
<1>5. Promise!Pay(o)
  BY <1>2, <1>3, <1>4 DEF Promise!Pay
<1> QED
  BY <1>5, PromiseOps DEF Promise!Next

\* ... it has a price once, if its outcome is known ...
LEMMA Prices == ASSUME IInv, NEW o \in Ops, Sum(o) PROVE [Promise!Next]_Promise!vars
<1>1. TypeOK /\ op[o].summary = "none" /\ op[o] \in Operations
      /\ charges[o] \in [sent : 0..N, unknown : 0..N, billed : 0..N]
  BY RunningIs DEF Sum
<1>2. PICK summary \in {"priced", "unpriced"} : op' = [op EXCEPT ![o].summary = summary]
  BY DEF Sum
<1>3. op'[o].summary = summary /\ \A q \in Ops \ {o} : op'[q] = op[q]
  BY <1>1, <1>2 DEF TypeOK, Operations
<1>4. \A q \in Ops : charges'[q].sent = charges[q].sent
  BY <1>1 DEF Sum, TypeOK
<1>5. SameDeliveries
  BY DEF Sum, SameDeliveries, SameDelivery
<1>6. /\ [j \in Jobs |-> Delivery(j)]' = [j \in Jobs |-> Delivery(j)]
      /\ {j \in Jobs : Frozen(j)}' = {j \in Jobs : Frozen(j)}
      /\ [q \in Ops |-> charges[q].sent]' = [q \in Ops |-> charges[q].sent]
  BY <1>4 DEF Sum, Delivery, Frozen
<1>7. CASE summary = "priced"
  <2>1. /\ {q \in Ops : op[q].summary = "priced"}' = {q \in Ops : op[q].summary = "priced"} \union {o}
        /\ o \notin {q \in Ops : op[q].summary = "priced"}
    BY <1>1, <1>3, <1>7
  <2>2. Promise!Price(o)
    BY <1>6, <2>1 DEF Promise!Price
  <2> QED
    BY <2>2, PromiseOps DEF Promise!Next
<1>8. CASE summary = "unpriced"
  <2>1. {q \in Ops : op[q].summary = "priced"}' = {q \in Ops : op[q].summary = "priced"}
    BY <1>1, <1>3, <1>8
  <2> QED
    BY <1>6, <2>1 DEF Promise!vars
<1> QED
  BY <1>7, <1>8

\* ... and a delivery is frozen when all that was paid has one.
LEMMA Freezes == ASSUME IInv, NEW j \in Jobs, Freeze(j) PROVE Promise!Next
<1>1. TypeOK /\ folder[j] \in Folders
  BY FolderTypes DEF IInv
<1>2. /\ folder' = [folder EXCEPT ![j].frozen = Delivery(j)] /\ Delivery(j) # None /\ Settled(j)
      /\ UNCHANGED <<op, charges>>
  BY DEF Freeze, Deliverable
<1>3. /\ folder'[j].frozen = Delivery(j) /\ \A i \in Jobs \ {j} : folder'[i] = folder[i]
      /\ folder'[j].selection = folder[j].selection /\ folder'[j].automatic = folder[j].automatic
  BY <1>1, <1>2 DEF TypeOK, Folders
<1>4. [i \in Jobs |-> Delivery(i)]' = [i \in Jobs |-> Delivery(i)]
  BY <1>3 DEF Delivery
<1>5. {i \in Jobs : Frozen(i)}' = {i \in Jobs : Frozen(i)} \union {j}
  BY <1>2, <1>3 DEF Frozen
<1>6. ASSUME NEW o \in Ops, o[1] = j, charges[o].sent > 0 PROVE op[o].summary = "priced"
  <2>1. Begun(o)
    BY <1>6 DEF IInv, OpsFit, OpFits, NoCharges
  <2> QED
    BY <1>2, <1>6, <2>1 DEF Settled, OpsOf, Begun
<1>7. /\ [q \in Ops |-> charges[q].sent]' = [q \in Ops |-> charges[q].sent]
      /\ {q \in Ops : op[q].summary = "priced"}' = {q \in Ops : op[q].summary = "priced"}
  BY <1>2
<1>8. Promise!Freeze(j)
  <2>1. [i \in Jobs |-> Delivery(i)][j] # None
    BY <1>2
  <2>2. \A o \in Promise!Ops : o[1] = j /\ [q \in Ops |-> charges[q].sent][o] > 0 =>
                                 o \in {q \in Ops : op[q].summary = "priced"}
    BY <1>6, PromiseOps
  <2> QED
    BY <1>4, <1>5, <1>7, <2>1, <2>2 DEF Promise!Freeze
<1> QED
  BY <1>8 DEF Promise!Next

\* What a directory is given otherwise is no price.
LEMMA SummaryStays ==
  ASSUME TypeOK, NEW o \in Ops,
         \/ \E b, g : Begin(o, b, g) \/ BeginFails(o, b, g)
         \/ op' = [op EXCEPT ![o].cancel = TRUE]
         \/ op' = [op EXCEPT ![o].answered = @ + 1]
         \/ \E result, landed : op' = [op EXCEPT ![o] = [@ EXCEPT !.result = result, !.landed = landed]]
         \/ UNCHANGED op
  PROVE  \A q \in Ops : op'[q].summary = op[q].summary
<1>1. op \in [Ops -> Operations]
  BY DEF TypeOK
<1>2. ASSUME NEW new, op' = [op EXCEPT ![o] = new], new.summary = op[o].summary
      PROVE  \A q \in Ops : op'[q].summary = op[q].summary
  BY <1>1, <1>2
<1>3. op[o] \in Operations
  BY <1>1
<1>4. ASSUME NEW b, NEW g, Begin(o, b, g) PROVE \A q \in Ops : op'[q].summary = op[q].summary
  <2>1. op' = [op EXCEPT ![o] = [op[o] EXCEPT !.state = "begun", !.baseline = b, !.generation = g]]
    BY <1>4 DEF Begin
  <2>2. [op[o] EXCEPT !.state = "begun", !.baseline = b, !.generation = g].summary = op[o].summary
    BY <1>3 DEF Operations
  <2> QED
    BY <1>2, <2>1, <2>2
<1>5. ASSUME NEW b, NEW g, BeginFails(o, b, g) PROVE \A q \in Ops : op'[q].summary = op[q].summary
  <2>1. op' = [op EXCEPT ![o] = [op[o] EXCEPT !.state = "made"]]
    BY <1>5 DEF BeginFails
  <2>2. [op[o] EXCEPT !.state = "made"].summary = op[o].summary
    BY <1>3 DEF Operations
  <2> QED
    BY <1>2, <2>1, <2>2
<1>6. CASE op' = [op EXCEPT ![o].cancel = TRUE]
  <2>1. op' = [op EXCEPT ![o] = [op[o] EXCEPT !.cancel = TRUE]]
    BY <1>6
  <2>2. [op[o] EXCEPT !.cancel = TRUE].summary = op[o].summary
    BY <1>3 DEF Operations
  <2> QED
    BY <1>2, <2>1, <2>2
<1>7. CASE op' = [op EXCEPT ![o].answered = @ + 1]
  <2>1. op' = [op EXCEPT ![o] = [op[o] EXCEPT !.answered = op[o].answered + 1]]
    BY <1>7
  <2>2. [op[o] EXCEPT !.answered = op[o].answered + 1].summary = op[o].summary
    BY <1>3 DEF Operations
  <2> QED
    BY <1>2, <2>1, <2>2
<1>8. ASSUME NEW result, NEW landed, op' = [op EXCEPT ![o] = [@ EXCEPT !.result = result, !.landed = landed]]
      PROVE  \A q \in Ops : op'[q].summary = op[q].summary
  <2>1. op' = [op EXCEPT ![o] = [op[o] EXCEPT !.result = result, !.landed = landed]]
    BY <1>8
  <2>2. [op[o] EXCEPT !.result = result, !.landed = landed].summary = op[o].summary
    BY <1>3 DEF Operations
  <2> QED
    BY <1>2, <2>1, <2>2
<1> QED
  BY <1>4, <1>5, <1>6, <1>7, <1>8

\* A stage delivers, if it does, by publishing.
LEMMA StageSays ==
  ASSUME IInv, NEW j \in Jobs, Stage(j) \/ StageInterrupted(j)
  PROVE  [Promise!Next]_Promise!vars
<1>0. TypeOK /\ FoldersFit /\ StageFits(j) /\ stage[j].kind \in Kinds /\ stage[j].kind \in Drafts
  BY DEF IInv, TypeOK, StagesFit, Stages, Drafts
<1>1. UNCHANGED charges
  BY DEF Stage, Start, Recover, StageFails, Enter, Authorize, StagePrepares, Point, StageSuggests,
         RecoverResult, WriteResult, Build, Publish, Mark, StageInterrupted
<1>2. SameCharges
  <2>1. PICK o \in Ops : o = <<j, stage[j].kind>>
    BY <1>0 DEF Ops
  <2>2. CASE StageSuggests(j)
    BY <1>0, <1>1, <2>1, <2>2, SummaryStays DEF StageSuggests, SameCharges
  <2>3. CASE WriteResult(j)
    <3>1. Paid(j) \in Ops
      BY <1>0, <2>3, PaidIs DEF WriteResult, StageFits, At
    <3> QED
      BY <1>0, <1>1, <2>3, <3>1, SummaryStays DEF WriteResult, SameCharges
  <2>4. CASE StageInterrupted(j)
    BY <1>0, <1>1, <2>1, <2>4, SummaryStays DEF StageInterrupted, SameCharges
  <2>5. CASE UNCHANGED op
    BY <1>1, <2>5 DEF SameCharges
  <2> QED
    BY <2>2, <2>3, <2>4, <2>5
       DEF Stage, Start, Recover, StageFails, Enter, Authorize, StagePrepares, Point, RecoverResult,
           Build, Publish, Mark
<1>3. CASE Publish(j)
  <2>1. pointer[stage[j].kind] # None /\ op[Paid(j)].result = "applied" /\ At(j, "publish")
    BY <1>0, <1>3 DEF Publish, StageFits, At
  <2>2. PICK o \in Ops : o = Paid(j)
    BY <1>0, <2>1, PaidIs
  <2> DEFINE mine == [kind |-> "automatic", baseline |-> op[o].baseline, generation |-> op[o].landed]
  <2>3. o[1] \in Jobs /\ mine \in Deliveries
    <3>1. o[1] \in Jobs /\ op[o] \in Operations /\ OpFits(o)
      BY <1>0, OpTypes DEF IInv, OpsFit
    <3>2. Begun(o)
      BY <2>1, <2>2, <3>1 DEF OpFits
    <3>3. op[o].baseline \in 1..Cardinality(Drafts) /\ op[o].landed \in 0..MaxGeneration
      BY <3>1, <3>2, DraftsCounted DEF OpFits, Operations
    <3> QED
      BY <3>1, <3>3 DEF Deliveries
  <2>4. /\ ~Frozen(o[1])
        /\ \/ UNCHANGED folder
           \/ folder' = [folder EXCEPT ![o[1]].automatic = mine] /\ folder[o[1]].selection = None
    BY <1>3, <2>2 DEF Publish
  <2> HIDE DEF mine
  <2>5. CASE UNCHANGED folder
    BY <1>2, <2>5, Stutters DEF SameDeliveries, SameDelivery
  <2> QED
    BY <1>0, <1>2, <2>3, <2>4, <2>5, Delivers
<1>4. CASE RecoverResult(j)
  <2>1. PICK o \in Ops : o = Paid(j)
    BY <1>0, <1>4, PaidIs DEF RecoverResult, StageFits, At
  <2>2. o[1] \in Jobs /\ o[2] \in Authors /\ OpFits(o)
    BY <1>0, OpTypes DEF IInv, OpsFit, Authors
  <2>3. CASE UNCHANGED folder
    BY <1>2, <2>3, Stutters DEF SameDeliveries, SameDelivery
  <2>4. CASE Recoverable(o) /\ Applicable(o) /\ Saved(o)
    <3>1. Grows(o[1], o[2]) /\ Generation(o[1]) < MaxGeneration
      BY <2>2, <2>4 DEF Recoverable, Applicable, Saved, Grows, OpFits, Begun
    <3>2. SameDeliveries
      BY <1>0, <2>2, <3>1, GrowsIs DEF SameDeliveries
    <3> QED
      BY <1>2, <3>2, Stutters
  <2> QED
    BY <1>4, <2>1, <2>3, <2>4 DEF RecoverResult
<1>5. CASE Prepared(j, stage[j].kind)
  <2>1. SameDeliveries
    BY <1>0, <1>5, PreparedIs DEF SameDeliveries, SameDelivery
  <2> QED
    BY <1>2, <2>1, Stutters
<1>6. CASE Unprepared(j, stage[j].kind)
  <2>1. SameDeliveries
    BY <1>0, <1>6, UnpreparedIs DEF SameDeliveries
  <2> QED
    BY <1>2, <2>1, Stutters
<1>7. CASE UNCHANGED folder
  BY <1>2, <1>7, Stutters DEF SameDeliveries, SameDelivery
<1> QED
  BY <1>3, <1>4, <1>5, <1>6, <1>7
     DEF Stage, Start, Recover, StageFails, Enter, Authorize, StagePrepares, Point, StageSuggests,
         WriteResult, Build, Mark, StageInterrupted

\* The operator delivers by a choice, and freezes.
LEMMA OperatorSays ==
  ASSUME IInv, NEW j \in Jobs, Operator(j)
  PROVE  [Promise!Next]_Promise!vars
<1>0. TypeOK /\ FoldersFit
  BY DEF IInv
<1>1. CASE Freeze(j)
  BY <1>1, Freezes
<1>2. CASE SelectDelivery(j)
  <2>1. PICK d \in Deliveries : folder' = [folder EXCEPT ![j].selection = d]
    <3>1. Baseline(j) \in 1..Cardinality(Drafts) /\ Generation(j) \in 0..MaxGeneration
      BY <1>0, <1>2, FolderTypes, DraftsCounted, LayoutAssumption DEF SelectDelivery
    <3>2. /\ [kind |-> "original", baseline |-> Baseline(j), generation |-> 0] \in Deliveries
          /\ [kind |-> "reviewed", baseline |-> Baseline(j), generation |-> Generation(j)] \in Deliveries
      BY <3>1, LayoutAssumption DEF Deliveries
    <3> QED
      BY <1>2, <3>2 DEF SelectDelivery
  <2>2. ~Frozen(j) /\ SameCharges
    BY <1>2 DEF SelectDelivery, SameCharges
  <2> QED
    BY <1>0, <2>1, <2>2, Delivers
<1>3. CASE OperatorPrepares(j) \/ OperatorAuthorizes(j) \/ Edit(j)
  <2>1. SameCharges
    BY <1>3 DEF OperatorPrepares, OperatorAuthorizes, Edit, SameCharges
  <2>2. PICK n \in Drafts \intersect Authors : n = "operator"
    BY DEF Drafts, Authors
  <2>3. SameDeliveries
    <3>1. CASE OperatorPrepares(j)
      BY <1>0, <2>2, <3>1, PreparedIs, UnpreparedIs DEF OperatorPrepares, SameDeliveries, SameDelivery
    <3>2. CASE OperatorAuthorizes(j)
      BY <3>2 DEF OperatorAuthorizes, SameDeliveries, SameDelivery
    <3>3. CASE Edit(j)
      <4>1. Grows(j, n) /\ Generation(j) < MaxGeneration
        BY <2>2, <3>3 DEF Edit, Grows
      <4> QED
        BY <1>0, <2>2, <4>1, GrowsIs DEF SameDeliveries
    <3> QED
      BY <1>3, <3>1, <3>2, <3>3
  <2> QED
    BY <2>1, <2>3, Stutters
<1> QED
  BY <1>1, <1>2, <1>3 DEF Operator

\* A suggestion pays, and is priced.
LEMMA SuggestionSays ==
  ASSUME IInv, NEW o \in Ops, Suggestion(o) \/ Suggest(o) \/ CancelSuggestion(o) \/ Trouble(o)
  PROVE  [Promise!Next]_Promise!vars
<1>0. TypeOK /\ FoldersFit
  BY DEF IInv
<1>1. CASE Ask(o)
  BY <1>1, Pays
<1>2. CASE Sum(o)
  BY <1>2, Prices
<1>3. CASE \/ Page(o) \/ Break(o) \/ Answer(o) \/ ApplyNothing(o) \/ Refuse(o) \/ Finish(o)
           \/ Suggest(o) \/ CancelSuggestion(o) \/ Lose(o) \/ Fail(o) \/ SumFails(o) \/ FinishFails(o)
  <2>1. UNCHANGED folder /\ (UNCHANGED charges \/ Lose(o))
    BY <1>3 DEF Page, Break, Answer, ApplyNothing, Refuse, Finish, Suggest, CancelSuggestion, Lose, Fail,
                SumFails, FinishFails
  <2>2. \A q \in Ops : charges'[q].sent = charges[q].sent
    BY <1>0, <2>1 DEF Lose, TypeOK
  <2>3. \A q \in Ops : op'[q].summary = op[q].summary
    <3>1. CASE UNCHANGED op
      BY <3>1
    <3>2. CASE Finish(o) /\ ~UNCHANGED op
      <4>1. op' = [op EXCEPT ![o] = [@ EXCEPT !.result = runner[o].result, !.landed = runner[o].landed]]
        BY <3>2 DEF Finish
      <4> QED
        BY <1>0, <4>1, SummaryStays
    <3>3. CASE ~Finish(o) /\ ~UNCHANGED op
      BY <1>0, <1>3, <3>3, SummaryStays
         DEF Page, Break, Answer, ApplyNothing, Refuse, Suggest, CancelSuggestion, Lose, Fail,
             SumFails, FinishFails
    <3> QED
      BY <3>1, <3>2, <3>3
  <2> QED
    BY <2>1, <2>2, <2>3, Stutters DEF SameCharges, SameDeliveries, SameDelivery
<1>4. CASE Apply(o) \/ ApplyUnreceipted(o)
  <2>1. Applicable(o) /\ Grows(o[1], o[2]) /\ UNCHANGED <<op, charges>> /\ runner[o].step = "applying"
    BY <1>4 DEF Apply, ApplyUnreceipted, Saved, Grows
  <2>2. o[1] \in Jobs /\ o[2] \in Authors /\ Begun(o) /\ OpFits(o)
    BY <1>0, <2>1, OpTypes, RunningIs DEF Authors
  <2>3. Generation(o[1]) < MaxGeneration
    BY <2>1, <2>2 DEF Applicable, OpFits
  <2>4. SameDeliveries /\ SameCharges
    BY <1>0, <2>1, <2>2, <2>3, GrowsIs DEF SameDeliveries, SameCharges
  <2> QED
    BY <2>4, Stutters
<1> QED
  BY <1>1, <1>2, <1>3, <1>4 DEF Suggestion, Trouble

\* The folders start as LayoutDelivery does.
LEMMA InitMaps == Init => Promise!Init
<1> SUFFICES ASSUME Init PROVE Promise!Init
  OBVIOUS
<1>1. /\ [j \in Jobs |-> Delivery(j)] = [j \in Jobs |-> None]
      /\ {j \in Jobs : Frozen(j)} = {}
  BY DEF Init, Delivery, Frozen, FreshFolder
<1>2. /\ [o \in Ops |-> charges[o].sent] = [o \in Ops |-> 0]
      /\ {o \in Ops : op[o].summary = "priced"} = {}
  BY DEF Init, NoCharges, FreshOp
<1> QED
  BY <1>1, <1>2, PromiseOps DEF Promise!Init

\* Every step is a step of LayoutDelivery or leaves what it promises about alone.
LEMMA StepMaps == IInv /\ [Next]_vars => [Promise!Next]_Promise!vars
<1> SUFFICES ASSUME IInv, [Next]_vars PROVE [Promise!Next]_Promise!vars
  OBVIOUS
<1>1. CASE Crash \/ UNCHANGED vars
  <2>1. SameCharges /\ SameDeliveries
    BY <1>1 DEF Crash, vars, shared, SameCharges, SameDeliveries, SameDelivery
  <2> QED
    BY <2>1, Stutters
<1> QED
  BY <1>1, StageSays, OperatorSays, SuggestionSays DEF Next

\* The delivery of a job is frozen only at a known price and stays what it was, and nothing is paid
\* for after that, whatever was under way (resolve_delivery, publish_automatic_candidate, suggest).
THEOREM ImplementsDelivery == Spec => DeliverySpec
<1>1. Init /\ [][Next]_vars /\ []IInv => Promise!Init /\ [][Promise!Next]_Promise!vars
  BY InitMaps, StepMaps, PTL
<1> QED
  BY <1>1, LayoutInvariant, PTL DEF Spec, DeliverySpec, Promise!Spec

-----------------------------------------------------------------------------
(* What follows for whoever takes delivery *)

\* The price of all that was sent for a job with a frozen delivery is known.
FrozenAtAKnownPrice ==
  \A j \in Jobs : Frozen(j) =>
    Delivery(j) # None /\ \A o \in Ops : o[1] = j /\ charges[o].sent > 0 => op[o].summary = "priced"

\* The delivery stays frozen, the document what it is, and nothing is sent for its job.
Stands(j) ==
  /\ Frozen(j)' /\ Delivery(j)' = Delivery(j)
  /\ \A o \in Ops : o[1] = j => charges'[o].sent = charges[o].sent

FrozenDeliveriesStand == [][\A j \in Jobs : Frozen(j) => Stands(j)]_vars

\* The price of a suggestion, once known, is final.
PricesAreFinal ==
  [][\A o \in Ops : op[o].summary = "priced" =>
       op'[o].summary = "priced" /\ charges'[o].sent = charges[o].sent]_vars

\* The steps of the delivery, in the layout's own words.
LEMMA DeliveryStep ==
  ASSUME [Promise!Next]_Promise!vars
  PROVE  /\ \A j \in Jobs : Frozen(j) => Stands(j)
         /\ \A o \in Ops : op[o].summary = "priced" =>
              op'[o].summary = "priced" /\ charges'[o].sent = charges[o].sent
         /\ \A j \in Jobs : ~Frozen(j) /\ Frozen(j)' =>
              /\ Delivery(j)' = Delivery(j) /\ Delivery(j) # None
              /\ \A o \in Ops : o[1] = j /\ charges'[o].sent > 0 => op'[o].summary = "priced"
<1> DEFINE delivery == [j \in Jobs |-> Delivery(j)]
           frozen == {j \in Jobs : Frozen(j)}
           sent == [o \in Ops |-> charges[o].sent]
           priced == {o \in Ops : op[o].summary = "priced"}
           Same == delivery' = delivery /\ frozen' = frozen /\ sent' = sent /\ priced' = priced
<1>1. \/ Same
      \/ \E j \in Jobs : /\ j \notin frozen /\ delivery' = [delivery EXCEPT ![j] = delivery'[j]]
                         /\ frozen' = frozen /\ sent' = sent /\ priced' = priced
      \/ \E o \in Ops : /\ o[1] \notin frozen /\ o \notin priced
                        /\ sent' = [sent EXCEPT ![o] = @ + 1]
                        /\ delivery' = delivery /\ frozen' = frozen /\ priced' = priced
      \/ \E o \in Ops : /\ priced' = priced \union {o}
                        /\ delivery' = delivery /\ frozen' = frozen /\ sent' = sent
      \/ \E j \in Jobs : /\ delivery[j] # None
                         /\ \A o \in Ops : o[1] = j /\ sent[o] > 0 => o \in priced
                         /\ frozen' = frozen \union {j}
                         /\ delivery' = delivery /\ sent' = sent /\ priced' = priced
  BY PromiseOps
     DEF Promise!Next, Promise!vars, Promise!Deliver, Promise!Pay, Promise!Price, Promise!Freeze
<1>2. /\ \A j \in Jobs : /\ j \in frozen <=> Frozen(j)
                         /\ j \in frozen' <=> Frozen(j)'
                         /\ delivery[j] = Delivery(j) /\ delivery'[j] = Delivery(j)'
      /\ \A o \in Ops : /\ o[1] \in Jobs
                        /\ o \in priced <=> op[o].summary = "priced"
                        /\ o \in priced' <=> op'[o].summary = "priced"
                        /\ sent[o] = charges[o].sent /\ sent'[o] = charges'[o].sent
  BY DEF Ops
<1>3. DOMAIN delivery = Jobs /\ DOMAIN sent = Ops
  OBVIOUS
<1> HIDE DEF delivery, frozen, sent, priced
<1> QED
  BY <1>1, <1>2, <1>3 DEF Stands

\* The job log never holds a document whose price could still turn out to be another, whatever
\* stage or suggestion was under way when it was taken (resolve_delivery).
THEOREM FrozenIsPriced == Spec => []FrozenAtAKnownPrice
<1>1. Init => FrozenAtAKnownPrice
  BY DEF Init, FreshFolder, Frozen, FrozenAtAKnownPrice
<1>2. FrozenAtAKnownPrice /\ [Promise!Next]_Promise!vars => FrozenAtAKnownPrice'
  <2> SUFFICES ASSUME FrozenAtAKnownPrice, [Promise!Next]_Promise!vars PROVE FrozenAtAKnownPrice'
    OBVIOUS
  <2> QED
    BY DeliveryStep DEF FrozenAtAKnownPrice, Stands
<1> QED
  BY <1>1, <1>2, ImplementsDelivery, PTL DEF Spec, DeliverySpec, Promise!Spec

\* What was taken stays the document it was, and no stage, recovery or operator buys anything for it
\* any more (publish_automatic_candidate, begin_suggestion).
THEOREM FrozenStands == Spec => FrozenDeliveriesStand
<1>1. [Promise!Next]_Promise!vars => [\A j \in Jobs : Frozen(j) => Stands(j)]_vars
  BY DeliveryStep
<1> QED
  BY <1>1, ImplementsDelivery, PTL DEF DeliverySpec, Promise!Spec, FrozenDeliveriesStand

\* A suggestion with a known price, finished, recovered or repeated, costs nothing more.
THEOREM PricesStand == Spec => PricesAreFinal
<1>1. [Promise!Next]_Promise!vars =>
        [\A o \in Ops : op[o].summary = "priced" =>
           op'[o].summary = "priced" /\ charges'[o].sent = charges[o].sent]_vars
  BY DeliveryStep
<1> QED
  BY <1>1, ImplementsDelivery, PTL DEF DeliverySpec, Promise!Spec, PricesAreFinal

=============================================================================
