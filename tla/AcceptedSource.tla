---------------------------- MODULE AcceptedSource ----------------------------
(******************************************************************************)
(* What the source review of a run folder promises to the operator: the       *)
(* drafts of a folder are all made under the same saved settings; a draft is  *)
(* accepted once, in the text that was last saved, and is never edited again; *)
(* only a source whose acceptance is completely on disk is ever bound to the  *)
(* folder, nothing else is sent from it afterwards, and one start of a        *)
(* translation makes one job. SourceReview implements this.                   *)
(******************************************************************************)
EXTENDS Naturals

CONSTANTS Drafts, Settings, Reviewers, Starts, Jobs, Plain, None

VARIABLES
  owner,     \* the settings a draft was made under
  text,      \* the text of a draft, by its number; 0 while there is none
  accepted,  \* the text and the reviewer of an acceptance
  sealed,    \* the drafts whose acceptance is completely on disk
  bound,     \* the source of the folder's translation
  sent,      \* the sources of which something was sent
  made       \* the jobs that a start made

vars == <<owner, text, accepted, sealed, bound, sent, made>>

Init ==
  /\ owner = [d \in Drafts |-> None]
  /\ text = [d \in Drafts |-> 0]
  /\ accepted = [d \in Drafts |-> None]
  /\ sealed = {} /\ bound = None /\ sent = {}
  /\ made = [s \in Starts |-> {}]

Draft(d, settings) ==
  /\ text[d] = 0
  /\ \A e \in Drafts : owner[e] \in {None, settings}
  /\ owner' = [owner EXCEPT ![d] = settings]
  /\ text' = [text EXCEPT ![d] = 1]
  /\ UNCHANGED <<accepted, sealed, bound, sent, made>>

Edit(d) ==
  /\ text[d] > 0 /\ accepted[d] = None
  /\ text' = [text EXCEPT ![d] = @ + 1]
  /\ UNCHANGED <<owner, accepted, sealed, bound, sent, made>>

\* The baseline itself is never accepted: some page decision was saved over it.
Accept(d, reviewer) ==
  /\ text[d] > 1 /\ accepted[d] = None
  /\ accepted' = [accepted EXCEPT ![d] = [generation |-> text[d], reviewer |-> reviewer]]
  /\ UNCHANGED <<owner, text, bound, sent, made>>
  /\ sealed' \in {sealed, sealed \union {d}}

Seal(d) ==
  /\ accepted[d] # None
  /\ sealed' = sealed \union {d}
  /\ UNCHANGED <<owner, text, accepted, bound, sent, made>>

Bind(source) ==
  /\ bound = None
  /\ source = Plain \/ source \in sealed
  /\ bound' = source
  /\ UNCHANGED <<owner, text, accepted, sealed, sent, made>>

Send ==
  /\ bound # None
  /\ sent' = sent \union {bound}
  /\ UNCHANGED <<owner, text, accepted, sealed, bound, made>>

Make(s, j) ==
  /\ made[s] = {}
  /\ made' = [made EXCEPT ![s] = {j}]
  /\ UNCHANGED <<owner, text, accepted, sealed, bound, sent>>

\* The server is started again; what its reviews were asked to start is forgotten.
Restart ==
  /\ made' = [s \in Starts |-> {}]
  /\ UNCHANGED <<owner, text, accepted, sealed, bound, sent>>

Next ==
  \/ \E d \in Drafts : Edit(d) \/ Seal(d)
  \/ \E d \in Drafts, settings \in Settings : Draft(d, settings)
  \/ \E d \in Drafts, reviewer \in Reviewers : Accept(d, reviewer)
  \/ \E source \in Drafts \union {Plain} : Bind(source)
  \/ \E s \in Starts, j \in Jobs : Make(s, j)
  \/ Send \/ Restart

Spec == Init /\ [][Next]_vars

=============================================================================
