---------------------------- MODULE LayoutDelivery ----------------------------
(*****************************************************************************)
(* What the layout of a job's document promises to whoever takes delivery of *)
(* it: the delivery is frozen (the document is entered in the job log) only  *)
(* when the price of every paid request is known; from then on it stays the  *)
(* document it was, and no suggestion is paid for any more. The price of a   *)
(* suggestion is final: no request is sent for it afterwards.                *)
(* OrdinaryLayout implements this.                                           *)
(*****************************************************************************)
EXTENDS Naturals

CONSTANTS Jobs, Suggestions, Documents, None

VARIABLES
  delivery,  \* the document delivered for a job, None while there is none
  frozen,    \* the jobs whose delivery is frozen
  sent,      \* how many paid requests were sent for a suggestion of a job
  priced     \* the suggestions with a known price

vars == <<delivery, frozen, sent, priced>>

Ops == Jobs \X Suggestions

Init ==
  /\ delivery = [j \in Jobs |-> None]
  /\ frozen = {}
  /\ sent = [o \in Ops |-> 0]
  /\ priced = {}

\* A delivered document is replaced by another one, never taken away.
Deliver(j) ==
  /\ j \notin frozen
  /\ delivery'[j] \in Documents
  /\ delivery' = [delivery EXCEPT ![j] = delivery'[j]]
  /\ UNCHANGED <<frozen, sent, priced>>

Pay(o) ==
  /\ o[1] \notin frozen /\ o \notin priced
  /\ sent' = [sent EXCEPT ![o] = @ + 1]
  /\ UNCHANGED <<delivery, frozen, priced>>

Price(o) ==
  /\ o \notin priced
  /\ priced' = priced \union {o}
  /\ UNCHANGED <<delivery, frozen, sent>>

Freeze(j) ==
  /\ delivery[j] # None
  /\ \A o \in Ops : o[1] = j /\ sent[o] > 0 => o \in priced
  /\ frozen' = frozen \union {j}
  /\ UNCHANGED <<delivery, sent, priced>>

Next ==
  \/ \E j \in Jobs : Deliver(j) \/ Freeze(j)
  \/ \E o \in Ops : Pay(o) \/ Price(o)

Spec == Init /\ [][Next]_vars

=============================================================================
