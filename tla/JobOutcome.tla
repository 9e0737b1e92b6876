------------------------------ MODULE JobOutcome ------------------------------
(************************************************************************************)
(* What the browser may rely on about its jobs: a job that was reported as          *)
(* ended stays as it was reported, unless a layout that failed is asked for         *)
(* again; a layout that was withdrawn is not delivered, and one that was            *)
(* delivered was not withdrawn; a folder is given back only by the job that has it, *)
(* once for each time that job came to an end. TranslationJobs implements this.     *)
(************************************************************************************)
EXTENDS Naturals

CONSTANTS Jobs, Folders, None

VARIABLES
  report,     \* what a job is reported as
  delivered,  \* the jobs whose document was laid out
  withdrawn,  \* the jobs whose layout was cancelled
  owing,      \* how often a job has ended without giving its folder back
  holder      \* the job that has a folder

vars == <<report, delivered, withdrawn, owing, holder>>

Ended == {"completed", "failed", "cancelled"}

Init ==
  /\ report = [j \in Jobs |-> "absent"]
  /\ delivered = {} /\ withdrawn = {}
  /\ owing = [j \in Jobs |-> 0]
  /\ holder = [f \in Folders |-> None]

Submit(j) ==
  /\ report[j] = "absent"
  /\ report' = [report EXCEPT ![j] = "active"]
  /\ UNCHANGED <<delivered, withdrawn, owing, holder>>

Take(f, j) ==
  /\ report[j] = "active"
  /\ holder' = [holder EXCEPT ![f] = j]
  /\ UNCHANGED <<report, delivered, withdrawn, owing>>

End(j, how) ==
  /\ report[j] = "active"
  /\ report' = [report EXCEPT ![j] = how]
  /\ owing' = [owing EXCEPT ![j] = @ + 1]
  /\ UNCHANGED <<delivered, withdrawn, holder>>

Format(j) ==
  /\ report[j] = "active"
  /\ report' = [report EXCEPT ![j] = "formatting"]
  /\ UNCHANGED <<delivered, withdrawn, owing, holder>>

Withdraw(j) ==
  /\ report[j] = "formatting"
  /\ withdrawn' = withdrawn \union {j}
  /\ UNCHANGED <<report, delivered, owing, holder>>

\* The layout ends; its document is delivered only if it was not withdrawn.
EndLayout(j) ==
  /\ report[j] = "formatting"
  /\ report' = [report EXCEPT ![j] = "completed"]
  /\ delivered' \in {delivered, delivered \union ({j} \ withdrawn)}
  /\ owing' = [owing EXCEPT ![j] = @ + 1]
  /\ UNCHANGED <<withdrawn, holder>>

\* A layout that was not delivered is asked for again, in the job's own folder.
Again(f, j) ==
  /\ report[j] = "completed" /\ j \notin delivered
  /\ report' = [report EXCEPT ![j] = "formatting"]
  /\ withdrawn' = withdrawn \ {j}
  /\ holder' = [holder EXCEPT ![f] = j]
  /\ UNCHANGED <<delivered, owing>>

\* Who owes a folder it no longer has is quit of it.
GiveBack(j) ==
  /\ owing[j] > 0
  /\ owing' = [owing EXCEPT ![j] = @ - 1]
  /\ \/ UNCHANGED holder
     \/ \E f \in Folders : holder[f] = j /\ holder' = [holder EXCEPT ![f] = None]
  /\ UNCHANGED <<report, delivered, withdrawn>>

Next ==
  \/ \E j \in Jobs : Submit(j) \/ Format(j) \/ Withdraw(j) \/ EndLayout(j) \/ GiveBack(j)
  \/ \E j \in Jobs, how \in Ended : End(j, how)
  \/ \E f \in Folders, j \in Jobs : Take(f, j) \/ Again(f, j)

Spec == Init /\ [][Next]_vars

=============================================================================
