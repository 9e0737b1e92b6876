----------------------------- MODULE PagePurchase -----------------------------
(************************************************************************************)
(* What the runs of one folder promise to whoever pays for them, whatever           *)
(* fails, is cancelled or dies: a page is paid for until its result is kept         *)
(* and never after, and only while there is an account of what is bought that       *)
(* a later run will find; structured evidence, once kept, is not given up, and only *)
(* it is put into the document; the translation counts as complete only if          *)
(* every page was kept and is in the document. WorkflowRun implements this.         *)
(************************************************************************************)
CONSTANT Pages

VARIABLES
  structured,  \* whether the folder keeps structured evidence or plain texts
  asking,      \* the pages a provider is asked for
  accounted,   \* whether a later run finds the account of what is bought
  bought,      \* the pages asked for since the checkpoint was made
  kept,        \* the pages whose result is kept
  document,    \* the pages in the document
  complete     \* whether the translation counts as complete

vars == <<structured, asking, accounted, bought, kept, document, complete>>

Init ==
  /\ structured \in BOOLEAN
  /\ asking = {} /\ bought = {} /\ kept = {} /\ accounted = TRUE
  /\ document = {} /\ complete = FALSE

Buy(p) ==
  /\ p \notin kept \union asking
  /\ accounted
  /\ asking' = asking \union {p}
  /\ bought' = bought \union {p}
  /\ UNCHANGED <<structured, accounted, kept, document, complete>>

\* The asking for some pages ends, with a result or without; a death ends it for all.
Settle(pages) ==
  /\ asking' = asking \ pages
  /\ UNCHANGED <<structured, accounted, bought, kept, document, complete>>

Keep(p) ==
  /\ p \in bought \ asking
  /\ kept' = kept \union {p}
  /\ UNCHANGED <<structured, accounted, asking, bought, document, complete>>

\* A plain document may also hold texts of pages that no checkpoint took.
Assemble(pages) ==
  /\ structured => pages \subseteq kept
  /\ document' = pages
  /\ complete' \in {FALSE, pages = Pages /\ kept = Pages}
  /\ UNCHANGED <<structured, accounted, asking, bought, kept>>

Complete ==
  /\ document = Pages /\ kept = Pages
  /\ complete' = TRUE
  /\ UNCHANGED <<structured, accounted, asking, bought, kept, document>>

\* An account is opened while nothing is bought.
OpenAccount ==
  /\ bought = {}
  /\ accounted' \in BOOLEAN
  /\ UNCHANGED <<structured, asking, bought, kept, document, complete>>

\* A later run takes the translation up again.
Reopen ==
  /\ complete' = FALSE
  /\ UNCHANGED <<structured, accounted, asking, bought, kept, document>>

\* A fresh start in a folder of plain texts, by request.
StartOver ==
  /\ ~structured /\ asking = {}
  /\ bought' = {} /\ kept' = {} /\ document' = {} /\ complete' = FALSE
  /\ accounted' \in BOOLEAN
  /\ UNCHANGED <<structured, asking>>

Next ==
  \/ \E p \in Pages : Buy(p) \/ Keep(p)
  \/ \E pages \in SUBSET Pages : Settle(pages) \/ Assemble(pages)
  \/ Complete \/ Reopen \/ StartOver \/ OpenAccount

Spec == Init /\ [][Next]_vars

=============================================================================
