------------------------------ MODULE Verdict -------------------------------
(***************************************************************************)
(* What a judge of documents promises: the document is judged once, and    *)
(* the verdict is what the document means.                                 *)
(***************************************************************************)
CONSTANT Meaning(_)        \* the verdict a document deserves

VARIABLES doc, judged, verdict

vars == <<doc, judged, verdict>>

Init == judged = FALSE /\ verdict = {}

Judge ==
  /\ ~ judged
  /\ judged' = TRUE
  /\ verdict' = Meaning(doc)
  /\ UNCHANGED doc

Next == Judge

Safety == Init /\ [][Next]_vars

Spec == Safety /\ WF_vars(Next)
=============================================================================
