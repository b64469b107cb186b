------------------------------- MODULE Report -------------------------------
(***************************************************************************)
(* What a report on a document promises: its rows in order, each published *)
(* once, until all are.                                                    *)
(***************************************************************************)
EXTENDS Naturals, Sequences

CONSTANTS Entry(_, _),     \* the nth row about a document
          Total(_)         \* how many there are

VARIABLES doc, rows

vars == <<doc, rows>>

Init == rows = <<>>

Publish ==
  /\ Len(rows) < Total(doc)
  /\ rows' = Append(rows, Entry(doc, Len(rows) + 1))
  /\ UNCHANGED doc

Next == Publish

Safety == Init /\ [][Next]_vars

Spec == Safety /\ WF_vars(Next)
=============================================================================
