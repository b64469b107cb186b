----------------------------- MODULE Signatures -----------------------------
(***************************************************************************)
(* signature.rs as it runs: signature_rows takes the ds:Signature elements *)
(* in document order; analyze() walks the References of each, accumulates  *)
(* the digest verdict, the first id and the first element that resolved,   *)
(* and then checks the signature value.                                    *)
(***************************************************************************)
EXTENDS Promises

CONSTANT Documents

(* The References of a Signature are a list, in document order. *)
ASSUME DocumentsAssumption ==
  \A d \in Documents :
    /\ IsDocument(d) /\ SignaturesInPlace(d)
    /\ \A s \in SigsOf(d) :
         Refs(d, s) \in Seq({Refs(d, s)[j] : j \in RefIndices(d, s)})

VARIABLES
  doc,              \* the document
  pc,               \* "select", "references" or "done"
  pending,          \* the signatures without a row yet
  sig,              \* the signature under analysis; 0 before the first
  k,                \* the index of its next Reference
  any_reference, all_digests_ok,
  signed_element,   \* the element of the first Reference that resolved: {} or {e}
  references_id,    \* the target id of the first Reference: {} or {id}
  rows              \* the rows built so far

analysis == <<any_reference, all_digests_ok, signed_element, references_id>>
vars == <<doc, pc, pending, sig, k, analysis, rows>>

-----------------------------------------------------------------------------
Init ==
  /\ doc \in Documents
  /\ pc = "select"
  /\ pending = Named(doc, "Signature")
  /\ sig = 0
  /\ k = 1
  /\ any_reference = FALSE
  /\ all_digests_ok = TRUE
  /\ signed_element = {}
  /\ references_id = {}
  /\ rows = <<>>

(* signature_rows: analyze() starts on the next signature. *)
Select ==
  /\ pc = "select"
  /\ pending # {}
  /\ sig' = First(pending)
  /\ pending' = pending \ {First(pending)}
  /\ pc' = "references"
  /\ k' = 1
  /\ any_reference' = FALSE
  /\ all_digests_ok' = TRUE
  /\ signed_element' = {}
  /\ references_id' = {}
  /\ UNCHANGED <<doc, rows>>

(* Defects: every value is kept, or the last one. *)
Keep_All(accumulator, value) == accumulator \cup value
Keep_Last(accumulator, value) == value

(* Only the first value counts: the accumulator, once set, keeps it. *)
Keep(accumulator, value) == IF accumulator = {} THEN value ELSE accumulator

(* One turn of the loop over the References of sig. *)
CheckReference ==
  /\ pc = "references"
  /\ k <= Len(Refs(doc, sig))
  /\ LET r == Refs(doc, sig)[k] IN
       /\ any_reference' = TRUE
       /\ all_digests_ok' = (all_digests_ok /\ ReferenceOk(doc, sig, r))
       /\ references_id' = Keep(references_id, {r.id})
       /\ signed_element' = Keep(signed_element, Target(doc, r))
  /\ k' = k + 1
  /\ UNCHANGED <<doc, pc, pending, sig, rows>>

(* After the last Reference: SignedInfo, the value, and the row. *)
Emit ==
  /\ pc = "references"
  /\ k > Len(Refs(doc, sig))
  /\ rows' = Append(rows,
       [idx |-> Len(rows),
        scope |-> ScopeOf(doc, sig, signed_element),
        references_id |-> references_id,
        signed_element |-> signed_element,
        c14n_ok |-> C14nOk(doc, sig),
        digest_ok |-> any_reference /\ all_digests_ok,
        sig_valid |-> SigValid(doc, sig)])
  /\ pc' = "select"
  /\ UNCHANGED <<doc, pending, sig, k, analysis>>

(* Defect: the rows end after the first, as signature_info does. *)
Finish_AfterFirst ==
  /\ pc = "select"
  /\ pending = {} \/ rows # <<>>
  /\ pc' = "done"
  /\ UNCHANGED <<doc, pending, sig, k, analysis, rows>>

(* No signature is left. *)
Finish ==
  /\ pc = "select"
  /\ pending = {}
  /\ pc' = "done"
  /\ UNCHANGED <<doc, pending, sig, k, analysis, rows>>

Next == Select \/ CheckReference \/ Emit \/ Finish

Spec == Init /\ [][Next]_vars /\ WF_vars(Next)

-----------------------------------------------------------------------------
(* Type invariant: the loop index stays within the References, and the      *)
(* accumulators name nodes and ids of the document.                         *)
TypeOK ==
  /\ IsDocument(doc)
  /\ pc \in {"select", "references", "done"}
  /\ pending \subseteq Named(doc, "Signature")
  /\ sig \in Named(doc, "Signature") \cup {0}
  /\ pc = "references" => sig # 0 /\ k \in 1 .. Len(Refs(doc, sig)) + 1
  /\ any_reference \in BOOLEAN
  /\ all_digests_ok \in BOOLEAN
  /\ signed_element \subseteq Nodes(doc)
  /\ Cardinality(references_id) <= 1

(* The two columns that identify what a row is about come from different    *)
(* References when the first one dangles: signed_element is set by the      *)
(* first that resolves, references_id by the first of all.  When digest_ok  *)
(* holds they agree: the row's id resolves to the row's element.            *)
RowNamesOneElement ==
  \A n \in DOMAIN rows :
    rows[n].digest_ok =>
      \E id \in rows[n].references_id :
        rows[n].signed_element =
          (IF id = NoId THEN {Root} ELSE FirstOf(ElementsById(doc, id)))

(* Every signature gets its row, whatever its References are. *)
EverySignatureReported ==
  <>[](pc = "done" /\ Len(rows) = Cardinality(Named(doc, "Signature")))

(* The loops publish exactly the declarative analysis, row after row. *)
Abstract == INSTANCE Report WITH Entry <- Row, Total <- RowCount

ImplementsReport == Abstract!Spec

(* api.rs, model.rs and the README say saml.signature reports the outermost *)
(* signature: no other signature is carried by an element around the        *)
(* element that carries the first row's.                                    *)
FirstRowIsOutermost ==
  pc = "done" /\ rows # <<>> =>
    LET first == First(Named(doc, "Signature")) IN
    \A s \in Named(doc, "Signature"), p \in Nodes(doc), q \in Nodes(doc) :
      first \in Children(doc, p) /\ s \in Children(doc, q) =>
        ~ (p # q /\ p \in Subtree(doc, q))
=============================================================================
