-------------------------- MODULE SignaturesProofs --------------------------
(***************************************************************************)
(* signature.rs, for every set of documents: the two nested loops publish  *)
(* the row the declarative analysis gives every signature, in document     *)
(* order, each once; the type invariant and RowNamesOneElement follow.     *)
(*                                                                         *)
(* The inductive invariant says where the loops stand.  The signatures     *)
(* begun precede all pending ones, and there is a row for each that is     *)
(* finished; within the loop over the References, the accumulators are     *)
(* those of the first k - 1.                                               *)
(***************************************************************************)
EXTENDS Signatures, DocumentLemmas, SequenceTheorems

Begun == SigsOf(doc) \ pending

(* The element the first of the References before the kth resolves to. *)
ElementBefore(d, s, n) ==
  UNION {Target(d, Refs(d, s)[j]) :
           j \in FirstOf({i \in ResolvedIndices(d, s) : i < n})}

Selection ==
  /\ \A t \in Begun : \A p \in pending : t < p
  /\ pc = "references" =>
       /\ sig \in Begun
       /\ \A t \in Begun : t <= sig
       /\ Cardinality(Before(SigsOf(doc), sig)) = Len(rows)
  /\ pc # "references" => Cardinality(Begun) = Len(rows)
  /\ pc = "done" => pending = {}

Accumulated ==
  pc = "references" =>
    /\ any_reference <=> k > 1
    /\ all_digests_ok <=>
         \A j \in 1 .. k - 1 : ReferenceOk(doc, sig, Refs(doc, sig)[j])
    /\ references_id = IF k = 1 THEN {} ELSE {Refs(doc, sig)[1].id}
    /\ signed_element = ElementBefore(doc, sig, k)

Published ==
  /\ rows \in Seq({Row(doc, n) : n \in 1 .. RowCount(doc)})
  /\ \A n \in 1 .. Len(rows) :
       rows[n] = Row(doc, n) /\ NthSignature(doc, n) \in SigsOf(doc)

IInv == TypeOK /\ doc \in Documents /\ Selection /\ Accumulated /\ Published

-----------------------------------------------------------------------------
(* A signature is the nth if n - 1 signatures precede it. *)
LEMMA NthByPredecessors ==
  ASSUME NEW d, IsDocument(d), NEW s \in SigsOf(d), NEW n \in Nat,
         Cardinality(Before(SigsOf(d), s)) = n
  PROVE  NthSignature(d, n + 1) = s
<1>1. SigsOf(d) \in SUBSET Nat /\ IsFiniteSet(SigsOf(d))
  BY NodeSets, FirstOfNodes DEF SigsOf
<1>2. \A t \in SigsOf(d) : Cardinality(Before(SigsOf(d), t)) = n => t = s
  BY <1>1, RankUnique
<1>3. NthSignature(d, n + 1) =
        CHOOSE t \in SigsOf(d) : Cardinality(Before(SigsOf(d), t)) = n
  BY DEF NthSignature, Before
<1> QED BY <1>2, <1>3

(* The index sets of References are sets of naturals. *)
LEMMA ReferenceIndices ==
  ASSUME NEW d \in Documents, NEW s \in SigsOf(d)
  PROVE  /\ IsDocument(d)
         /\ Len(Refs(d, s)) \in Nat
         /\ RefIndices(d, s) = 1 .. Len(Refs(d, s))
         /\ Refs(d, s) # <<>> <=> Len(Refs(d, s)) > 0
         /\ ResolvedIndices(d, s) \subseteq 1 .. Len(Refs(d, s))
<1>1. Refs(d, s) \in Seq({Refs(d, s)[j] : j \in RefIndices(d, s)})
  BY DocumentsAssumption
<1>2. Len(Refs(d, s)) \in Nat /\ DOMAIN Refs(d, s) = 1 .. Len(Refs(d, s))
  BY <1>1, LenProperties
<1>3. Refs(d, s) # <<>> <=> Len(Refs(d, s)) > 0
  BY <1>1, <1>2, EmptySeq
<1> QED BY <1>2, <1>3, DocumentsAssumption DEF RefIndices, ResolvedIndices

(* A Reference resolves to elements of the document. *)
LEMMA TargetsAreNodes ==
  ASSUME NEW d, IsDocument(d), NEW r
  PROVE  Target(d, r) \subseteq Nodes(d)
<1>1. Root \in Nodes(d)
  BY DEF Root, Nodes, IsDocument
<1>2. FirstOf(ElementsById(d, r.id)) \subseteq Nodes(d)
  BY NodeSets, FirstOfNodes
<1> QED BY <1>1, <1>2 DEF Target

(* One more Reference changes the element only when there was none. *)
LEMMA KeepsFirstElement ==
  ASSUME NEW d \in Documents, NEW s \in SigsOf(d), NEW n \in 1 .. Len(Refs(d, s))
  PROVE  ElementBefore(d, s, n + 1) =
           Keep(ElementBefore(d, s, n), Target(d, Refs(d, s)[n]))
<1> DEFINE R == ResolvedIndices(d, s)
           P == {i \in R : i < n}
           Q == {i \in R : i < n + 1}
           t(j) == Target(d, Refs(d, s)[j])
<1>1. /\ Len(Refs(d, s)) \in Nat /\ n \in Nat
      /\ R \subseteq Nat /\ P \in SUBSET Nat /\ Q \in SUBSET Nat
      /\ n \in RefIndices(d, s)
  BY ReferenceIndices
<1>2. n \in R <=> t(n) # {}
  BY <1>1 DEF ResolvedIndices
<1>3. /\ ElementBefore(d, s, n) = UNION {t(j) : j \in FirstOf(P)}
      /\ ElementBefore(d, s, n + 1) = UNION {t(j) : j \in FirstOf(Q)}
  BY DEF ElementBefore
<1>4. \A j \in R : t(j) # {}
  BY DEF ResolvedIndices
<1>5. /\ \A j : j \in P <=> j \in R /\ j < n
      /\ \A j : j \in Q <=> j \in R /\ j < n + 1
  OBVIOUS
<1> HIDE DEF R, P, Q, t
<1>6. \A j : j \in Q <=> j \in P \/ (j = n /\ n \in R)
  <2> SUFFICES ASSUME NEW j
               PROVE  j \in Q <=> j \in P \/ (j = n /\ n \in R)
    OBVIOUS
  <2>1. j \in R => j \in Nat
    BY <1>1
  <2>2. j \in Nat => (j < n + 1 <=> j < n \/ j = n)
    BY <1>1
  <2> QED BY <1>5, <2>1, <2>2
<1>7. CASE P # {}
  <2>1. First(P) \in P /\ \A j \in P : First(P) <= j
    BY <1>1, <1>7, FirstIsLeast
  <2>2. First(P) < n /\ First(P) \in Nat /\ First(P) \in Q
    BY <1>1, <1>5, <1>6, <2>1
  <2>3. \A j \in Q : First(P) <= j
    BY <1>1, <1>6, <2>1, <2>2
  <2>4. FirstOf(P) = {First(P)} /\ FirstOf(Q) = {First(P)}
    BY <1>1, <2>1, <2>2, <2>3, FirstIs
  <2>5. t(First(P)) # {}
    BY <1>4, <1>5, <2>1
  <2> QED BY <1>3, <2>4, <2>5 DEF Keep
<1>8. /\ FirstOf(P) = {} => ElementBefore(d, s, n) = {}
      /\ FirstOf(Q) = {} => ElementBefore(d, s, n + 1) = {}
      /\ FirstOf(Q) = {n} => ElementBefore(d, s, n + 1) = t(n)
  <2>1. UNION {t(j) : j \in {}} = {} /\ UNION {t(j) : j \in {n}} = t(n)
    OBVIOUS
  <2> QED BY <1>3, <2>1
<1>9. CASE P = {} /\ n \in R
  <2>1. n \in Q /\ \A j \in Q : n <= j
    BY <1>1, <1>6, <1>9
  <2>2. FirstOf(Q) = {n} /\ FirstOf(P) = {}
    BY <1>1, <1>9, <2>1, FirstIs DEF FirstOf
  <2> QED BY <1>8, <2>2 DEF Keep, t
<1>10. CASE P = {} /\ n \notin R
  <2>1. Q = {}
    BY <1>6, <1>10
  <2>2. FirstOf(Q) = {} /\ FirstOf(P) = {}
    BY <1>10, <2>1 DEF FirstOf
  <2> QED BY <1>2, <1>8, <1>10, <2>2 DEF Keep, t
<1> QED BY <1>7, <1>9, <1>10

(* After the last Reference, the accumulators are the analysis. *)
LEMMA AccumulatorsAreTheAnalysis ==
  ASSUME NEW d \in Documents, NEW s \in SigsOf(d),
         NEW n \in Nat, n = Len(Refs(d, s)) + 1
  PROVE  /\ DigestOk(d, s) <=>
              n > 1 /\ \A j \in 1 .. n - 1 : ReferenceOk(d, s, Refs(d, s)[j])
         /\ ReferencesId(d, s) = IF n = 1 THEN {} ELSE {Refs(d, s)[1].id}
         /\ SignedElement(d, s) = ElementBefore(d, s, n)
<1>1. /\ Len(Refs(d, s)) \in Nat
      /\ RefIndices(d, s) = 1 .. n - 1
      /\ Refs(d, s) # <<>> <=> n > 1
      /\ \A j \in ResolvedIndices(d, s) : j < n
  BY ReferenceIndices
<1>2. ReferencesId(d, s) = IF n = 1 THEN {} ELSE {Refs(d, s)[1].id}
  <2>1. CASE n = 1
    <3>1. FirstOf(RefIndices(d, s)) = {}
      BY <1>1, <2>1 DEF FirstOf
    <3> QED BY <2>1, <3>1 DEF ReferencesId
  <2>2. CASE n # 1
    <3>1. RefIndices(d, s) \in SUBSET Nat /\ 1 \in RefIndices(d, s)
      BY <1>1, <2>2
    <3>2. FirstOf(RefIndices(d, s)) = {1}
      BY <1>1, <3>1, FirstIs
    <3> QED BY <2>2, <3>2 DEF ReferencesId
  <2> QED BY <2>1, <2>2
<1>3. {i \in ResolvedIndices(d, s) : i < n} = ResolvedIndices(d, s)
  BY <1>1
<1> QED BY <1>1, <1>2, <1>3 DEF DigestOk, SignedElement, ElementBefore

-----------------------------------------------------------------------------
(* The initial states, with every signature pending. *)
LEMMA InitEstablishes == Init => IInv
<1> SUFFICES ASSUME Init PROVE IInv
  OBVIOUS
<1>1. doc \in Documents /\ IsDocument(doc)
  BY DocumentsAssumption DEF Init
<1>2. TypeOK
  <2>1. Cardinality(references_id) <= 1
    BY FS_EmptySet DEF Init
  <2> QED BY <1>1, <2>1 DEF Init, TypeOK
<1>3. Begun = {}
  BY DEF Init, Begun, SigsOf
<1>4. Selection
  BY <1>3, FS_EmptySet DEF Init, Selection
<1>5. Published
  <2>1. rows = <<>>
    BY DEF Init
  <2> QED BY <2>1, EmptySeq DEF Published
<1>6. Accumulated
  BY DEF Init, Accumulated
<1> QED BY <1>1, <1>2, <1>4, <1>5, <1>6 DEF IInv

(* Select starts the least pending signature, with nothing accumulated. *)
LEMMA SelectPreserves == IInv /\ Select => IInv'
<1> SUFFICES ASSUME IInv, Select PROVE IInv'
  OBVIOUS
<1>1. /\ pc = "select" /\ pc' = "references" /\ pending # {}
      /\ sig' = First(pending) /\ pending' = pending \ {sig'}
      /\ k' = 1 /\ any_reference' = FALSE /\ all_digests_ok' = TRUE
      /\ signed_element' = {} /\ references_id' = {}
      /\ doc' = doc /\ rows' = rows
  BY DEF Select
<1>2. /\ doc \in Documents /\ IsDocument(doc) /\ pending \subseteq SigsOf(doc)
      /\ SigsOf(doc) \in SUBSET Nat /\ IsFiniteSet(SigsOf(doc))
  BY NodeSets, FirstOfNodes DEF IInv, TypeOK, SigsOf
<1>3. sig' \in pending /\ \A p \in pending : sig' <= p
  BY <1>1, <1>2, FirstIsLeast
<1>4. Begun' = Begun \cup {sig'}
  BY <1>1, <1>2, <1>3 DEF Begun
<1>5. Before(SigsOf(doc), sig') = Begun
  <2>1. \A t \in Begun : t < sig'
    BY <1>3 DEF IInv, Selection
  <2>2. \A t \in SigsOf(doc) \ Begun : ~ (t < sig')
    BY <1>2, <1>3 DEF Begun
  <2> QED BY <2>1, <2>2 DEF Before, Begun
<1>6. TypeOK'
  <2>1. 1 \in 1 .. Len(Refs(doc, sig')) + 1 /\ sig' # 0
    BY <1>2, <1>3, ReferenceIndices DEF SigsOf, Named, Nodes
  <2>2. Cardinality(references_id') <= 1
    BY <1>1, FS_EmptySet
  <2> QED BY <1>1, <1>2, <1>3, <2>1, <2>2 DEF IInv, TypeOK, SigsOf
<1>7. Selection'
  <2>1. \A t \in Begun : t < sig'
    BY <1>3 DEF IInv, Selection
  <2>2. \A t \in Begun' : t <= sig'
    BY <1>2, <1>3, <1>4, <2>1 DEF Begun
  <2>3. \A t \in Begun' : \A p \in pending' : t < p
    <3>1. \A p \in pending' : sig' < p
      BY <1>1, <1>2, <1>3
    <3> QED BY <1>1, <1>4, <3>1 DEF IInv, Selection
  <2>4. Cardinality(Before(SigsOf(doc'), sig')) = Len(rows')
    BY <1>1, <1>5 DEF IInv, Selection
  <2> QED BY <1>1, <1>4, <2>2, <2>3, <2>4 DEF Selection
<1>8. Accumulated'
  <2>1. {i \in ResolvedIndices(doc, sig') : i < 1} = {}
    BY <1>2, <1>3, ReferenceIndices
  <2>2. ElementBefore(doc, sig', 1) = {}
    BY <2>1 DEF ElementBefore, FirstOf
  <2> QED BY <1>1, <2>2 DEF Accumulated
<1>9. Published'
  BY <1>1 DEF IInv, Published
<1> QED BY <1>1, <1>6, <1>7, <1>8, <1>9 DEF IInv

(* CheckReference accumulates one Reference more. *)
LEMMA CheckReferencePreserves == IInv /\ CheckReference => IInv'
<1> SUFFICES ASSUME IInv, CheckReference PROVE IInv'
  OBVIOUS
<1> DEFINE r == Refs(doc, sig)[k]
<1>1. /\ pc = "references" /\ k <= Len(Refs(doc, sig)) /\ k' = k + 1
      /\ any_reference' = TRUE
      /\ all_digests_ok' = (all_digests_ok /\ ReferenceOk(doc, sig, r))
      /\ references_id' = Keep(references_id, {r.id})
      /\ signed_element' = Keep(signed_element, Target(doc, r))
      /\ doc' = doc /\ pc' = pc /\ pending' = pending /\ sig' = sig /\ rows' = rows
  BY DEF CheckReference
<1>2. /\ doc \in Documents /\ IsDocument(doc)
      /\ sig \in SigsOf(doc) /\ Len(Refs(doc, sig)) \in Nat
      /\ k \in 1 .. Len(Refs(doc, sig))
  <2>1. doc \in Documents /\ IsDocument(doc) /\ sig \in SigsOf(doc)
    BY <1>1 DEF IInv, TypeOK, SigsOf
  <2> QED BY <1>1, <2>1, ReferenceIndices DEF IInv, TypeOK
<1>3. TypeOK'
  <2>1. signed_element' \subseteq Nodes(doc)
    BY <1>1, <1>2, TargetsAreNodes DEF IInv, TypeOK, Keep
  <2>2. Cardinality(references_id') <= 1
    <3>1. Cardinality({r.id}) = 1
      BY FS_Singleton
    <3> QED BY <1>1, <3>1 DEF IInv, TypeOK, Keep
  <2>3. k' \in 1 .. Len(Refs(doc', sig')) + 1
    BY <1>1, <1>2
  <2>4. all_digests_ok' \in BOOLEAN
    BY <1>1
  <2> QED BY <1>1, <2>1, <2>2, <2>3, <2>4 DEF IInv, TypeOK
<1>4. Selection'
  BY <1>1 DEF IInv, Selection, Begun
<1>5. Accumulated'
  <2>1. any_reference' <=> k' > 1
    BY <1>1, <1>2
  <2>2. all_digests_ok' <=>
          \A j \in 1 .. k' - 1 : ReferenceOk(doc', sig', Refs(doc', sig')[j])
    <3>1. \A j : j \in 1 .. k' - 1 <=> j \in 1 .. k - 1 \/ j = k
      BY <1>1, <1>2
    <3>2. all_digests_ok <=>
            \A j \in 1 .. k - 1 : ReferenceOk(doc, sig, Refs(doc, sig)[j])
      BY <1>1 DEF IInv, Accumulated
    <3> QED BY <1>1, <3>1, <3>2
  <2>3. references_id' = IF k' = 1 THEN {} ELSE {Refs(doc', sig')[1].id}
    <3>1. references_id = IF k = 1 THEN {} ELSE {Refs(doc, sig)[1].id}
      BY <1>1 DEF IInv, Accumulated
    <3>2. references_id' = {Refs(doc, sig)[1].id}
      BY <1>1, <3>1 DEF Keep
    <3>3. k' # 1
      BY <1>1, <1>2
    <3> QED BY <1>1, <3>2, <3>3
  <2>4. signed_element' = ElementBefore(doc', sig', k')
    BY <1>1, <1>2, KeepsFirstElement DEF IInv, Accumulated
  <2> QED BY <2>1, <2>2, <2>3, <2>4 DEF Accumulated
<1>6. Published'
  BY <1>1 DEF IInv, Published
<1> QED BY <1>1, <1>3, <1>4, <1>5, <1>6 DEF IInv

(* Emit publishes the row of the signature after those that have one. *)
LEMMA EmittedRow ==
  ASSUME IInv, Emit
  PROVE  /\ Len(rows) \in Nat /\ RowCount(doc) \in Nat /\ Len(rows) < RowCount(doc)
         /\ NthSignature(doc, Len(rows) + 1) = sig /\ sig \in SigsOf(doc)
         /\ rows' = Append(rows, Row(doc, Len(rows) + 1))
         /\ Cardinality(Begun) = Len(rows) + 1
<1>1. /\ pc = "references" /\ k > Len(Refs(doc, sig))
      /\ rows' = Append(rows,
           [idx |-> Len(rows),
            scope |-> ScopeOf(doc, sig, signed_element),
            references_id |-> references_id,
            signed_element |-> signed_element,
            c14n_ok |-> C14nOk(doc, sig),
            digest_ok |-> any_reference /\ all_digests_ok,
            sig_valid |-> SigValid(doc, sig)])
  BY DEF Emit
<1>2. /\ doc \in Documents /\ IsDocument(doc)
      /\ sig \in SigsOf(doc) /\ sig \in Begun
      /\ pending \subseteq SigsOf(doc)
      /\ SigsOf(doc) \in SUBSET Nat /\ IsFiniteSet(SigsOf(doc))
  BY <1>1, NodeSets, FirstOfNodes DEF IInv, TypeOK, Selection, Begun, SigsOf
<1>3. Len(rows) \in Nat
  BY LenProperties DEF IInv, Published
<1>4. k \in Nat /\ k = Len(Refs(doc, sig)) + 1
  <2>1. Len(Refs(doc, sig)) \in Nat /\ k \in 1 .. Len(Refs(doc, sig)) + 1
    BY <1>1, <1>2, ReferenceIndices DEF IInv, TypeOK
  <2> QED BY <1>1, <2>1
<1>5. NthSignature(doc, Len(rows) + 1) = sig
  BY <1>1, <1>2, <1>3, NthByPredecessors DEF IInv, Selection
<1>6. rows' = Append(rows, Row(doc, Len(rows) + 1))
  <2>1. signed_element = SignedElement(doc, sig) /\ references_id = ReferencesId(doc, sig)
    BY <1>1, <1>2, <1>4, AccumulatorsAreTheAnalysis DEF IInv, Accumulated
  <2>2. (any_reference /\ all_digests_ok) = DigestOk(doc, sig)
    <3>1. any_reference \in BOOLEAN /\ all_digests_ok \in BOOLEAN
      BY DEF IInv, TypeOK
    <3>2. DigestOk(doc, sig) \in BOOLEAN
      BY DEF DigestOk
    <3>3. (any_reference /\ all_digests_ok) <=> DigestOk(doc, sig)
      BY <1>1, <1>2, <1>4, AccumulatorsAreTheAnalysis DEF IInv, Accumulated
    <3> QED BY <3>1, <3>2, <3>3
  <2>3. Len(rows) + 1 - 1 = Len(rows)
    BY <1>3
  <2> QED BY <1>1, <1>5, <2>1, <2>2, <2>3 DEF Row
<1>7. Begun = Before(SigsOf(doc), sig) \cup {sig}
  <2>1. \A t \in SigsOf(doc) : t < sig => t \in Begun
    BY <1>2 DEF IInv, Selection, Begun
  <2>2. \A t \in Begun : t = sig \/ t < sig
    BY <1>1, <1>2 DEF IInv, Selection, Begun
  <2> QED BY <1>2, <2>1, <2>2 DEF Before, Begun
<1>8. Cardinality(Begun) = Len(rows) + 1
  <2>1. IsFiniteSet(Before(SigsOf(doc), sig)) /\ sig \notin Before(SigsOf(doc), sig)
    BY <1>2, FS_Subset DEF Before
  <2>2. Cardinality(Before(SigsOf(doc), sig) \cup {sig}) = Cardinality(Before(SigsOf(doc), sig)) + 1
    BY <2>1, FS_AddElement
  <2> QED BY <1>1, <1>7, <2>2 DEF IInv, Selection
<1>9. RowCount(doc) \in Nat /\ Len(rows) < RowCount(doc)
  <2>1. Cardinality(Begun) <= Cardinality(SigsOf(doc))
    BY <1>2, FS_Subset DEF Begun
  <2>2. Cardinality(SigsOf(doc)) \in Nat
    BY <1>2, FS_CardinalityType
  <2> QED BY <1>3, <1>8, <2>1, <2>2 DEF RowCount
<1> QED BY <1>2, <1>3, <1>5, <1>6, <1>8, <1>9

LEMMA EmitPreserves == IInv /\ Emit => IInv'
<1> SUFFICES ASSUME IInv, Emit PROVE IInv'
  OBVIOUS
<1>1. /\ pc = "references" /\ pc' = "select" /\ doc' = doc /\ pending' = pending
      /\ sig' = sig /\ UNCHANGED analysis
  BY DEF Emit
<1>2. /\ Len(rows) \in Nat /\ RowCount(doc) \in Nat /\ Len(rows) < RowCount(doc)
      /\ NthSignature(doc, Len(rows) + 1) = sig /\ sig \in SigsOf(doc)
      /\ rows' = Append(rows, Row(doc, Len(rows) + 1))
      /\ Cardinality(Begun) = Len(rows) + 1
  BY EmittedRow
<1> DEFINE R == {Row(doc, n) : n \in 1 .. RowCount(doc)}
<1>3. rows \in Seq(R)
  BY DEF IInv, Published
<1>4. Row(doc, Len(rows) + 1) \in R
  <2>1. Len(rows) + 1 \in 1 .. RowCount(doc)
    BY <1>2
  <2> QED BY <2>1
<1> HIDE DEF R
<1>5. /\ rows' \in Seq(R) /\ Len(rows') = Len(rows) + 1
      /\ \A n \in 1 .. Len(rows) : rows'[n] = rows[n]
      /\ rows'[Len(rows) + 1] = Row(doc, Len(rows) + 1)
  BY <1>2, <1>3, <1>4, AppendProperties
<1>6. Published'
  <2>1. \A n \in 1 .. Len(rows') : n \in 1 .. Len(rows) \/ n = Len(rows) + 1
    BY <1>2, <1>5
  <2>2. \A n \in 1 .. Len(rows') :
          rows'[n] = Row(doc, n) /\ NthSignature(doc, n) \in SigsOf(doc)
    BY <1>2, <1>5, <2>1 DEF IInv, Published
  <2>3. rows' \in Seq({Row(doc', n) : n \in 1 .. RowCount(doc')})
    BY <1>1, <1>5 DEF R
  <2> QED BY <1>1, <2>2, <2>3 DEF Published
<1>7. Selection'
  BY <1>1, <1>2, <1>5 DEF IInv, Selection, Begun
<1>8. TypeOK' /\ Accumulated'
  BY <1>1 DEF IInv, TypeOK, Accumulated, analysis
<1> QED BY <1>1, <1>6, <1>7, <1>8 DEF IInv

LEMMA FinishPreserves == IInv /\ Finish => IInv'
<1> SUFFICES ASSUME IInv, Finish PROVE IInv'
  OBVIOUS
<1>1. /\ pc = "select" /\ pending = {} /\ pc' = "done"
      /\ UNCHANGED <<doc, pending, sig, k, analysis, rows>>
  BY DEF Finish
<1>2. Published'
  BY <1>1 DEF IInv, Published
<1>3. Selection'
  BY <1>1 DEF IInv, Selection, Begun
<1> QED BY <1>1, <1>2, <1>3 DEF IInv, TypeOK, Accumulated, analysis

(* The loops keep the inductive invariant. *)
THEOREM LoopInvariant == Spec => []IInv
<1>1. IInv /\ UNCHANGED vars => IInv'
  <2> SUFFICES ASSUME IInv, UNCHANGED vars PROVE IInv'
    OBVIOUS
  <2>1. Published' /\ Selection'
    BY DEF IInv, Published, Selection, Begun, vars
  <2> QED BY <2>1 DEF IInv, TypeOK, Accumulated, vars, analysis
<1>2. IInv /\ [Next]_vars => IInv'
  BY <1>1, SelectPreserves, CheckReferencePreserves, EmitPreserves, FinishPreserves
     DEF Next
<1> QED BY <1>2, InitEstablishes, PTL DEF Spec

(* signature.rs stays within the References of the signature it is at, and  *)
(* its accumulators name nodes and ids of the document.                     *)
THEOREM TypeCorrect == Spec => []TypeOK
<1>1. IInv => TypeOK
  BY DEF IInv
<1> QED BY <1>1, LoopInvariant, PTL

(* A row whose digests check names one element in both columns: the first   *)
(* Reference resolves, and to the element the row is about.                 *)
THEOREM RowsNameOneElement == Spec => []RowNamesOneElement
<1>1. IInv => RowNamesOneElement
  <2> SUFFICES ASSUME IInv, NEW n \in DOMAIN rows, rows[n].digest_ok
               PROVE  \E id \in rows[n].references_id :
                        rows[n].signed_element =
                          (IF id = NoId THEN {Root} ELSE FirstOf(ElementsById(doc, id)))
    BY DEF RowNamesOneElement
  <2> DEFINE s == NthSignature(doc, n)
             r == Refs(doc, s)[1]
  <2>1. /\ doc \in Documents
        /\ rows[n] = Row(doc, n) /\ s \in SigsOf(doc)
    <3>1. n \in 1 .. Len(rows)
      BY LenProperties DEF IInv, Published
    <3> QED BY <3>1 DEF IInv, Published
  <2>2. /\ rows[n].signed_element = SignedElement(doc, s)
        /\ rows[n].references_id = ReferencesId(doc, s)
        /\ DigestOk(doc, s)
    BY <2>1 DEF Row
  <2> HIDE DEF s
  <2>3. /\ RefIndices(doc, s) \in SUBSET Nat /\ 1 \in RefIndices(doc, s)
        /\ \A j \in RefIndices(doc, s) : 1 <= j
        /\ ResolvedIndices(doc, s) \subseteq RefIndices(doc, s)
    BY <2>1, <2>2, ReferenceIndices DEF DigestOk
  <2>4. 1 \in ResolvedIndices(doc, s)
    BY <2>2, <2>3 DEF DigestOk, ReferenceOk, ResolvedIndices
  <2>5. FirstOf(RefIndices(doc, s)) = {1} /\ FirstOf(ResolvedIndices(doc, s)) = {1}
    <3>1. ResolvedIndices(doc, s) \in SUBSET Nat
      BY <2>3
    <3> QED BY <2>3, <2>4, <3>1, FirstIs
  <2>6. ReferencesId(doc, s) = {r.id} /\ SignedElement(doc, s) = Target(doc, r)
    BY <2>5 DEF ReferencesId, SignedElement
  <2> QED BY <2>2, <2>6 DEF Target
<1> QED BY <1>1, LoopInvariant, PTL

(* Signatures implements Report: signature.rs publishes, one after the      *)
(* other and each once, the rows the analysis of the whole document gives.  *)
THEOREM Implements == Spec => Abstract!Safety
<1>1. Init => Abstract!Init
  BY DEF Init, Abstract!Init
<1>2. IInv /\ [Next]_vars => [Abstract!Next]_(Abstract!vars)
  <2> SUFFICES ASSUME IInv, [Next]_vars PROVE [Abstract!Next]_(Abstract!vars)
    OBVIOUS
  <2> USE DEF Abstract!vars
  <2>1. CASE Emit
    <3>1. /\ Len(rows) < RowCount(doc)
          /\ rows' = Append(rows, Row(doc, Len(rows) + 1))
      BY <2>1, EmittedRow
    <3>2. doc' = doc
      BY <2>1 DEF Emit
    <3> QED BY <3>1, <3>2 DEF Abstract!Next, Abstract!Publish
  <2>2. CASE Select
    BY <2>2 DEF Select
  <2>3. CASE CheckReference
    BY <2>3 DEF CheckReference
  <2>4. CASE Finish
    BY <2>4 DEF Finish
  <2>5. CASE UNCHANGED vars
    BY <2>5 DEF vars
  <2> QED BY <2>1, <2>2, <2>3, <2>4, <2>5 DEF Next
<1> QED BY <1>1, <1>2, LoopInvariant, PTL DEF Spec, Abstract!Safety

(* When the loops end, no signature is without its row. *)
THEOREM ReportIsComplete ==
  Spec => [](pc = "done" => /\ Len(rows) = RowCount(doc)
                            /\ \A n \in 1 .. RowCount(doc) : rows[n] = Row(doc, n))
<1>1. IInv => (pc = "done" => /\ Len(rows) = RowCount(doc)
                              /\ \A n \in 1 .. RowCount(doc) : rows[n] = Row(doc, n))
  <2> SUFFICES ASSUME IInv, pc = "done"
               PROVE  /\ Len(rows) = RowCount(doc)
                      /\ \A n \in 1 .. RowCount(doc) : rows[n] = Row(doc, n)
    OBVIOUS
  <2>1. Begun = SigsOf(doc)
    BY DEF IInv, Selection, Begun
  <2>2. Len(rows) = RowCount(doc)
    BY <2>1 DEF IInv, Selection, RowCount
  <2> QED BY <2>2 DEF IInv, Published
<1> QED BY <1>1, LoopInvariant, PTL
=============================================================================
