--------------------------- MODULE ForensicsProofs ---------------------------
(***************************************************************************)
(* The detector, for every set of documents, and the life of a message,    *)
(* for every set of issued messages and any number of alterations.         *)
(*                                                                         *)
(* Detect first.  The inductive invariant is LoopInv: the accumulators     *)
(* hold exactly what the signatures visited so far contribute, so that at  *)
(* the end they hold what all of them contribute, whatever the order of    *)
(* the visits.  From it follow what a silent report guarantees and, one    *)
(* lemma per flag, that Detect implements Verdict: the pass ends with      *)
(* exactly the flags whose condition holds of the whole document.          *)
(*                                                                         *)
(* Then Forensics: every alteration of a document is a document, so that   *)
(* what Detect guarantees of documents, it guarantees of what arrives; and *)
(* a comment put into a message leaves the octets of every subtree, and so *)
(* every verdict, as they were.                                            *)
(***************************************************************************)
EXTENDS Forensics, DocumentLemmas

Visited == Named(doc, "Signature") \ pending

FlagsOf(S) == StructureFlags(doc) \cup UNION {SignatureFlags(doc, s) : s \in S}

IdsOf(S) == UNION {CoveredAssertionIds(doc, s) : s \in S}

LoopInv ==
  /\ pc = "structure" => /\ flags = {}
                         /\ signed_assertion_ids = {}
                         /\ response_is_signed = FALSE
                         /\ pending = {}
  /\ pc # "structure" =>
       /\ signed_assertion_ids = IdsOf(Visited)
       /\ response_is_signed = (\E s \in Visited : SignsResponse(doc, s))
  /\ pc = "signatures" => flags = FlagsOf(Visited)
  /\ pc = "done" =>
       /\ pending = {}
       /\ flags = FlagsOf(Visited) \cup
                  ClosingFlags(doc, signed_assertion_ids, response_is_signed)

IInv == TypeOK /\ LoopInv

-----------------------------------------------------------------------------
(* Every flag the code inserts is one of the documented ones. *)
LEMMA FlagsAreDocumented ==
  /\ \A d : StructureFlags(d) \subseteq AllFlags
  /\ \A d, s : SignatureFlags(d, s) \subseteq AllFlags
  /\ \A d, ids, r : ClosingFlags(d, ids, r) \subseteq AllFlags
<1>1. \A d : StructureFlags(d) \subseteq AllFlags
  BY DEF StructureFlags, FlagIf, AllFlags
<1>2. \A d, s : SignatureFlags(d, s) \subseteq AllFlags
  BY DEF SignatureFlags, FlagIf, AllFlags
<1>3. \A d, ids, r : ClosingFlags(d, ids, r) \subseteq AllFlags
  BY DEF ClosingFlags, FlagIf, AllFlags
<1> QED BY <1>1, <1>2, <1>3

(* The signature the loop takes is one that is still pending. *)
LEMMA NextIsPending ==
  ASSUME TypeOK, pending # {}
  PROVE  First(pending) \in pending
<1>1. pending \in SUBSET Nodes(doc)
  BY NodeSets DEF TypeOK
<1> QED BY <1>1, FirstOfNodes DEF TypeOK

LEMMA TypeInit == Init => TypeOK
BY DocumentsAssumption DEF Init, TypeOK

LEMMA TypeNext == TypeOK /\ [Next]_vars => TypeOK'
<1> SUFFICES ASSUME TypeOK, [Next]_vars PROVE TypeOK'
  OBVIOUS
<1> USE FlagsAreDocumented DEF TypeOK
<1>1. CASE Structure
  BY <1>1 DEF Structure
<1>2. CASE VisitSignature
  <2>1. response_is_signed' \in BOOLEAN
    BY <1>2 DEF VisitSignature, SignsResponse
  <2>2. flags' \subseteq AllFlags /\ pending' \subseteq pending
    BY <1>2 DEF VisitSignature
  <2> QED BY <1>2, <2>1, <2>2 DEF VisitSignature
<1>3. CASE Close
  BY <1>3 DEF Close
<1>4. CASE UNCHANGED vars
  BY <1>4 DEF vars
<1> QED BY <1>1, <1>2, <1>3, <1>4 DEF Next

(* The loop keeps its types: pending names signatures of the document, and  *)
(* only documented flags are ever inserted (detect.rs 43-154).              *)
THEOREM TypeCorrect == Spec => []TypeOK
<1> QED BY TypeInit, TypeNext, PTL DEF Spec

-----------------------------------------------------------------------------
LEMMA LoopInit == Init => LoopInv
BY DEF Init, LoopInv

LEMMA LoopNext == IInv /\ [Next]_vars => LoopInv'
<1> SUFFICES ASSUME TypeOK, LoopInv, [Next]_vars PROVE LoopInv'
  BY DEF IInv
<1>1. CASE Structure
  <2>1. Visited' = {}
    BY <1>1 DEF Structure, Visited
  <2>2. IdsOf({})' = {} /\ FlagsOf({})' = StructureFlags(doc')
    BY DEF IdsOf, FlagsOf
  <2>3. doc' = doc /\ pc = "structure" /\ pc' = "signatures"
        /\ flags' = StructureFlags(doc)
        /\ signed_assertion_ids' = signed_assertion_ids
        /\ response_is_signed' = response_is_signed
    BY <1>1 DEF Structure
  <2> QED BY <2>1, <2>2, <2>3 DEF LoopInv
<1>2. CASE VisitSignature
  <2> DEFINE s == First(pending)
  <2>1. s \in pending /\ pending \subseteq Named(doc, "Signature")
    BY <1>2, NextIsPending DEF VisitSignature, TypeOK
  <2>2. /\ pc = "signatures" /\ pc' = "signatures" /\ doc' = doc
        /\ pending' = pending \ {s}
        /\ flags' = flags \cup SignatureFlags(doc, s)
        /\ signed_assertion_ids' =
             signed_assertion_ids \cup CoveredAssertionIds(doc, s)
        /\ response_is_signed' = (response_is_signed \/ SignsResponse(doc, s))
    BY <1>2 DEF VisitSignature
  <2> HIDE DEF s
  <2>3. Visited' = Visited \cup {s}
    BY <2>1, <2>2 DEF Visited
  <2>4. signed_assertion_ids' = IdsOf(Visited)'
    BY <2>2, <2>3 DEF LoopInv, IdsOf
  <2>5. flags' = FlagsOf(Visited)'
    BY <2>2, <2>3 DEF LoopInv, FlagsOf
  <2>6. response_is_signed' = (\E t \in Visited' : SignsResponse(doc', t))
    <3>1. response_is_signed = (\E t \in Visited : SignsResponse(doc, t))
      BY <2>2 DEF LoopInv
    <3> QED BY <2>2, <2>3, <3>1, Zenon
  <2> QED BY <2>2, <2>4, <2>5, <2>6 DEF LoopInv
<1>3. CASE Close
  <2>1. /\ pc = "signatures" /\ pending = {} /\ pc' = "done"
        /\ doc' = doc /\ pending' = pending
        /\ signed_assertion_ids' = signed_assertion_ids
        /\ response_is_signed' = response_is_signed
        /\ flags' = flags \cup
             ClosingFlags(doc, signed_assertion_ids, response_is_signed)
    BY <1>3 DEF Close
  <2>2. Visited' = Visited
    BY <2>1 DEF Visited
  <2>3. /\ signed_assertion_ids' = IdsOf(Visited)'
        /\ FlagsOf(Visited)' = FlagsOf(Visited)
    BY <2>1, <2>2 DEF LoopInv, IdsOf, FlagsOf
  <2>4. response_is_signed' = (\E t \in Visited' : SignsResponse(doc', t))
    BY <2>1, <2>2 DEF LoopInv
  <2> QED BY <2>1, <2>3, <2>4 DEF LoopInv
<1>4. CASE UNCHANGED vars
  <2>1. /\ pc' = pc /\ doc' = doc /\ pending' = pending /\ flags' = flags
        /\ signed_assertion_ids' = signed_assertion_ids
        /\ response_is_signed' = response_is_signed
    BY <1>4 DEF vars
  <2>2. Visited' = Visited
    BY <2>1 DEF Visited
  <2>3. IdsOf(Visited)' = IdsOf(Visited) /\ FlagsOf(Visited)' = FlagsOf(Visited)
    BY <2>1, <2>2 DEF IdsOf, FlagsOf
  <2> QED BY <2>1, <2>2, <2>3 DEF LoopInv
<1> QED BY <1>1, <1>2, <1>3, <1>4 DEF Next

(* At every moment the accumulators hold exactly what the signatures        *)
(* visited so far contribute (detect.rs 71-133).                            *)
THEOREM LoopInvariant == Spec => []IInv
<1>1. Init => IInv
  BY TypeInit, LoopInit DEF IInv
<1>2. IInv /\ [Next]_vars => IInv'
  BY TypeNext, LoopNext DEF IInv
<1> QED BY <1>1, <1>2, PTL DEF Spec

-----------------------------------------------------------------------------
(* An unambiguous id that names an assertion names only that assertion. *)
LEMMA UnambiguousId ==
  ASSUME NEW d, IsDocument(d), NEW id, Cardinality(ElementsById(d, id)) = 1,
         NEW a \in ElementsById(d, id)
  PROVE  ElementsById(d, id) = {a} /\ FirstOf(ElementsById(d, id)) = {a}
<1>1. IsFiniteSet(ElementsById(d, id))
  BY NodeSets, FirstOfNodes
<1>2. PICK x : ElementsById(d, id) = {x}
  BY <1>1, FS_Singleton
<1>3. ElementsById(d, id) = {a}
  BY <1>2
<1>4. FirstOf(ElementsById(d, id)) = {First({a})} /\ First({a}) \in {a}
  BY <1>3, NodeSets, FirstOfNodes
<1> QED BY <1>3, <1>4

(* What the three coverage flags guarantee when none of them is raised. *)
LEMMA SilenceMeansAgreement ==
  ASSUME IsDocument(doc),
         NEW s \in Named(doc, "Signature"), NEW k \in RefIndices(doc, s),
         NEW a, FirstAssertion(doc) = {a},
         Refs(doc, s)[k].id = doc[a].id, doc[a].id # NoId,
         "digest-mismatch" \notin SignatureFlags(doc, s),
         "reference-uri-id-mismatch" \notin SignatureFlags(doc, s)
  PROVE  Agreement(doc)
<1> DEFINE r == Refs(doc, s)[k]
<1>1. a \in Named(doc, "Assertion") /\ a \in Nodes(doc)
  <2>1. a \in FirstOf(Named(doc, "Assertion"))
    BY DEF FirstAssertion
  <2> QED BY <2>1, NodeSets, FirstOfNodes
<1>2. a \in ElementsById(doc, r.id)
  BY <1>1 DEF Named, ElementsById, IsElement
<1>3. ~ AmbiguousReference(doc, s)
  BY DEF SignatureFlags, FlagIf
<1>4. Cardinality(ElementsById(doc, r.id)) = 1
  BY <1>3 DEF AmbiguousReference
<1>5. ElementsById(doc, r.id) = {a} /\ Target(doc, r) = {a}
  <2> HIDE DEF r
  <2>1. ElementsById(doc, r.id) = {a} /\ FirstOf(ElementsById(doc, r.id)) = {a}
    BY <1>2, <1>4, UnambiguousId
  <2>2. r.id # NoId
    BY DEF r
  <2> QED BY <2>1, <2>2 DEF Target
<1>6. ReferenceOk(doc, s, r)
  <2>1. ~ (Refs(doc, s) # <<>> /\ ~ DigestOk(doc, s))
    BY DEF SignatureFlags, FlagIf
  <2>2. Refs(doc, s) # <<>>
    BY DEF RefIndices
  <2> QED BY <2>1, <2>2 DEF DigestOk
<1>7. s \in Nodes(doc) /\ doc[s].tag = "Signature" /\ s # a
  BY <1>1 DEF Named
<1>8. Omitted(s, r) \subseteq {s}
  BY DEF Omitted
<1>9. a \in Kept(doc, a, Omitted(s, r))
  <2>1. a \in Subtree(doc, a) /\ IsElement(doc, a)
    BY <1>1 DEF IsDocument, IsElement, Named
  <2>2. s \in Subtree(doc, a) => a \notin Subtree(doc, s)
    BY <1>1, <1>7, SubtreeAntisymmetric
  <2> HIDE DEF r
  <2> QED BY <1>8, <2>1, <2>2 DEF Kept
<1>10. ASSUME NEW n \in SubjectNodes(doc) PROVE n \in Kept(doc, a, Omitted(s, r))
  <2>1. n \in FirstChild(doc, FirstChild(doc, {a}, "Subject"), "NameID")
    BY DEF SubjectNodes
  <2>2. n \in Subtree(doc, a) /\ IsElement(doc, n)
    <3> HIDE DEF r
    <3> QED BY <1>1, <2>1, SubjectInsideAssertion DEF IsElement
  <2>3. s \in Subtree(doc, a) => n \notin Subtree(doc, s)
    BY <1>1, <2>1, SubjectOutsideSignature
  <2> HIDE DEF r
  <2> QED BY <1>8, <2>2, <2>3 DEF Kept
<1>11. \A n \in FirstAssertion(doc) \cup SubjectNodes(doc) : CoversNode(doc, s, k, n)
  <2> SUFFICES ASSUME NEW n \in {a} \cup SubjectNodes(doc)
               PROVE  n \in Kept(doc, a, Omitted(s, r))
    BY <1>5 DEF CoversNode
  <2> QED BY <1>9, <1>10
<1> QED BY <1>5, <1>6, <1>11 DEF Agreement

LEMMA AgreementFromInvariant == IInv => ConsumerVerifierAgreement
<1> SUFFICES ASSUME TypeOK, LoopInv, pc = "done",
                    flags \cap CoverageFlags = {}, signed_assertion_ids # {}
             PROVE  Agreement(doc)
  BY DEF IInv, ConsumerVerifierAgreement
<1>1. IsDocument(doc) /\ Visited = Named(doc, "Signature")
  BY DEF TypeOK, LoopInv, Visited
<1>2. /\ signed_assertion_ids = IdsOf(Named(doc, "Signature"))
      /\ flags = FlagsOf(Named(doc, "Signature")) \cup
                 ClosingFlags(doc, signed_assertion_ids, response_is_signed)
  BY <1>1 DEF LoopInv
<1>3. PICK r : \E t \in Target(doc, r) : doc[t].tag = "Assertion"
  BY <1>2 DEF IdsOf, CoveredAssertionIds
<1>4. Named(doc, "Assertion") # {}
  <2>1. PICK t \in Target(doc, r) : doc[t].tag = "Assertion"
    BY <1>3
  <2>2. Root \in Nodes(doc)
    BY <1>1 DEF IsDocument, Nodes, Root
  <2>3. t \in Nodes(doc)
    BY <1>1, <2>1, <2>2, NodeSets, FirstOfNodes DEF Target
  <2> QED BY <2>1, <2>3 DEF Named
<1> DEFINE a == First(Named(doc, "Assertion"))
<1>5. FirstAssertion(doc) = {a}
  BY <1>1, <1>4, NodeSets, FirstOfNodes DEF FirstAssertion
<1> HIDE DEF a
<1>6. doc[a].id \in signed_assertion_ids
  <2>1. "signature-covers-other-element" \notin
          ClosingFlags(doc, signed_assertion_ids, response_is_signed)
    BY <1>2 DEF CoverageFlags
  <2> QED BY <1>5, <2>1 DEF ClosingFlags, FlagIf
<1>7. PICK s \in Named(doc, "Signature") : \E k \in RefIndices(doc, s) :
        Refs(doc, s)[k].id = doc[a].id /\ doc[a].id # NoId
  BY <1>2, <1>6 DEF IdsOf, CoveredAssertionIds
<1>8. /\ "digest-mismatch" \notin SignatureFlags(doc, s)
      /\ "reference-uri-id-mismatch" \notin SignatureFlags(doc, s)
  BY <1>2 DEF FlagsOf, CoverageFlags
<1> QED BY <1>1, <1>5, <1>7, <1>8, SilenceMeansAgreement

(* Verifier and consumer agree, in every document: when the flags about     *)
(* coverage are silent and an assertion is covered at all, what decode()    *)
(* shows is inside the octets of a verified, unambiguous Reference.         *)
THEOREM Agrees == Spec => []ConsumerVerifierAgreement
BY LoopInvariant, AgreementFromInvariant, PTL

(* No flag and no covered id is ever retracted during the pass. *)
THEOREM Grows == Spec => OnlyGrows
<1>1. IInv /\ [Next]_vars => [/\ flags \subseteq flags'
                              /\ signed_assertion_ids \subseteq signed_assertion_ids'
                              /\ response_is_signed => response_is_signed']_vars
  <2> SUFFICES ASSUME IInv, Next
               PROVE  /\ flags \subseteq flags'
                      /\ signed_assertion_ids \subseteq signed_assertion_ids'
                      /\ response_is_signed => response_is_signed'
    BY DEF vars
  <2>1. CASE Structure
    BY <2>1 DEF Structure, IInv, LoopInv
  <2>2. CASE VisitSignature
    BY <2>2 DEF VisitSignature
  <2>3. CASE Close
    BY <2>3 DEF Close
  <2> QED BY <2>1, <2>2, <2>3 DEF Next
<1> QED BY <1>1, LoopInvariant, PTL DEF Spec, OnlyGrows

-----------------------------------------------------------------------------
(* What the accumulators hold after the last signature. *)
AllIds(d) == UNION {CoveredAssertionIds(d, s) : s \in SigsOf(d)}
ResponseSigned(d) == \E s \in SigsOf(d) : SignsResponse(d, s)

FinalFlags(d) ==
  StructureFlags(d) \cup (UNION {SignatureFlags(d, s) : s \in SigsOf(d)})
    \cup ClosingFlags(d, AllIds(d), ResponseSigned(d))

-----------------------------------------------------------------------------
(* A node has one parent at most, and is its child. *)
LEMMA ParentAndChild ==
  ASSUME NEW d, IsDocument(d), NEW c \in Nodes(d), NEW p
  PROVE  p \in Parents(d, c) <=> (p \in Nodes(d) /\ c \in Children(d, p))
<1>1. ASSUME p \in Parents(d, c) PROVE p \in Nodes(d) /\ c \in Children(d, p)
  <2>1. p \in Nodes(d) /\ c \in Subtree(d, p)
    BY <1>1 DEF Parents, Ancestors
  <2>2. Parents(d, c) = {p}
    <3> SUFFICES ASSUME NEW q \in Parents(d, c) PROVE q = p
      BY <1>1
    <3>1. q \in Nodes(d) /\ q <= p /\ p <= q
      BY <1>1 DEF Parents, Ancestors
    <3> QED BY <2>1, <3>1 DEF Nodes, IsDocument
  <2> QED BY <2>1, <2>2 DEF Children
<1>2. ASSUME c \in Children(d, p) PROVE p \in Parents(d, c)
  BY <1>2 DEF Children
<1> QED BY <1>1, <1>2

(* More than one payload, counted by kind or together. *)
LEMMA MultipleAssertions ==
  ASSUME NEW d, IsDocument(d)
  PROVE  Cardinality(Named(d, "Assertion"))
           + Cardinality(Named(d, "EncryptedAssertion")) > 1
         <=> \E a, b \in Named(d, "Assertion") \cup Named(d, "EncryptedAssertion") :
               a # b
<1> DEFINE A == Named(d, "Assertion")
           E == Named(d, "EncryptedAssertion")
<1>1. A \cap E = {}
  BY DEF Named
<1>2. IsFiniteSet(A) /\ IsFiniteSet(E)
  BY NodeSets, FirstOfNodes
<1> HIDE DEF A, E
<1>3. /\ IsFiniteSet(A \cup E)
      /\ Cardinality(A \cup E) = Cardinality(A) + Cardinality(E)
      /\ Cardinality(A) \in Nat /\ Cardinality(E) \in Nat
      /\ Cardinality(A \cup E) \in Nat
  <2>1. Cardinality(A \cup E) =
          Cardinality(A) + Cardinality(E) - Cardinality(A \cap E)
    BY <1>2, FS_Union
  <2>2. Cardinality(A \cap E) = 0
    BY <1>1, FS_EmptySet
  <2>3. Cardinality(A) \in Nat /\ Cardinality(E) \in Nat
    BY <1>2, FS_CardinalityType
  <2>4. IsFiniteSet(A \cup E)
    BY <1>2, FS_Union
  <2> QED BY <2>1, <2>2, <2>3, <2>4, FS_CardinalityType
<1>4. CASE A \cup E = {}
  <2>1. Cardinality(A \cup E) = 0
    BY <1>4, FS_EmptySet
  <2> QED BY <1>3, <1>4, <2>1 DEF A, E
<1>5. CASE \E x : A \cup E = {x}
  <2>1. PICK x : A \cup E = {x}
    BY <1>5
  <2>2. Cardinality(A \cup E) = 1
    BY <2>1, FS_Singleton
  <2> QED BY <1>3, <2>1, <2>2 DEF A, E
<1>6. CASE A \cup E # {} /\ ~ \E x : A \cup E = {x}
  <2>1. Cardinality(A \cup E) # 0
    BY <1>3, <1>6, FS_EmptySet
  <2>2. Cardinality(A \cup E) # 1
    BY <1>3, <1>6, FS_Singleton
  <2>3. \E a, b \in A \cup E : a # b
    BY <1>6
  <2> QED BY <1>3, <2>1, <2>2, <2>3 DEF A, E
<1> QED BY <1>4, <1>5, <1>6

(* The structural flags mean what they promise. *)
LEMMA StructureAsPromised ==
  ASSUME NEW d, IsDocument(d)
  PROVE  StructureFlags(d) =
           FlagIf(SeveralPayloads(d), "multiple-assertions")
           \cup FlagIf(SomeEncrypted(d), "encrypted-assertion-present")
           \cup FlagIf(TextIsSplit(d), "nameid-comment-splitting")
<1>1. Cardinality(Named(d, "Assertion"))
        + Cardinality(Named(d, "EncryptedAssertion")) > 1
      <=> SeveralPayloads(d)
  BY MultipleAssertions DEF SeveralPayloads, Payloads
<1>2. Named(d, "EncryptedAssertion") # {} <=> SomeEncrypted(d)
  BY DEF SomeEncrypted, Payloads, Named
<1>3. (\E tag \in TextElements : \E n \in Named(d, tag) : HasCommentChild(d, n))
      <=> TextIsSplit(d)
  <2>1. \A n \in Nodes(d) : HasCommentChild(d, n)
          <=> \E c \in Named(d, "comment") : c \in Children(d, n)
    BY NodeSets DEF HasCommentChild, ChildrenNamed, Named, Children
  <2>2. \A c \in Named(d, "comment") : \A p :
          p \in Parents(d, c) <=> (p \in Nodes(d) /\ c \in Children(d, p))
    BY ParentAndChild DEF Named
  <2>3. (\E tag \in TextElements : \E n \in Named(d, tag) : HasCommentChild(d, n))
        <=> \E n \in Nodes(d) : d[n].tag \in TextElements /\ HasCommentChild(d, n)
    BY DEF Named
  <2> QED BY <2>1, <2>2, <2>3 DEF TextIsSplit, TextBearing, TextElements
<1> QED BY <1>1, <1>2, <1>3 DEF StructureFlags, FlagIf

(* So do the flags of single signatures, taken together. *)
LEMMA DigestAsPromised ==
  ASSUME NEW d
  PROVE  (\E s \in SigsOf(d) : Refs(d, s) # <<>> /\ ~ DigestOk(d, s))
         <=> SomeDigestFails(d)
<1>1. \A s : (Refs(d, s) # <<>> /\ ~ DigestOk(d, s))
        <=> (Refs(d, s) # <<>> /\
             \E k \in RefIndices(d, s) : ~ ReferenceOk(d, s, Refs(d, s)[k]))
  BY DEF DigestOk
<1>2. \A s : Refs(d, s) = <<>> => RefIndices(d, s) = {}
  BY DEF RefIndices
<1> QED BY <1>1, <1>2 DEF SomeDigestFails

LEMMA AmbiguityAsPromised ==
  ASSUME NEW d
  PROVE  (\E s \in SigsOf(d) : AmbiguousReference(d, s)) <=> SomeIdIsNotUnique(d)
BY DEF AmbiguousReference, SomeIdIsNotUnique, NamingRefs

LEMMA PlacementAsPromised ==
  ASSUME NEW d, IsDocument(d)
  PROVE  (\E s \in SigsOf(d) : Misplaced(d, s)) <=> SomeMisplaced(d)
<1>1. \A s \in SigsOf(d) : \A p :
        p \in Parents(d, s) <=> (p \in Nodes(d) /\ s \in Children(d, p))
  BY ParentAndChild DEF SigsOf, Named
<1> QED BY <1>1 DEF Misplaced, SomeMisplaced

LEMMA DetachmentAsTested ==
  ASSUME NEW d, IsDocument(d)
  PROVE  (\E s \in SigsOf(d) : Detached(d, s)) <=> SomeNotEnveloped(d)
<1>1. \A s \in SigsOf(d) : \A id : \A t \in FirstOf(ElementsById(d, id)) :
        t \notin Ancestors(d, s) => s \notin Subtree(d, t)
  <2> SUFFICES ASSUME NEW s \in SigsOf(d), NEW id,
                      NEW t \in FirstOf(ElementsById(d, id)), s \in Subtree(d, t)
               PROVE  t \in Ancestors(d, s)
    OBVIOUS
  <2>1. t \in Nodes(d)
    BY NodeSets, FirstOfNodes
  <2> QED BY <2>1 DEF Ancestors
<1>2. \A s \in SigsOf(d) : Detached(d, s) <=>
        \E k \in FirstOf(RefIndices(d, s)) :
          /\ Refs(d, s)[k].id # NoId
          /\ \E t \in FirstOf(ElementsById(d, Refs(d, s)[k].id)) :
               t \notin Ancestors(d, s)
  BY <1>1 DEF Detached, ReferencesId
<1> QED BY <1>2 DEF SomeNotEnveloped, Target

(* And the flags that compare the whole pass with the first assertion. *)
LEMMA IdsAsPromised ==
  ASSUME NEW d
  PROVE  AllIds(d) = CoveredIds(d)
BY DEF AllIds, CoveredIds, CoveredAssertionIds, NamingRefs

LEMMA UnsignedAsTested ==
  ASSUME NEW d, IsDocument(d)
  PROVE  (/\ ResponseSigned(d)
          /\ \E a \in Named(d, "Assertion") : ~ AssertionSelfSigned(d, a))
         <=> SomePayloadBare(d)
<1>1. ResponseSigned(d) <=>
        \E s \in SigsOf(d) : \E e \in SignedElement(d, s) : d[e].tag \in ResponseLike
  BY DEF ResponseSigned, SignsResponse, EndsResponse, ResponseLike
<1>2. \A a \in Named(d, "Assertion") :
        ~ AssertionSelfSigned(d, a) <=> SigsOf(d) \cap Children(d, a) = {}
  <2>1. \A a \in Named(d, "Assertion") : Children(d, a) \subseteq Nodes(d)
    BY NodeSets DEF Children, Named
  <2> QED BY <2>1 DEF AssertionSelfSigned, ChildrenNamed, SigsOf, Named
<1> QED BY <1>1, <1>2 DEF SomePayloadBare

-----------------------------------------------------------------------------
(* The flags of all signatures, one condition each. *)
LEMMA SignatureFlagsTogether ==
  ASSUME NEW d, IsDocument(d)
  PROVE  UNION {SignatureFlags(d, s) : s \in SigsOf(d)} =
           FlagIf(SomeDigestFails(d), "digest-mismatch")
           \cup FlagIf(SomeInclusive(d), "c14n-inclusive-on-moved-assertion")
           \cup FlagIf(SomeIdIsNotUnique(d), "reference-uri-id-mismatch")
           \cup FlagIf(SomeMisplaced(d), "signature-placement-anomaly")
           \cup FlagIf(SomeNotEnveloped(d), "detached-signature")
<1> DEFINE U == UNION {SignatureFlags(d, s) : s \in SigsOf(d)}
<1>1. \A f : f \in U <=> \E s \in SigsOf(d) : f \in SignatureFlags(d, s)
  OBVIOUS
<1>2. \A f : f \in U <=>
        \/ f = "digest-mismatch" /\ SomeDigestFails(d)
        \/ f = "c14n-inclusive-on-moved-assertion" /\ SomeInclusive(d)
        \/ f = "reference-uri-id-mismatch" /\ SomeIdIsNotUnique(d)
        \/ f = "signature-placement-anomaly" /\ SomeMisplaced(d)
        \/ f = "detached-signature" /\ SomeNotEnveloped(d)
  <2>1. \A s : \A f : f \in SignatureFlags(d, s) <=>
          \/ f = "digest-mismatch" /\ Refs(d, s) # <<>> /\ ~ DigestOk(d, s)
          \/ f = "c14n-inclusive-on-moved-assertion"
               /\ d[s].sig.c14n \notin {"none", "exc"}
          \/ f = "reference-uri-id-mismatch" /\ AmbiguousReference(d, s)
          \/ f = "signature-placement-anomaly" /\ Misplaced(d, s)
          \/ f = "detached-signature" /\ Detached(d, s)
    BY DEF SignatureFlags, FlagIf
  <2>2. SomeInclusive(d) <=> \E s \in SigsOf(d) : d[s].sig.c14n \notin {"none", "exc"}
    BY DEF SomeInclusive
  <2> HIDE DEF U
  <2> QED BY <1>1, <2>1, <2>2, DigestAsPromised, AmbiguityAsPromised,
             PlacementAsPromised, DetachmentAsTested
<1> HIDE DEF U
<1>3. \A f : f \in U <=>
        f \in FlagIf(SomeDigestFails(d), "digest-mismatch")
              \cup FlagIf(SomeInclusive(d), "c14n-inclusive-on-moved-assertion")
              \cup FlagIf(SomeIdIsNotUnique(d), "reference-uri-id-mismatch")
              \cup FlagIf(SomeMisplaced(d), "signature-placement-anomaly")
              \cup FlagIf(SomeNotEnveloped(d), "detached-signature")
  BY <1>2 DEF FlagIf
<1> QED BY <1>3 DEF U

(* After the last signature, the flags are the anomalies. *)
LEMMA FinalFlagsAreAnomalies ==
  ASSUME NEW d, IsDocument(d)
  PROVE  FinalFlags(d) = Anomalies(d)
<1>1. ClosingFlags(d, AllIds(d), ResponseSigned(d)) =
        FlagIf(FirstIsNotCovered(d), "signature-covers-other-element")
        \cup FlagIf(SomePayloadBare(d), "unsigned-assertion-in-signed-response")
  BY IdsAsPromised, UnsignedAsTested DEF ClosingFlags, FirstIsNotCovered, FlagIf
<1>2. \A f : f \in FinalFlags(d) <=> Holds(d, f)
  BY <1>1, StructureAsPromised, SignatureFlagsTogether
     DEF FinalFlags, FlagIf, Holds, Means
<1>3. \A f : Holds(d, f) => f \in AllFlags
  BY DEF Holds, Means, AllFlags
<1> QED BY <1>2, <1>3 DEF Anomalies

-----------------------------------------------------------------------------
(* When every signature is visited, the accumulators are complete. *)
LEMMA AccumulatorsAtTheEnd ==
  ASSUME LoopInv, pc # "structure", Visited = SigsOf(doc)
  PROVE  /\ signed_assertion_ids = AllIds(doc)
         /\ response_is_signed = ResponseSigned(doc)
         /\ pc = "signatures" => flags = FlagsOf(SigsOf(doc))
<1>1. /\ signed_assertion_ids = IdsOf(Visited)
      /\ pc = "signatures" => flags = FlagsOf(Visited)
  BY DEF LoopInv
<1>2. response_is_signed = (\E s \in Visited : SignsResponse(doc, s))
  BY DEF LoopInv
<1>3. response_is_signed = ResponseSigned(doc)
  BY <1>2, Zenon DEF ResponseSigned
<1> QED BY <1>1, <1>3 DEF IdsOf, AllIds

(* The end of the pass judges the document; every other step is a stutter   *)
(* of the judge.                                                            *)
LEMMA StepsJudgeOrStutter == IInv /\ [Next]_vars => [Abstract!Next]_(Abstract!vars)
<1> SUFFICES ASSUME TypeOK, LoopInv, [Next]_vars
             PROVE  [Abstract!Next]_(Abstract!vars)
  BY DEF IInv
<1> USE DEF Abstract!vars
<1>1. CASE Structure
  BY <1>1 DEF Structure
<1>2. CASE VisitSignature
  BY <1>2 DEF VisitSignature
<1>3. CASE Close
  <2>1. /\ pc = "signatures" /\ pc' = "done" /\ pending = {} /\ doc' = doc
        /\ flags' = flags \cup
             ClosingFlags(doc, signed_assertion_ids, response_is_signed)
    BY <1>3 DEF Close
  <2>2. Visited = SigsOf(doc)
    BY <2>1 DEF Visited, SigsOf
  <2>3. /\ flags = FlagsOf(SigsOf(doc))
        /\ signed_assertion_ids = AllIds(doc)
        /\ response_is_signed = ResponseSigned(doc)
    BY <2>1, <2>2, AccumulatorsAtTheEnd
  <2>4. flags' = FinalFlags(doc)
    BY <2>1, <2>3 DEF FinalFlags, FlagsOf
  <2>5. flags' = Anomalies(doc)
    BY <2>4, FinalFlagsAreAnomalies DEF TypeOK
  <2> QED BY <2>1, <2>5 DEF Abstract!Next, Abstract!Judge
<1>4. CASE UNCHANGED vars
  BY <1>4 DEF vars
<1> QED BY <1>1, <1>2, <1>3, <1>4 DEF Next

(* Detect implements Verdict: detect.rs judges every document once, and the *)
(* flags it returns are exactly those whose condition in Promises holds of  *)
(* it.                                                                      *)
THEOREM Implements == Spec => Abstract!Safety
<1>1. Init => Abstract!Init
  BY DEF Init, Abstract!Init
<1>2. IInv /\ [Next]_vars => [Abstract!Next]_(Abstract!vars)
  BY StepsJudgeOrStutter
<1> QED BY <1>1, <1>2, LoopInvariant, PTL DEF Spec, Abstract!Safety

(* So whatever flags the pass ends with, they are those of the whole        *)
(* document judged at once: for every document, with any number of          *)
(* signatures in any order.  The conditions of Promises are, for eight      *)
(* flags, what detect.rs says of them; for detached-signature and           *)
(* unsigned-assertion-in-signed-response they are what detect.rs 121-131    *)
(* and 146-168 test, not what its comments say.                             *)
THEOREM VerdictIsExact == Spec => [](pc = "done" => flags = Anomalies(doc))
<1>1. IInv => (pc = "done" => flags = Anomalies(doc))
  <2> SUFFICES ASSUME TypeOK, LoopInv, pc = "done" PROVE flags = Anomalies(doc)
    BY DEF IInv
  <2>1. Visited = SigsOf(doc)
    BY DEF LoopInv, Visited, SigsOf
  <2>2. flags = FinalFlags(doc)
    <3>1. /\ signed_assertion_ids = AllIds(doc)
          /\ response_is_signed = ResponseSigned(doc)
      BY <2>1, AccumulatorsAtTheEnd
    <3> QED BY <2>1, <3>1 DEF LoopInv, FinalFlags, FlagsOf
  <2> QED BY <2>2, FinalFlagsAreAnomalies DEF TypeOK
<1> QED BY <1>1, LoopInvariant, PTL

-----------------------------------------------------------------------------
(* From here on, Forensics: messages, and what an alteration does to one. *)


(* A tree as intervals: n nodes, each with its own interval inside those    *)
(* of the nodes above it, comments alone in theirs.                         *)
Nested(d, n) ==
  /\ \A i \in 1 .. n :
       /\ d[i].size \in Nat \ {0} /\ i + d[i].size <= n + 1
       /\ d[i].tag = "comment" => d[i].size = 1
  /\ \A i \in 1 .. n, j \in 1 .. n :
       i < j /\ j < i + d[i].size => j + d[j].size <= i + d[i].size
  /\ d[1].size = n

(* A document, except that its root may be a comment. *)
IsTree(d) ==
  Len(d) \in Nat \ {0} /\ MadeOfNodes(d) /\ Nested(d, Len(d))

IsMessage(d) == IsDocument(d) /\ MadeOfNodes(d)

-----------------------------------------------------------------------------
LEMMA MessagesAreTrees ==
  ASSUME NEW d, IsMessage(d)
  PROVE  IsTree(d) /\ IsElement(d, Root)
<1>1. /\ Len(d) \in Nat \ {0} /\ Nodes(d) = 1 .. Len(d) /\ IsDocument(d) /\ Root = 1
  BY DEF IsMessage, IsDocument, Nodes, Root
<1>2. \A i \in 1 .. Len(d) :
        /\ d[i].size \in Nat /\ i \in i .. i + d[i].size - 1
        /\ i .. i + d[i].size - 1 \subseteq 1 .. Len(d)
        /\ d[i].tag = "comment" => d[i].size = 1
  BY <1>1 DEF IsDocument, Subtree, IsElement
<1>3. ASSUME NEW i \in 1 .. Len(d)
      PROVE  d[i].size \in Nat \ {0} /\ i + d[i].size <= Len(d) + 1
  <2> DEFINE s == d[i].size
  <2>1. s \in Nat /\ i \in i .. i + s - 1 /\ i .. i + s - 1 \subseteq 1 .. Len(d)
    BY <1>2
  <2> HIDE DEF s
  <2>2. s >= 1
    BY <2>1
  <2>3. i + s - 1 \in i .. i + s - 1
    BY <2>1, <2>2
  <2>4. i + s - 1 <= Len(d)
    BY <2>1, <2>3
  <2>5. s \in Nat \ {0} /\ i + s <= Len(d) + 1
    BY <1>1, <2>1, <2>2, <2>4
  <2> QED BY <2>5 DEF s
<1>4. ASSUME NEW i \in 1 .. Len(d), NEW j \in 1 .. Len(d), i < j, j < i + d[i].size
      PROVE  j + d[j].size <= i + d[i].size
  <2>1. j \in Subtree(d, i)
    BY <1>3, <1>4 DEF Subtree
  <2>2. Subtree(d, j) \subseteq Subtree(d, i)
    BY <1>1, <2>1 DEF IsDocument
  <2>3. j + d[j].size - 1 \in Subtree(d, j)
    BY <1>3 DEF Subtree
  <2>4. j + d[j].size - 1 \in i .. i + d[i].size - 1
    BY <2>2, <2>3 DEF Subtree
  <2> QED BY <1>3, <2>4
<1>5. d[1].size = Len(d)
  BY <1>1 DEF IsDocument
<1>6. Nested(d, Len(d))
  BY <1>2, <1>3, <1>4, <1>5 DEF Nested
<1> QED BY <1>1, <1>6 DEF IsTree, IsMessage, IsDocument

(* An interval that starts and ends within another lies in it. *)
LEMMA IntervalInside ==
  ASSUME NEW i \in Int, NEW j \in Int, NEW a \in Int, NEW b \in Int,
         i <= j, j + b <= i + a
  PROVE  j .. j + b - 1 \subseteq i .. i + a - 1
OBVIOUS

LEMMA TreesAreMessages ==
  ASSUME NEW d, IsTree(d), IsElement(d, Root)
  PROVE  IsMessage(d)
<1>1. /\ Len(d) \in Nat \ {0} /\ Nodes(d) = 1 .. Len(d) /\ MadeOfNodes(d)
      /\ Nested(d, Len(d)) /\ Root = 1
  BY DEF IsTree, Nodes, Root
<1>2. DOMAIN d = Nodes(d)
  BY <1>1 DEF MadeOfNodes
<1>3. \A i \in 1 .. Len(d) : d[i].size \in Nat \ {0} /\ i + d[i].size <= Len(d) + 1
  BY <1>1 DEF Nested
<1>4. ASSUME NEW i \in Nodes(d)
      PROVE  /\ d[i].size \in Nat
             /\ Subtree(d, i) \subseteq Nodes(d)
             /\ i \in Subtree(d, i)
             /\ \A j \in Subtree(d, i) : Subtree(d, j) \subseteq Subtree(d, i)
             /\ ~ IsElement(d, i) => d[i].size = 1
  <2>1. /\ i \in 1 .. Len(d) /\ d[i].size \in Nat \ {0} /\ i + d[i].size <= Len(d) + 1
    BY <1>1, <1>3, <1>4
  <2>2. Subtree(d, i) \subseteq Nodes(d) /\ i \in Subtree(d, i)
    BY <1>1, <2>1 DEF Subtree
  <2>3. ASSUME NEW j \in Subtree(d, i) PROVE Subtree(d, j) \subseteq Subtree(d, i)
    <3>1. /\ j \in 1 .. Len(d) /\ i <= j /\ j < i + d[i].size
          /\ d[j].size \in Nat \ {0}
      BY <1>1, <1>3, <2>1, <2>2, <2>3 DEF Subtree
    <3>2. j + d[j].size <= i + d[i].size
      <4>1. CASE i = j
        BY <4>1, <2>1
      <4>2. CASE i # j
        BY <1>1, <2>1, <3>1, <4>2 DEF Nested
      <4> QED BY <4>1, <4>2
    <3>3. i \in Int /\ j \in Int /\ d[i].size \in Int /\ d[j].size \in Int
      BY <2>1, <3>1
    <3> QED BY <3>1, <3>2, <3>3, IntervalInside DEF Subtree
  <2>4. ~ IsElement(d, i) => d[i].size = 1
    BY <1>1, <2>1 DEF Nested, IsElement
  <2> QED BY <2>1, <2>2, <2>3, <2>4
<1>5. d[Root].size = Len(d)
  BY <1>1 DEF Nested
<1> QED BY <1>1, <1>2, <1>4, <1>5 DEF IsMessage, IsDocument

-----------------------------------------------------------------------------
(* What Insert puts where. *)
LEMMA Inserted ==
  ASSUME NEW d, IsTree(d), NEW f, IsTree(f), NEW p \in Nodes(d),
         NEW at \in 1 .. Len(d) + 1
  PROVE  LET e == Insert(d, p, at, f)
             m == Len(f)
         IN  /\ Len(e) = Len(d) + m
             /\ MadeOfNodes(e)
             /\ \A i \in 1 .. Len(d) : i < at => e[i] = Grown(d, p, m)[i]
             /\ \A i \in 1 .. Len(d) : at <= i => e[i + m] = Grown(d, p, m)[i]
             /\ \A i \in 1 .. m : e[at - 1 + i] = f[i]
<1> DEFINE m == Len(f)
           L == Len(d)
           grown == Grown(d, p, m)
           before == SubSeq(grown, 1, at - 1)
           after == SubSeq(grown, at, L)
           e == Insert(d, p, at, f)
           S == {grown[i] : i \in 1 .. L} \cup {f[i] : i \in 1 .. m}
<1>1. /\ L \in Nat /\ m \in Nat /\ at \in Int /\ 1 <= at /\ at <= L + 1
      /\ MadeOfNodes(d) /\ MadeOfNodes(f)
  BY DEF IsTree
<1>2. /\ \A i \in 1 .. L : IsNode(d[i])
      /\ \A i \in 1 .. m : IsNode(f[i])
      /\ f \in Seq({f[i] : i \in 1 .. m})
  BY <1>1, NodesOfSequences
<1>3. \A i \in 1 .. L : IsNode(grown[i])
  <2> SUFFICES ASSUME NEW i \in 1 .. L PROVE IsNode(grown[i])
    OBVIOUS
  <2> DEFINE larger == [d[i] EXCEPT !.size = d[i].size + m]
  <2>1. grown[i] = IF p \in Subtree(d, i) THEN larger ELSE d[i]
    BY DEF Grown, Nodes
  <2>2. IsNode(larger)
    BY <1>2, NodeChanged
  <2> HIDE DEF grown, larger
  <2> QED BY <1>2, <2>1, <2>2
<1>4. \A x \in S : IsNode(x)
  BY <1>2, <1>3
<1>5. f \in Seq(S)
  BY <1>2, SeqMonotonic
<1>6. \A i \in 1 .. L : grown[i] \in S
  OBVIOUS
<1>7. e = (before \o f) \o after
  BY DEF Insert
<1> HIDE DEF grown, S, m, L, before, after, e
<1>8. /\ before \in Seq(S) /\ Len(before) = at - 1
      /\ \A i \in 1 .. at - 1 : before[i] = grown[i]
  BY <1>1, <1>6, SubSeqProperties DEF before
<1>9. /\ after \in Seq(S) /\ Len(after) = L - at + 1
      /\ \A i \in 1 .. L - at + 1 : after[i] = grown[at + i - 1]
  BY <1>1, <1>6, SubSeqProperties DEF after
<1>10. /\ before \o f \in Seq(S) /\ Len(before \o f) = at - 1 + m
       /\ \A i \in 1 .. at - 1 + m : (before \o f)[i] =
             IF i <= at - 1 THEN before[i] ELSE f[i - (at - 1)]
  BY <1>5, <1>8, ConcatProperties DEF m
<1>11. /\ e \in Seq(S) /\ Len(e) = L + m
       /\ \A i \in 1 .. L + m : e[i] =
             IF i <= at - 1 + m THEN (before \o f)[i] ELSE after[i - (at - 1 + m)]
  <2> DEFINE front == before \o f
  <2>1. front \in Seq(S) /\ Len(front) = at - 1 + m /\ e = front \o after
    BY <1>7, <1>10
  <2> HIDE DEF front
  <2>2. /\ e \in Seq(S) /\ Len(e) = Len(front) + Len(after)
        /\ \A i \in 1 .. Len(front) + Len(after) : e[i] =
              IF i <= Len(front) THEN front[i] ELSE after[i - Len(front)]
    BY <1>9, <2>1, ConcatProperties
  <2>3. Len(front) + Len(after) = L + m
    BY <1>1, <1>9, <2>1
  <2> QED BY <2>1, <2>2, <2>3 DEF front
<1>12. MadeOfNodes(e)
  BY <1>4, <1>11, SequencesOfNodes
<1>13. ASSUME NEW i \in 1 .. L, i < at PROVE e[i] = grown[i]
  <2>1. i \in 1 .. at - 1 /\ i \in 1 .. at - 1 + m /\ i \in 1 .. L + m
        /\ i <= at - 1 /\ i <= at - 1 + m
    BY <1>1, <1>13
  <2>2. e[i] = (before \o f)[i]
    BY <1>11, <2>1
  <2>3. (before \o f)[i] = before[i]
    BY <1>10, <2>1
  <2> QED BY <1>8, <2>1, <2>2, <2>3
<1>14. ASSUME NEW i \in 1 .. L, at <= i PROVE e[i + m] = grown[i]
  <2> SUFFICES ASSUME NEW k \in 1 .. L + m, k = i + m PROVE e[k] = grown[i]
    BY <1>1
  <2>1. e[k] = after[k - (at - 1 + m)]
    BY <1>1, <1>11, <1>14
  <2>3. i \in Int /\ at \in Int /\ m \in Int /\ L \in Int /\ i <= L
    BY <1>1
  <2>4. k - (at - 1 + m) \in 1 .. L - at + 1
    BY <1>14, <2>3
  <2> SUFFICES ASSUME NEW n \in 1 .. L - at + 1, n = k - (at - 1 + m)
               PROVE  after[n] = grown[i]
    BY <2>1, <2>4
  <2>2. at + n - 1 = i
    BY <1>1, <1>14
  <2> QED BY <1>9, <2>2
<1>15. ASSUME NEW i \in 1 .. m PROVE e[at - 1 + i] = f[i]
  <2> SUFFICES ASSUME NEW k \in 1 .. L + m, k = at - 1 + i PROVE e[k] = f[i]
    BY <1>1
  <2>1. i \in Int /\ 1 <= i /\ i <= m
    BY <1>1, <1>15
  <2>2. k <= at - 1 + m /\ k \in 1 .. at - 1 + m /\ ~ (k <= at - 1)
    BY <1>1, <2>1
  <2>3. e[k] = (before \o f)[k]
    BY <1>11, <2>2
  <2>4. (before \o f)[k] = f[k - (at - 1)]
    BY <1>10, <2>2
  <2>5. k - (at - 1) = i
    BY <1>1, <2>1
  <2> QED BY <2>3, <2>4, <2>5
<1> QED BY <1>11, <1>12, <1>13, <1>14, <1>15 DEF e, L, m, grown

(* A tree put between two children of an element, or before the first or    *)
(* after the last.                                                          *)
LEMMA InsertKeeps ==
  ASSUME NEW d, IsMessage(d), NEW f, IsTree(f), NEW p \in Nodes(d), IsElement(d, p),
         NEW at \in Int, p < at, at <= p + d[p].size,
         \A i \in Nodes(d) : i < at /\ at < i + d[i].size => p \in Subtree(d, i)
  PROVE  IsMessage(Insert(d, p, at, f))
<1> DEFINE m == Len(f)
           L == Len(d)
           g == Grown(d, p, m)
           e == Insert(d, p, at, f)
           Above(i) == i <= p /\ p < i + d[i].size
<1>1. /\ L \in Nat \ {0} /\ m \in Nat \ {0} /\ Nodes(d) = 1 .. L /\ p \in 1 .. L
      /\ IsTree(d) /\ Nested(d, L) /\ Nested(f, m) /\ MadeOfNodes(d)
      /\ d[Root].tag # "comment" /\ d[p].tag # "comment" /\ Root = 1
  BY MessagesAreTrees DEF IsTree, Nodes, IsElement, Root
<1>2. /\ \A i \in 1 .. L : d[i].size \in Nat /\ d[i].size >= 1 /\ i + d[i].size <= L + 1
      /\ \A i \in 1 .. L : d[i].tag = "comment" => d[i].size = 1
      /\ \A i \in 1 .. L, j \in 1 .. L :
           i < j /\ j < i + d[i].size => j + d[j].size <= i + d[i].size
      /\ d[1].size = L
  BY <1>1 DEF Nested
<1>3. /\ \A i \in 1 .. m : f[i].size \in Nat /\ f[i].size >= 1 /\ i + f[i].size <= m + 1
      /\ \A i \in 1 .. m : f[i].tag = "comment" => f[i].size = 1
      /\ \A i \in 1 .. m, j \in 1 .. m :
           i < j /\ j < i + f[i].size => j + f[j].size <= i + f[i].size
  BY <1>1 DEF Nested
<1>4. at \in 1 .. L + 1
  BY <1>1, <1>2
<1>5. \A i \in 1 .. L : p \in Subtree(d, i) <=> Above(i)
  BY <1>1, <1>2 DEF Subtree
<1>6. \A i \in 1 .. L : i < at /\ at < i + d[i].size => Above(i)
  BY <1>1, <1>5
<1>7. \A i \in 1 .. L : Above(i) => at <= i + d[i].size
  <2> SUFFICES ASSUME NEW i \in 1 .. L, Above(i) PROVE at <= i + d[i].size
    OBVIOUS
  <2>1. p + d[p].size <= i + d[i].size
    BY <1>1, <1>2
  <2> QED BY <1>1, <1>2, <2>1
<1>8. ASSUME NEW i \in 1 .. L
      PROVE  /\ g[i].tag = d[i].tag
             /\ Above(i) => g[i].size = d[i].size + m
             /\ ~ Above(i) => g[i].size = d[i].size
  <2> DEFINE larger == [d[i] EXCEPT !.size = d[i].size + m]
  <2>1. g[i] = IF p \in Subtree(d, i) THEN larger ELSE d[i]
    BY <1>1 DEF Grown
  <2>2. larger.tag = d[i].tag /\ larger.size = d[i].size + m
    <3>1. IsNode(d[i])
      BY <1>1, NodesOfSequences
    <3> QED BY <3>1, NodeChanged
  <2> HIDE DEF g, larger
  <2> QED BY <1>5, <2>1, <2>2
<1>9. /\ Len(e) = L + m /\ MadeOfNodes(e)
      /\ \A i \in 1 .. L : i < at => e[i] = g[i]
      /\ \A i \in 1 .. L : at <= i => e[i + m] = g[i]
      /\ \A i \in 1 .. m : e[at - 1 + i] = f[i]
  BY <1>1, <1>4, Inserted
<1> HIDE DEF m, L, g, e
<1> DEFINE Early(k) == k \in 1 .. L /\ k < at /\ e[k] = g[k]
           Inner(k, x) == x \in 1 .. m /\ k = at - 1 + x /\ e[k] = f[x]
           Late(k, i) == i \in 1 .. L /\ at <= i /\ k = i + m /\ e[k] = g[i] /\ ~ Above(i)
<1>10. ASSUME NEW k \in 1 .. L + m
       PROVE  Early(k) \/ (\E x : Inner(k, x)) \/ (\E i : Late(k, i))
  <2>1. CASE k < at
    BY <1>1, <1>4, <1>9, <2>1
  <2>2. CASE at <= k /\ k < at + m
    <3>1. k - at + 1 \in 1 .. m /\ at - 1 + (k - at + 1) = k
      BY <1>1, <1>4, <2>2
    <3>2. e[at - 1 + (k - at + 1)] = f[k - at + 1]
      BY <1>9, <3>1
    <3>3. Inner(k, k - at + 1)
      BY <3>1, <3>2
    <3> QED BY <3>3
  <2>3. CASE at + m <= k
    <3>1. k - m \in 1 .. L /\ at <= k - m /\ (k - m) + m = k
      BY <1>1, <1>4, <2>3
    <3>2. e[(k - m) + m] = g[k - m]
      BY <1>9, <3>1
    <3>3. ~ Above(k - m)
      BY <1>1, <3>1
    <3>4. Late(k, k - m)
      BY <3>1, <3>2, <3>3
    <3> QED BY <3>4
  <2> QED BY <1>1, <1>4, <2>1, <2>2, <2>3
<1>11. ASSUME NEW k \in 1 .. L + m
       PROVE  /\ e[k].size \in Nat \ {0} /\ k + e[k].size <= L + m + 1
              /\ e[k].tag = "comment" => e[k].size = 1
  <2>1. CASE Early(k)
    <3>1. Above(k) /\ d[k].tag = "comment" => FALSE
      BY <1>1, <1>2, <2>1
    <3>2. /\ k \in 1 .. L /\ e[k].tag = d[k].tag
          /\ e[k].size = d[k].size + m \/ e[k].size = d[k].size
          /\ ~ Above(k) => e[k].size = d[k].size
      BY <1>8, <2>1
    <3>3. /\ d[k].size \in Nat /\ d[k].size >= 1 /\ k + d[k].size <= L + 1
          /\ d[k].tag = "comment" => d[k].size = 1
      BY <1>2, <3>2
    <3>4. e[k].tag = "comment" => e[k].size = 1
      BY <3>1, <3>2, <3>3
    <3>5. k \in Int /\ L \in Int /\ m \in Nat
      BY <1>1, <3>2
    <3> QED BY <3>2, <3>3, <3>4, <3>5
  <2>2. ASSUME NEW x, Inner(k, x)
        PROVE  /\ e[k].size \in Nat \ {0} /\ k + e[k].size <= L + m + 1
               /\ e[k].tag = "comment" => e[k].size = 1
    BY <1>1, <1>3, <1>4, <2>2
  <2>3. ASSUME NEW i, Late(k, i)
        PROVE  /\ e[k].size \in Nat \ {0} /\ k + e[k].size <= L + m + 1
               /\ e[k].tag = "comment" => e[k].size = 1
    <3>1. e[k].size = d[i].size /\ e[k].tag = d[i].tag /\ k = i + m /\ i \in 1 .. L
      BY <1>8, <2>3
    <3> QED BY <1>1, <1>2, <3>1
  <2> QED BY <1>10, <2>1, <2>2, <2>3
<1>12. ASSUME NEW k \in 1 .. L + m, NEW l \in 1 .. L + m, k < l, l < k + e[k].size
       PROVE  l + e[l].size <= k + e[k].size
  <2>1. CASE Early(k)
    <3>1. CASE Early(l)
      <4>1. CASE Above(k)
        <5>1. /\ e[k].size = d[k].size + m /\ e[l].size <= d[l].size + m
              /\ k \in 1 .. L /\ l \in 1 .. L
          <6>1. /\ k \in 1 .. L /\ l \in 1 .. L /\ e[k].size = d[k].size + m
                /\ e[l].size = d[l].size + m \/ e[l].size = d[l].size
            BY <1>8, <2>1, <3>1, <4>1
          <6>2. d[l].size \in Int /\ m \in Nat
            BY <1>1, <1>2, <6>1
          <6> QED BY <6>1, <6>2
        <5>2. l < k + d[k].size
          <6>1. at <= k + d[k].size /\ l < at
            BY <1>7, <3>1, <4>1, <5>1
          <6>2. d[k].size \in Int /\ k \in Int /\ l \in Int /\ at \in Int
            BY <1>1, <1>2, <5>1
          <6> QED BY <6>1, <6>2
        <5>3. l + d[l].size <= k + d[k].size
          BY <1>2, <1>12, <5>1, <5>2
        <5>4. /\ d[k].size \in Int /\ d[l].size \in Int /\ e[l].size \in Int
              /\ k \in Int /\ l \in Int /\ m \in Int
          <6>1. d[k].size \in Int /\ d[l].size \in Int
            BY <1>2, <5>1
          <6>2. e[l].size \in Int
            BY <1>11
          <6>3. k \in Int /\ l \in Int /\ m \in Int
            BY <1>1, <5>1
          <6> QED BY <6>1, <6>2, <6>3
        <5> QED BY <5>1, <5>3, <5>4
      <4>2. CASE ~ Above(k)
        <5>1. l < k + d[k].size /\ l + d[l].size <= k + d[k].size
          BY <1>1, <1>2, <1>8, <1>12, <2>1, <3>1, <4>2
        <5>2. ~ Above(l)
          <6>1. /\ k \in Int /\ l \in Int /\ p \in Int
                /\ d[k].size \in Int /\ d[l].size \in Int
            BY <1>1, <1>2, <2>1, <3>1
          <6> QED BY <1>12, <4>2, <5>1, <6>1
        <5> QED BY <1>8, <2>1, <3>1, <4>2, <5>1, <5>2
      <4> QED BY <4>1, <4>2
    <3>2. ASSUME NEW x, Inner(l, x) PROVE l + e[l].size <= k + e[k].size
      <4>1. Above(k)
        <5> SUFFICES ASSUME ~ Above(k) PROVE FALSE
          OBVIOUS
        <5>1. e[k].size = d[k].size /\ k \in 1 .. L /\ k < at
          BY <1>8, <2>1
        <5>2. d[k].size \in Int /\ at \in Int /\ k \in Int /\ m \in Int
          BY <1>1, <1>2, <1>4, <5>1
        <5>3. x \in Int /\ x >= 1 /\ l = at - 1 + x
          BY <1>1, <3>2
        <5>4. at < k + d[k].size
          BY <1>12, <5>1, <5>2, <5>3
        <5> QED BY <1>6, <5>1, <5>4
      <4>2. /\ e[k].size = d[k].size + m /\ at <= k + d[k].size
            /\ e[l].size = f[x].size /\ l = at - 1 + x /\ x \in 1 .. m
            /\ d[k].size \in Int
        BY <1>2, <1>7, <1>8, <2>1, <3>2, <4>1
      <4>3. x + f[x].size <= m + 1 /\ f[x].size \in Int
        BY <1>3, <4>2
      <4>4. k \in Int /\ x \in Int /\ at \in Int /\ m \in Int
        BY <1>1, <4>2
      <4> QED BY <4>2, <4>3, <4>4
    <3>3. ASSUME NEW j, Late(l, j) PROVE l + e[l].size <= k + e[k].size
      <4>1. Above(k)
        <5> SUFFICES ASSUME ~ Above(k) PROVE FALSE
          OBVIOUS
        <5>1. e[k].size = d[k].size /\ k \in 1 .. L /\ k < at
          BY <1>8, <2>1
        <5>2. d[k].size \in Int /\ at \in Int /\ k \in Int /\ m \in Nat
          BY <1>1, <1>2, <1>4, <5>1
        <5>3. j \in Int /\ at <= j /\ l = j + m
          BY <1>1, <3>3
        <5>4. at < k + d[k].size
          BY <1>12, <5>1, <5>2, <5>3
        <5> QED BY <1>6, <5>1, <5>4
      <4>2. k < j /\ j < k + d[k].size
        <5>1. e[k].size = d[k].size + m /\ l = j + m /\ at <= j /\ k < at
          BY <1>8, <2>1, <3>3, <4>1
        <5>2. /\ k \in Int /\ j \in Int /\ at \in Int /\ m \in Int
              /\ d[k].size \in Int
          BY <1>1, <1>2, <2>1, <3>3
        <5> QED BY <1>12, <5>1, <5>2
      <4>3. /\ e[k].size = d[k].size + m /\ e[l].size = d[j].size /\ l = j + m
            /\ k \in 1 .. L /\ j \in 1 .. L
        BY <1>8, <2>1, <3>3, <4>1
      <4>4. j + d[j].size <= k + d[k].size /\ d[j].size \in Int /\ d[k].size \in Int
        BY <1>2, <4>2, <4>3
      <4>5. k \in Int /\ j \in Int /\ m \in Int
        BY <1>1, <4>3
      <4> QED BY <4>3, <4>4, <4>5
    <3> QED BY <1>10, <3>1, <3>2, <3>3
  <2>2. ASSUME NEW x, Inner(k, x) PROVE l + e[l].size <= k + e[k].size
    <3>1. at <= l /\ l < at + m
      BY <1>1, <1>3, <1>4, <1>12, <2>2
    <3>2. ~ Early(l) /\ ~ (\E j : Late(l, j))
      BY <1>1, <1>4, <3>1
    <3>3. PICK y : Inner(l, y)
      BY <1>10, <3>2
    <3>4. /\ x \in 1 .. m /\ y \in 1 .. m /\ k = at - 1 + x /\ l = at - 1 + y
          /\ e[k].size = f[x].size /\ e[l].size = f[y].size
      BY <2>2, <3>3
    <3>5. f[x].size \in Int /\ f[y].size \in Int
      BY <1>3, <3>4
    <3>6. x < y /\ y < x + f[x].size
      BY <1>1, <1>4, <1>12, <3>4, <3>5
    <3>7. y + f[y].size <= x + f[x].size
      BY <1>3, <3>4, <3>6
    <3>8. at \in Int /\ x \in Int /\ y \in Int
      BY <1>1, <1>4, <3>4
    <3> QED BY <3>4, <3>5, <3>7, <3>8
  <2>3. ASSUME NEW i, Late(k, i) PROVE l + e[l].size <= k + e[k].size
    <3>1. at + m <= l
      BY <1>1, <1>4, <1>12, <2>3
    <3>2. ~ Early(l) /\ ~ (\E y : Inner(l, y))
      BY <1>1, <1>4, <3>1
    <3>3. PICK j : Late(l, j)
      BY <1>10, <3>2
    <3>4. /\ i \in 1 .. L /\ k = i + m /\ e[k].size = d[i].size
          /\ j \in 1 .. L /\ l = j + m /\ e[l].size = d[j].size
      BY <1>8, <2>3, <3>3
    <3>5. /\ i \in Int /\ j \in Int /\ m \in Int
          /\ d[i].size \in Int /\ d[j].size \in Int
      BY <1>1, <1>2, <3>4
    <3>6. i < j /\ j < i + d[i].size
      BY <1>12, <3>4, <3>5
    <3>7. j + d[j].size <= i + d[i].size
      BY <1>2, <3>4, <3>6
    <3> QED BY <3>4, <3>5, <3>7
  <2> QED BY <1>10, <2>1, <2>2, <2>3
<1>13. e[1].size = L + m /\ e[1].tag # "comment"
  <2>1. 1 \in 1 .. L /\ 1 < at /\ Above(1)
    BY <1>1, <1>2
  <2> QED BY <1>1, <1>2, <1>8, <1>9, <2>1
<1>14. Nested(e, L + m)
  BY <1>11, <1>12, <1>13 DEF Nested
<1>15. IsTree(e) /\ IsElement(e, Root)
  BY <1>1, <1>9, <1>13, <1>14 DEF IsTree, IsElement
<1> QED BY <1>15, TreesAreMessages DEF e

-----------------------------------------------------------------------------
(* What Delete leaves where. *)
Shrunk(d, i) ==
  [j \in Nodes(d) |->
     IF i \in Subtree(d, j) /\ j # i
     THEN [d[j] EXCEPT !.size = @ - d[i].size] ELSE d[j]]

LEMMA Deleted ==
  ASSUME NEW d, IsTree(d), NEW i \in Nodes(d), i + d[i].size <= Len(d) + 1,
         d[i].size \in Nat \ {0}
  PROVE  LET e == Delete(d, i)
             n == d[i].size
         IN  /\ Len(e) = Len(d) - n
             /\ MadeOfNodes(e)
             /\ \A j \in 1 .. Len(d) : j < i => e[j] = Shrunk(d, i)[j]
             /\ \A j \in 1 .. Len(d) : i + n <= j => e[j - n] = Shrunk(d, i)[j]
<1> DEFINE n == d[i].size
           L == Len(d)
           cut == Shrunk(d, i)
           before == SubSeq(cut, 1, i - 1)
           after == SubSeq(cut, i + n, L)
           e == Delete(d, i)
           S == {cut[j] : j \in 1 .. L}
<1>1. L \in Nat /\ i \in 1 .. L /\ n \in Nat \ {0} /\ i + n <= L + 1 /\ MadeOfNodes(d)
  BY DEF IsTree, Nodes
<1>2. \A j \in 1 .. L : IsNode(d[j])
  BY <1>1, NodesOfSequences
<1>3. \A x \in S : IsNode(x)
  <2> SUFFICES ASSUME NEW j \in 1 .. L PROVE IsNode(cut[j])
    OBVIOUS
  <2> DEFINE smaller == [d[j] EXCEPT !.size = d[j].size - n]
  <2>1. cut[j] = IF i \in Subtree(d, j) /\ j # i THEN smaller ELSE d[j]
    BY DEF Shrunk, Nodes
  <2>2. IsNode(smaller)
    BY <1>2, NodeChanged
  <2> HIDE DEF cut, smaller
  <2> QED BY <1>2, <2>1, <2>2
<1>4. \A j \in 1 .. L : cut[j] \in S
  OBVIOUS
<1>5. e = before \o after
  BY DEF Delete, Shrunk
<1> HIDE DEF cut, S, n, L, before, after, e
<1>6. /\ before \in Seq(S) /\ Len(before) = i - 1
      /\ \A j \in 1 .. i - 1 : before[j] = cut[j]
  BY <1>1, <1>4, SubSeqProperties DEF before
<1>7. /\ after \in Seq(S) /\ Len(after) = L - (i + n) + 1
      /\ \A j \in 1 .. L - (i + n) + 1 : after[j] = cut[i + n + j - 1]
  BY <1>1, <1>4, SubSeqProperties DEF after
<1>8. /\ e \in Seq(S) /\ Len(e) = L - n
      /\ \A j \in 1 .. L - n : e[j] =
            IF j <= i - 1 THEN before[j] ELSE after[j - (i - 1)]
  <2>1. /\ e \in Seq(S) /\ Len(e) = Len(before) + Len(after)
        /\ \A j \in 1 .. Len(before) + Len(after) : e[j] =
              IF j <= Len(before) THEN before[j] ELSE after[j - Len(before)]
    BY <1>5, <1>6, <1>7, ConcatProperties
  <2>2. Len(before) + Len(after) = L - n
    BY <1>1, <1>6, <1>7
  <2> QED BY <1>6, <2>1, <2>2
<1>9. MadeOfNodes(e)
  BY <1>3, <1>8, SequencesOfNodes
<1>10. ASSUME NEW j \in 1 .. L, j < i PROVE e[j] = cut[j]
  BY <1>1, <1>6, <1>8, <1>10
<1>11. ASSUME NEW j \in 1 .. L, i + n <= j PROVE e[j - n] = cut[j]
  <2> SUFFICES ASSUME NEW k \in 1 .. L - n, k = j - n PROVE e[k] = cut[j]
    BY <1>1, <1>11
  <2>1. e[k] = after[k - (i - 1)]
    BY <1>1, <1>8, <1>11
  <2> SUFFICES ASSUME NEW x \in 1 .. L - (i + n) + 1, x = k - (i - 1)
               PROVE  after[x] = cut[j]
    BY <1>1, <1>11, <2>1
  <2>2. i + n + x - 1 = j
    BY <1>1, <1>11
  <2> QED BY <1>7, <2>2
<1> QED BY <1>8, <1>9, <1>10, <1>11 DEF e, L, n, cut

(* A subtree taken out of the element that holds it. *)
LEMMA DeleteKeeps ==
  ASSUME NEW d, IsMessage(d), NEW i \in Nodes(d), i # Root
  PROVE  IsMessage(Delete(d, i))
<1> DEFINE n == d[i].size
           L == Len(d)
           g == Shrunk(d, i)
           e == Delete(d, i)
           Above(j) == j < i /\ i < j + d[j].size
<1>1. /\ L \in Nat \ {0} /\ Nodes(d) = 1 .. L /\ i \in 1 .. L /\ 1 < i
      /\ IsTree(d) /\ Nested(d, L) /\ MadeOfNodes(d)
      /\ d[Root].tag # "comment" /\ Root = 1
  BY MessagesAreTrees DEF IsTree, Nodes, IsElement, Root
<1>2. /\ \A j \in 1 .. L : d[j].size \in Nat /\ d[j].size >= 1 /\ j + d[j].size <= L + 1
      /\ \A j \in 1 .. L : d[j].tag = "comment" => d[j].size = 1
      /\ \A j \in 1 .. L, k \in 1 .. L :
           j < k /\ k < j + d[j].size => k + d[k].size <= j + d[j].size
      /\ d[1].size = L
  BY <1>1 DEF Nested
<1>3. n \in Nat /\ n >= 1 /\ i + n <= L + 1
  BY <1>1, <1>2
<1>4. \A j \in 1 .. L : i \in Subtree(d, j) /\ j # i <=> Above(j)
  BY <1>1, <1>2 DEF Subtree
<1>5. \A j \in 1 .. L : Above(j) => i + n <= j + d[j].size
  BY <1>1, <1>2
<1>6. ASSUME NEW j \in 1 .. L
      PROVE  /\ g[j].tag = d[j].tag
             /\ Above(j) => g[j].size = d[j].size - n
             /\ ~ Above(j) => g[j].size = d[j].size
  <2> DEFINE smaller == [d[j] EXCEPT !.size = d[j].size - n]
  <2>1. g[j] = IF i \in Subtree(d, j) /\ j # i THEN smaller ELSE d[j]
    BY <1>1 DEF Shrunk
  <2>2. smaller.tag = d[j].tag /\ smaller.size = d[j].size - n
    <3>1. IsNode(d[j])
      BY <1>1, NodesOfSequences
    <3> QED BY <3>1, NodeChanged
  <2> HIDE DEF g, smaller
  <2> QED BY <1>4, <2>1, <2>2
<1>7. /\ Len(e) = L - n /\ MadeOfNodes(e)
      /\ \A j \in 1 .. L : j < i => e[j] = g[j]
      /\ \A j \in 1 .. L : i + n <= j => e[j - n] = g[j]
  BY <1>1, <1>3, Deleted
<1> HIDE DEF n, L, g, e
<1> DEFINE Early(k) == k \in 1 .. L /\ k < i /\ e[k] = g[k]
           Late(k, j) ==
             j \in 1 .. L /\ i + n <= j /\ k = j - n /\ e[k] = g[j] /\ ~ Above(j)
<1>8. ASSUME NEW k \in 1 .. L - n PROVE Early(k) \/ (\E j : Late(k, j))
  <2>1. CASE k < i
    BY <1>1, <1>3, <1>7, <2>1
  <2>2. CASE i <= k
    <3>1. k + n \in 1 .. L /\ i + n <= k + n /\ (k + n) - n = k
      BY <1>1, <1>3, <2>2
    <3>2. e[(k + n) - n] = g[k + n]
      BY <1>7, <3>1
    <3>3. ~ Above(k + n)
      BY <1>1, <1>3, <3>1
    <3>4. Late(k, k + n)
      BY <3>1, <3>2, <3>3
    <3> QED BY <3>4
  <2> QED BY <1>1, <2>1, <2>2
<1>9. ASSUME NEW k \in 1 .. L - n
      PROVE  /\ e[k].size \in Nat \ {0} /\ k + e[k].size <= L - n + 1
             /\ e[k].tag = "comment" => e[k].size = 1
  <2>1. CASE Early(k)
    <3>1. k \in 1 .. L /\ k < i /\ e[k].size = g[k].size /\ e[k].tag = d[k].tag
      BY <1>6, <2>1
    <3>2. CASE Above(k)
      <4>1. e[k].size = d[k].size - n /\ i + n <= k + d[k].size /\ d[k].size \in Int
        BY <1>2, <1>5, <1>6, <3>1, <3>2
      <4>2. d[k].tag # "comment"
        BY <1>1, <1>2, <3>1, <3>2
      <4>3. /\ k \in Int /\ i \in Int /\ n \in Int /\ L \in Int /\ k < i
            /\ k + d[k].size <= L + 1
        BY <1>1, <1>2, <1>3, <3>1
      <4>4. e[k].size \in Nat \ {0} /\ k + e[k].size <= L - n + 1
        BY <4>1, <4>3
      <4> QED BY <3>1, <4>2, <4>4
    <3>3. CASE ~ Above(k)
      <4>1. e[k].size = d[k].size /\ k + d[k].size <= i
        BY <1>1, <1>2, <1>6, <3>1, <3>3
      <4> QED BY <1>1, <1>2, <1>3, <3>1, <4>1
    <3> QED BY <3>2, <3>3
  <2>2. ASSUME NEW j, Late(k, j)
        PROVE  /\ e[k].size \in Nat \ {0} /\ k + e[k].size <= L - n + 1
               /\ e[k].tag = "comment" => e[k].size = 1
    <3>1. e[k].size = d[j].size /\ e[k].tag = d[j].tag /\ k = j - n /\ j \in 1 .. L
      BY <1>6, <2>2
    <3> QED BY <1>1, <1>2, <1>3, <3>1
  <2> QED BY <1>8, <2>1, <2>2
<1>10. ASSUME NEW k \in 1 .. L - n, NEW l \in 1 .. L - n, k < l, l < k + e[k].size
       PROVE  l + e[l].size <= k + e[k].size
  <2>1. CASE Early(k)
    <3>1. /\ k \in 1 .. L /\ k \in Int /\ k < i /\ d[k].size \in Int /\ e[k].size \in Int
          /\ Above(k) => e[k].size = d[k].size - n /\ i + n <= k + d[k].size
          /\ ~ Above(k) => e[k].size = d[k].size /\ k + d[k].size <= i
      BY <1>1, <1>2, <1>3, <1>5, <1>6, <2>1
    <3>2. n \in Int /\ i \in Int /\ n >= 1
      BY <1>1, <1>3
    <3>3. CASE Early(l)
      <4>1. /\ l \in 1 .. L /\ l \in Int /\ l < i /\ d[l].size \in Int /\ e[l].size \in Int
            /\ Above(l) => e[l].size = d[l].size - n
            /\ ~ Above(l) => e[l].size = d[l].size /\ l + d[l].size <= i
        BY <1>1, <1>2, <1>3, <1>6, <3>3
      <4>2. l < k + d[k].size
        BY <1>10, <3>1, <3>2, <4>1
      <4>3. l + d[l].size <= k + d[k].size
        BY <1>2, <1>10, <3>1, <4>1, <4>2
      <4>4. CASE Above(k)
        BY <3>1, <3>2, <4>1, <4>3, <4>4
      <4>5. CASE ~ Above(k)
        <5>1. e[l].size <= d[l].size
          BY <3>2, <4>1
        <5> QED BY <3>1, <4>1, <4>3, <4>5, <5>1
      <4> QED BY <4>4, <4>5
    <3>4. ASSUME NEW j, Late(l, j) PROVE l + e[l].size <= k + e[k].size
      <4>1. /\ j \in 1 .. L /\ j \in Int /\ i + n <= j /\ l = j - n /\ l \in Int
            /\ e[l].size = d[j].size /\ d[j].size \in Int
        BY <1>1, <1>2, <1>3, <1>6, <3>4
      <4>2. Above(k)
        BY <1>10, <3>1, <3>2, <4>1
      <4>3. k < j /\ j < k + d[k].size
        BY <1>10, <3>1, <3>2, <4>1, <4>2
      <4>4. j + d[j].size <= k + d[k].size
        BY <1>2, <3>1, <4>1, <4>3
      <4> QED BY <3>1, <3>2, <4>1, <4>2, <4>4
    <3> QED BY <1>8, <3>3, <3>4
  <2>2. ASSUME NEW x, Late(k, x) PROVE l + e[l].size <= k + e[k].size
    <3>1. /\ x \in 1 .. L /\ x \in Int /\ i + n <= x /\ k = x - n /\ k \in Int
          /\ e[k].size = d[x].size /\ d[x].size \in Int /\ n \in Int /\ i \in Int
      BY <1>1, <1>2, <1>3, <1>6, <2>2
    <3>2. ~ Early(l)
      BY <1>1, <1>10, <3>1
    <3>3. PICK j : Late(l, j)
      BY <1>8, <3>2
    <3>4. /\ j \in 1 .. L /\ j \in Int /\ l = j - n /\ l \in Int
          /\ e[l].size = d[j].size /\ d[j].size \in Int
      BY <1>1, <1>2, <1>3, <1>6, <3>3
    <3>5. x < j /\ j < x + d[x].size
      BY <1>10, <3>1, <3>4
    <3>6. j + d[j].size <= x + d[x].size
      BY <1>2, <3>1, <3>4, <3>5
    <3> QED BY <3>1, <3>4, <3>6
  <2> QED BY <1>8, <2>1, <2>2
<1>11. e[1].size = L - n /\ e[1].tag # "comment" /\ L - n \in Nat \ {0}
  <2>1. 1 \in 1 .. L /\ 1 < i /\ Above(1)
    BY <1>1, <1>2
  <2> QED BY <1>1, <1>2, <1>3, <1>6, <1>7, <2>1
<1>12. Nested(e, L - n)
  BY <1>9, <1>10, <1>11 DEF Nested
<1>13. IsTree(e) /\ IsElement(e, Root)
  BY <1>1, <1>7, <1>11, <1>12 DEF IsTree, IsElement
<1> QED BY <1>13, TreesAreMessages DEF e

-----------------------------------------------------------------------------
(* A subtree that starts with an element is a document. *)
LEMMA CopyKeeps ==
  ASSUME NEW d, IsMessage(d), NEW i \in Nodes(d), IsElement(d, i)
  PROVE  IsMessage(Copy(d, i))
<1> DEFINE n == d[i].size
           L == Len(d)
           e == Copy(d, i)
           S == {d[j] : j \in 1 .. L}
<1>1. /\ L \in Nat /\ Nodes(d) = 1 .. L /\ i \in 1 .. L /\ Root = 1
      /\ IsTree(d) /\ Nested(d, L) /\ MadeOfNodes(d)
  BY MessagesAreTrees DEF IsTree, Nodes, Root
<1>2. /\ \A j \in 1 .. L : d[j].size \in Nat \ {0} /\ j + d[j].size <= L + 1
      /\ \A j \in 1 .. L : d[j].tag = "comment" => d[j].size = 1
      /\ \A j \in 1 .. L, k \in 1 .. L :
           j < k /\ k < j + d[j].size => k + d[k].size <= j + d[j].size
  BY <1>1 DEF Nested
<1>3. n \in Nat \ {0} /\ i + n <= L + 1
  BY <1>1, <1>2
<1>4. \A x \in S : IsNode(x)
  BY <1>1, NodesOfSequences
<1>5. \A j \in i .. i + n - 1 : d[j] \in S
  BY <1>1, <1>3
<1>6. e = SubSeq(d, i, i + n - 1)
  BY DEF Copy
<1> HIDE DEF n, L, S, e
<1>7. e \in Seq(S) /\ Len(e) = n /\ \A k \in 1 .. n : e[k] = d[i + k - 1]
  <2>1. /\ e \in Seq(S)
        /\ Len(e) = IF i <= i + n - 1 THEN (i + n - 1) - i + 1 ELSE 0
        /\ \A k \in 1 .. (i + n - 1) - i + 1 : e[k] = d[i + k - 1]
    BY <1>1, <1>3, <1>5, <1>6, SubSeqProperties
  <2>2. (i + n - 1) - i + 1 = n /\ i <= i + n - 1
    BY <1>1, <1>3
  <2> QED BY <2>1, <2>2
<1>8. MadeOfNodes(e)
  BY <1>4, <1>7, SequencesOfNodes
<1>9. ASSUME NEW k \in 1 .. n
      PROVE  /\ e[k].size \in Nat \ {0} /\ k + e[k].size <= n + 1
             /\ e[k].tag = "comment" => e[k].size = 1
  <2> SUFFICES ASSUME NEW j \in 1 .. L, j = i + k - 1
               PROVE  /\ d[j].size \in Nat \ {0} /\ k + d[j].size <= n + 1
                      /\ d[j].tag = "comment" => d[j].size = 1
    BY <1>1, <1>3, <1>7
  <2>1. d[j].size \in Int /\ i \in Int /\ k \in Int /\ n \in Int /\ j \in Int
    BY <1>1, <1>2, <1>3
  <2>2. j + d[j].size <= i + n
    <3>1. CASE i = j
      BY <2>1, <3>1 DEF n
    <3>2. CASE i < j
      BY <1>1, <1>2, <1>3, <3>2 DEF n
    <3> QED BY <2>1, <3>1, <3>2
  <2> QED BY <1>2, <2>1, <2>2
<1>10. ASSUME NEW k \in 1 .. n, NEW l \in 1 .. n, k < l, l < k + e[k].size
       PROVE  l + e[l].size <= k + e[k].size
  <2> SUFFICES ASSUME NEW j \in 1 .. L, j = i + k - 1, NEW x \in 1 .. L, x = i + l - 1
               PROVE  l + d[x].size <= k + d[j].size
    <3>1. i + k - 1 \in 1 .. L /\ i + l - 1 \in 1 .. L
      BY <1>1, <1>3
    <3>2. e[k] = d[i + k - 1] /\ e[l] = d[i + l - 1]
      BY <1>7
    <3> QED BY <3>1, <3>2
  <2>1. e[k].size = d[j].size
    BY <1>7
  <2>2. /\ d[j].size \in Int /\ d[x].size \in Int /\ i \in Int /\ k \in Int /\ l \in Int
        /\ j \in Int /\ x \in Int
    BY <1>1, <1>2, <1>3
  <2>3. j < x /\ x < j + d[j].size
    BY <1>10, <2>1, <2>2
  <2>4. x + d[x].size <= j + d[j].size
    BY <1>2, <2>3
  <2> QED BY <2>2, <2>4
<1>11. e[1] = d[i] /\ e[1].size = n
  BY <1>1, <1>3, <1>7 DEF n
<1>12. IsTree(e) /\ IsElement(e, Root)
  BY <1>1, <1>3, <1>7, <1>8, <1>9, <1>10, <1>11 DEF IsTree, Nested, IsElement
<1> QED BY <1>12, TreesAreMessages DEF e

(* Nodes whose name and size stay, whatever else changes. *)
LEMMA RelabelKeeps ==
  ASSUME NEW d, IsMessage(d), NEW e, e = [i \in Nodes(d) |-> e[i]],
         \A i \in Nodes(d) :
           IsNode(e[i]) /\ e[i].size = d[i].size /\ e[i].tag = d[i].tag
  PROVE  IsMessage(e) /\ Nodes(e) = Nodes(d)
<1> DEFINE L == Len(d)
           S == {e[i] : i \in 1 .. L}
<1>1. L \in Nat \ {0} /\ Nodes(d) = 1 .. L /\ Nested(d, L) /\ d[1].tag # "comment"
  BY MessagesAreTrees DEF IsTree, Nodes, IsElement, Root
<1>2. e \in [1 .. L -> S]
  BY <1>1
<1>3. e \in Seq(S)
  BY <1>1, <1>2, SeqDef
<1>4. Len(e) = L
  <2>1. Len(e) \in Nat /\ DOMAIN e = 1 .. Len(e)
    BY <1>3, LenProperties
  <2>2. DOMAIN e = 1 .. L
    BY <1>2
  <2> QED BY <1>1, <2>1, <2>2
<1>5. MadeOfNodes(e)
  <2>1. \A x \in S : IsNode(x)
    BY <1>1
  <2> HIDE DEF S
  <2> QED BY <1>3, <2>1, SequencesOfNodes
<1>6. Nested(e, L)
  <2>1. \A i \in 1 .. L : e[i].size = d[i].size /\ e[i].tag = d[i].tag
    BY <1>1
  <2>2. /\ \A i \in 1 .. L :
             /\ d[i].size \in Nat \ {0} /\ i + d[i].size <= L + 1
             /\ d[i].tag = "comment" => d[i].size = 1
        /\ \A i \in 1 .. L, j \in 1 .. L :
             i < j /\ j < i + d[i].size => j + d[j].size <= i + d[i].size
        /\ d[1].size = L /\ 1 \in 1 .. L
    BY <1>1 DEF Nested
  <2> HIDE DEF L
  <2>3. \A i \in 1 .. L :
          /\ e[i].size \in Nat \ {0} /\ i + e[i].size <= L + 1
          /\ e[i].tag = "comment" => e[i].size = 1
    BY <2>1, <2>2
  <2>4. ASSUME NEW i \in 1 .. L, NEW j \in 1 .. L, i < j, j < i + e[i].size
        PROVE  j + e[j].size <= i + e[i].size
    BY <2>1, <2>2, <2>4
  <2>5. e[1].size = L
    BY <2>1, <2>2
  <2> QED BY <2>3, <2>4, <2>5 DEF Nested
<1>7. IsTree(e) /\ IsElement(e, Root)
  BY <1>1, <1>4, <1>5, <1>6 DEF IsTree, IsElement, Root
<1> QED BY <1>1, <1>4, <1>7, TreesAreMessages DEF Nodes

(* Edits of one node that leave its name and size. *)
LEMMA NodeEdited ==
  ASSUME NEW d, IsMessage(d), NEW n \in Nodes(d), NEW x,
         IsNode(x), x.size = d[n].size, x.tag = d[n].tag
  PROVE  IsMessage([d EXCEPT ![n] = x])
<1> DEFINE e == [d EXCEPT ![n] = x]
<1>1. Len(d) \in Nat /\ MadeOfNodes(d)
  BY DEF IsMessage, IsDocument
<1>2. d = [i \in Nodes(d) |-> d[i]] /\ \A i \in Nodes(d) : IsNode(d[i])
  BY <1>1, NodesOfSequences DEF MadeOfNodes, Nodes
<1>3. e = [i \in Nodes(d) |-> IF i = n THEN x ELSE d[i]]
  BY <1>2
<1>4. \A i \in Nodes(d) : e[i] = IF i = n THEN x ELSE d[i]
  BY <1>3
<1>5. e = [i \in Nodes(d) |-> e[i]]
  BY <1>3
<1> HIDE DEF e
<1>6. \A i \in Nodes(d) : IsNode(e[i]) /\ e[i].size = d[i].size /\ e[i].tag = d[i].tag
  BY <1>2, <1>4
<1> QED BY <1>5, <1>6, RelabelKeeps DEF e

LEMMA CommentIsTree == IsTree(Comment)
<1> DEFINE x == Node("comment", 1, NoId, NoText, NoSig)
<1>1. Comment = <<x>>
  <2>1. Len(<<>>) = 0 /\ 1 + Len(<<>>) = 1
    OBVIOUS
  <2>2. Comment = <<x>> \o <<>>
    BY <2>1 DEF Comment, Leaf, Tree
  <2> HIDE DEF x
  <2>3. <<x>> \in Seq({x})
    OBVIOUS
  <2> QED BY <2>2, <2>3, ConcatEmptySeq
<1>2. IsNode(x) /\ x.size = 1 /\ x.tag = "comment"
  BY DEF IsNode, Node
<1> HIDE DEF x
<1>3. Len(<<x>>) = 1 /\ <<x>>[1] = x /\ <<x>> \in Seq({x})
  OBVIOUS
<1>4. MadeOfNodes(<<x>>)
  BY <1>2, <1>3, SequencesOfNodes
<1>5. Nested(<<x>>, 1)
  BY <1>2, <1>3 DEF Nested
<1> QED BY <1>1, <1>3, <1>4, <1>5 DEF IsTree

(* A response around a document. *)
LEMMA ResponseKeeps ==
  ASSUME NEW d, IsMessage(d), NEW id
  PROVE  IsMessage(Response(id, d))
<1> DEFINE L == Len(d)
           x == Node("Response", 1 + L, id, NoText, NoSig)
           S == {x} \cup {d[i] : i \in 1 .. L}
           e == Response(id, d)
<1>1. L \in Nat \ {0} /\ Nested(d, L) /\ MadeOfNodes(d) /\ Root = 1
  BY MessagesAreTrees DEF IsTree, Root
<1>2. /\ \A j \in 1 .. L : d[j].size \in Nat \ {0} /\ j + d[j].size <= L + 1
      /\ \A j \in 1 .. L : d[j].tag = "comment" => d[j].size = 1
      /\ \A j \in 1 .. L, k \in 1 .. L :
           j < k /\ k < j + d[j].size => k + d[k].size <= j + d[j].size
  BY <1>1 DEF Nested
<1>3. e = <<x>> \o d
  BY DEF Response, Tree
<1>4. IsNode(x) /\ x.size = 1 + L /\ x.tag = "Response"
  BY DEF IsNode, Node
<1>5. d \in Seq({d[i] : i \in 1 .. L}) /\ \A i \in 1 .. L : IsNode(d[i])
  BY <1>1, NodesOfSequences
<1>6. d \in Seq(S)
  BY <1>5, SeqMonotonic
<1>7. \A y \in S : IsNode(y)
  BY <1>4, <1>5
<1>8. x \in S
  OBVIOUS
<1> HIDE DEF x, S, e
<1>9. <<x>> \in Seq(S) /\ Len(<<x>>) = 1 /\ <<x>>[1] = x
  BY <1>8
<1>10. e \in Seq(S) /\ Len(e) = 1 + L
       /\ \A i \in 1 .. 1 + L : e[i] = IF i <= 1 THEN <<x>>[i] ELSE d[i - 1]
  <2>1. /\ e \in Seq(S) /\ Len(e) = Len(<<x>>) + Len(d)
        /\ \A i \in 1 .. Len(<<x>>) + Len(d) :
             e[i] = IF i <= Len(<<x>>) THEN <<x>>[i] ELSE d[i - Len(<<x>>)]
    BY <1>3, <1>6, <1>9, ConcatProperties
  <2> QED BY <1>9, <2>1
<1> HIDE DEF L
<1>11. e[1] = x /\ \A i \in 2 .. 1 + L : e[i] = d[i - 1] /\ i - 1 \in 1 .. L
  BY <1>1, <1>9, <1>10
<1>12. ASSUME NEW k \in 1 .. 1 + L
       PROVE  /\ e[k].size \in Nat \ {0} /\ k + e[k].size <= 1 + L + 1
              /\ e[k].tag = "comment" => e[k].size = 1
  <2>1. CASE k = 1
    BY <1>1, <1>4, <1>11, <2>1
  <2>2. CASE k # 1
    <3>1. k \in 2 .. 1 + L
      BY <1>1, <2>2
    <3> SUFFICES ASSUME NEW j \in 1 .. L, j = k - 1
                 PROVE  /\ d[j].size \in Nat \ {0} /\ k + d[j].size <= 1 + L + 1
                        /\ d[j].tag = "comment" => d[j].size = 1
      BY <1>11, <3>1
    <3> QED BY <1>1, <1>2
  <2> QED BY <2>1, <2>2
<1>13. ASSUME NEW k \in 1 .. 1 + L, NEW l \in 1 .. 1 + L, k < l, l < k + e[k].size
       PROVE  l + e[l].size <= k + e[k].size
  <2>1. l \in 2 .. 1 + L
    BY <1>1, <1>13
  <2> SUFFICES ASSUME NEW j \in 1 .. L, j = l - 1
               PROVE  l + d[j].size <= k + e[k].size
    BY <1>11, <2>1
  <2>2. d[j].size \in Int /\ j + d[j].size <= L + 1
    BY <1>2
  <2>3. CASE k = 1
    BY <1>1, <1>4, <1>11, <2>2, <2>3
  <2>4. CASE k # 1
    <3>1. k \in 2 .. 1 + L
      BY <1>1, <2>4
    <3> SUFFICES ASSUME NEW x0 \in 1 .. L, x0 = k - 1, e[k].size = d[x0].size
                 PROVE  l + d[j].size <= k + d[x0].size
      BY <1>11, <3>1
    <3>2. d[x0].size \in Int
      BY <1>2
    <3>3. x0 < j /\ j < x0 + d[x0].size
      BY <1>1, <1>13, <3>2
    <3>4. j + d[j].size <= x0 + d[x0].size
      BY <1>2, <3>3
    <3> QED BY <1>1, <2>2, <3>2, <3>4
  <2> QED BY <2>3, <2>4
<1>14. Nested(e, 1 + L)
  BY <1>4, <1>11, <1>12, <1>13 DEF Nested
<1>15. MadeOfNodes(e)
  BY <1>7, <1>10, SequencesOfNodes
<1>16. IsTree(e) /\ IsElement(e, Root)
  BY <1>1, <1>4, <1>10, <1>11, <1>14, <1>15 DEF IsTree, IsElement
<1> QED BY <1>16, TreesAreMessages DEF e

(* An assertion's copy, renamed and without its signature. *)
LEMMA UnsignedCopyKeeps ==
  ASSUME NEW d, IsMessage(d), NEW a \in Named(d, "Assertion"), NEW id, NEW name
  PROVE  IsMessage(UnsignedCopy(d, a, id, name))
<1> DEFINE copy == Copy(d, a)
           renamed == [i \in DOMAIN copy |->
                         IF copy[i].tag = "NameID" THEN [copy[i] EXCEPT !.text = name]
                         ELSE IF i = Root THEN [copy[i] EXCEPT !.id = id] ELSE copy[i]]
           sigs == ChildrenNamed(renamed, Root, "Signature")
<1>1. UnsignedCopy(d, a, id, name) =
        IF sigs = {} THEN renamed ELSE Delete(renamed, First(sigs))
  BY DEF UnsignedCopy
<1>2. IsMessage(copy)
  BY CopyKeeps DEF Named, IsElement
<1> HIDE DEF copy
<1>3. /\ DOMAIN copy = Nodes(copy) /\ Len(copy) \in Nat
      /\ \A i \in Nodes(copy) : IsNode(copy[i])
  BY <1>2, NodesOfSequences DEF IsMessage, IsDocument, Nodes
<1>4. ASSUME NEW i \in Nodes(copy)
      PROVE  /\ IsNode(renamed[i]) /\ renamed[i].size = copy[i].size
             /\ renamed[i].tag = copy[i].tag
  <2> DEFINE texted == [copy[i] EXCEPT !.text = name]
             ided == [copy[i] EXCEPT !.id = id]
  <2>1. /\ IsNode(texted) /\ texted.size = copy[i].size /\ texted.tag = copy[i].tag
        /\ IsNode(ided) /\ ided.size = copy[i].size /\ ided.tag = copy[i].tag
    BY <1>3, NodeChanged
  <2>2. renamed[i] = IF copy[i].tag = "NameID" THEN texted
                     ELSE IF i = Root THEN ided ELSE copy[i]
    BY <1>3
  <2> HIDE DEF renamed, texted, ided
  <2> QED BY <1>3, <2>1, <2>2
<1>5. renamed = [i \in Nodes(copy) |-> renamed[i]]
  BY <1>3
<1> HIDE DEF renamed
<1>6. IsMessage(renamed)
  BY <1>2, <1>4, <1>5, RelabelKeeps
<1>7. ASSUME sigs # {} PROVE First(sigs) \in Nodes(renamed) /\ First(sigs) # Root
  <2>1. IsDocument(renamed) /\ Root \in Nodes(renamed)
    BY <1>6 DEF IsMessage, IsDocument, Nodes, Root
  <2>2. sigs \in SUBSET Nodes(renamed)
    BY <2>1, NodeSets
  <2>3. First(sigs) \in sigs
    BY <1>7, <2>1, <2>2, FirstOfNodes
  <2>4. First(sigs) \in Nodes(renamed) /\ Root < First(sigs)
    BY <2>1, <2>3, ChildFollows
  <2> QED BY <2>4 DEF Root
<1> HIDE DEF sigs
<1> QED BY <1>1, <1>6, <1>7, DeleteKeeps

-----------------------------------------------------------------------------
(* Detect's invariant, of a document an alteration can be made of. *)
EInv == IInv /\ MadeOfNodes(doc)

(* What arrives is a document that consists of nodes. *)
LEMMA AlteredDocuments ==
  ASSUME EInv, NEW d, Editing, Edited(d), IsMessage(d)
  PROVE  EInv'
<1>1. /\ doc' = d /\ pc' = pc /\ pending' = pending /\ flags' = flags
      /\ signed_assertion_ids' = signed_assertion_ids
      /\ response_is_signed' = response_is_signed
  BY DEF Edited
<1>2. /\ pc = "structure" /\ flags = {} /\ signed_assertion_ids = {}
      /\ response_is_signed = FALSE /\ pending = {}
  BY DEF EInv, IInv, LoopInv, Editing
<1>3. TypeOK'
  BY <1>1, <1>2 DEF TypeOK, IsMessage
<1>4. LoopInv'
  BY <1>1, <1>2 DEF LoopInv
<1> QED BY <1>1, <1>3, <1>4 DEF EInv, IInv, IsMessage

LEMMA EInvMessage ==
  ASSUME EInv
  PROVE  /\ IsMessage(doc) /\ IsDocument(doc) /\ Root \in Nodes(doc) /\ Len(doc) \in Nat
         /\ \A i \in Nodes(doc) : IsNode(doc[i])
<1>1. IsMessage(doc) /\ IsDocument(doc)
  BY DEF EInv, IInv, TypeOK, IsMessage
<1>2. Root \in Nodes(doc) /\ Len(doc) \in Nat
  BY <1>1 DEF IsDocument, Nodes, Root
<1> QED BY <1>1, <1>2, NodesOfSequences DEF IsMessage, Nodes

LEMMA WrapPreserves == EInv /\ Wrap => EInv'
<1> SUFFICES ASSUME EInv, Wrap PROVE EInv'
  OBVIOUS
<1>1. IsMessage(Response("r1", doc))
  BY EInvMessage, ResponseKeeps
<1> QED BY <1>1, AlteredDocuments DEF Wrap

LEMMA LiftPreserves == EInv /\ Lift => EInv'
<1> SUFFICES ASSUME EInv, Lift PROVE EInv'
  OBVIOUS
<1>1. PICK a \in Named(doc, "Assertion") \ {Root} : Edited(Copy(doc, a))
  BY DEF Lift
<1>2. IsMessage(Copy(doc, a))
  BY EInvMessage, CopyKeeps DEF Named, IsElement
<1> QED BY <1>1, <1>2, AlteredDocuments DEF Lift

LEMMA RewritePreserves == EInv /\ Rewrite => EInv'
<1> SUFFICES ASSUME EInv, Rewrite PROVE EInv'
  OBVIOUS
<1>1. PICK n \in Named(doc, "NameID"), name \in Names \ {NoText} :
        Edited([doc EXCEPT ![n].text = name])
  BY DEF Rewrite
<1>2. n \in Nodes(doc)
  BY DEF Named
<1> DEFINE x == [doc[n] EXCEPT !.text = name]
<1>3. IsNode(x) /\ x.size = doc[n].size /\ x.tag = doc[n].tag
  BY <1>2, EInvMessage, NodeChanged
<1>4. [doc EXCEPT ![n].text = name] = [doc EXCEPT ![n] = x]
  OBVIOUS
<1> HIDE DEF x
<1>5. IsMessage([doc EXCEPT ![n].text = name])
  BY <1>2, <1>3, <1>4, EInvMessage, NodeEdited
<1> QED BY <1>1, <1>5, AlteredDocuments DEF Rewrite

LEMMA DuplicatePreserves == EInv /\ Duplicate => EInv'
<1> SUFFICES ASSUME EInv, Duplicate PROVE EInv'
  OBVIOUS
<1>1. PICK a \in Named(doc, "Assertion"), id \in {"a1", "a2"}, name \in Names :
        \E p \in Parents(doc, a), at \in {a, a + doc[a].size} :
          Edited(Insert(doc, p, at, UnsignedCopy(doc, a, id, name)))
  BY DEF Duplicate
<1>2. PICK p \in Parents(doc, a), at \in {a, a + doc[a].size} :
        Edited(Insert(doc, p, at, UnsignedCopy(doc, a, id, name)))
  BY <1>1
<1> DEFINE copy == UnsignedCopy(doc, a, id, name)
<1>3. IsTree(copy)
  BY EInvMessage, UnsignedCopyKeeps, MessagesAreTrees
<1> HIDE DEF copy
<1>4. IsDocument(doc) /\ a \in Nodes(doc) /\ Nested(doc, Len(doc)) /\ IsMessage(doc)
      /\ Nodes(doc) = 1 .. Len(doc) /\ Len(doc) \in Nat
  BY EInvMessage, MessagesAreTrees DEF Named, IsTree, Nodes
<1>5. p \in Nodes(doc) /\ a \in Children(doc, p) /\ a \in Subtree(doc, p) /\ p # a
  BY <1>4, ParentAndChild DEF Parents, Ancestors
<1>6. /\ \A j \in 1 .. Len(doc) : doc[j].size \in Nat \ {0}
      /\ \A j \in 1 .. Len(doc) : doc[j].tag = "comment" => doc[j].size = 1
      /\ \A j \in 1 .. Len(doc), k \in 1 .. Len(doc) :
           j < k /\ k < j + doc[j].size => k + doc[k].size <= j + doc[j].size
  BY <1>4 DEF Nested
<1>7. p < a /\ a < p + doc[p].size /\ a + doc[a].size <= p + doc[p].size
  <2>1. p < a /\ a < p + doc[p].size
    BY <1>4, <1>5, <1>6 DEF Subtree
  <2> QED BY <1>4, <1>5, <1>6, <2>1
<1>8. IsElement(doc, p)
  BY <1>4, <1>5, <1>6, <1>7 DEF IsElement
<1>9. at \in Int /\ p < at /\ at <= p + doc[p].size
  BY <1>4, <1>5, <1>6, <1>7
<1>10. ASSUME NEW i \in Nodes(doc), i < at, at < i + doc[i].size
       PROVE  p \in Subtree(doc, i)
  <2>1. i \in Int /\ a \in Int /\ doc[a].size \in Int /\ doc[i].size \in Int
    BY <1>4, <1>6
  <2>2. i < a
    <3> SUFFICES ASSUME a <= i PROVE FALSE
      BY <2>1
    <3>1. at = a + doc[a].size /\ a # i /\ i < a + doc[a].size
      BY <1>6, <1>10, <2>1
    <3>2. i + doc[i].size <= a + doc[a].size
      BY <1>4, <1>6, <2>1, <3>1
    <3> QED BY <1>10, <2>1, <3>1, <3>2
  <2>3. a < i + doc[i].size
    BY <1>4, <1>6, <1>10, <2>1, <2>2
  <2>4. a \in Subtree(doc, i)
    BY <2>1, <2>2, <2>3 DEF Subtree
  <2> QED BY <1>4, <1>5, <2>1, <2>2, <2>4, AboveTheParent
<1>11. IsMessage(Insert(doc, p, at, copy))
  BY <1>3, <1>4, <1>5, <1>8, <1>9, <1>10, InsertKeeps
<1> QED BY <1>2, <1>11, AlteredDocuments DEF Duplicate, copy

LEMMA SplicedMessage ==
  ASSUME EInv, NEW n \in Named(doc, "NameID")
  PROVE  IsMessage(Insert(doc, n, n + 1, Comment))
<1>1. /\ IsMessage(doc) /\ n \in Nodes(doc) /\ IsElement(doc, n)
      /\ Nested(doc, Len(doc)) /\ Nodes(doc) = 1 .. Len(doc) /\ Len(doc) \in Nat
  BY EInvMessage, MessagesAreTrees DEF Named, IsTree, Nodes, IsElement
<1>2. \A i \in Nodes(doc) : doc[i].size \in Nat \ {0}
  BY <1>1 DEF Nested
<1>3. n + 1 \in Int /\ n < n + 1 /\ n + 1 <= n + doc[n].size
  BY <1>1, <1>2
<1>4. \A i \in Nodes(doc) :
        i < n + 1 /\ n + 1 < i + doc[i].size => n \in Subtree(doc, i)
  BY <1>1, <1>2 DEF Subtree
<1> QED BY <1>1, <1>3, <1>4, CommentIsTree, InsertKeeps

LEMMA SplicePreserves == EInv /\ Splice => EInv'
<1> SUFFICES ASSUME EInv, Splice PROVE EInv'
  OBVIOUS
<1>1. PICK n \in Named(doc, "NameID") : Edited(Insert(doc, n, n + 1, Comment))
  BY DEF Splice
<1> QED BY <1>1, SplicedMessage, AlteredDocuments DEF Splice

LEMMA StripPreserves == EInv /\ Strip => EInv'
<1> SUFFICES ASSUME EInv, Strip PROVE EInv'
  OBVIOUS
<1>1. PICK s \in Named(doc, "Signature") \ {Root} : Edited(Delete(doc, s))
  BY DEF Strip
<1>2. IsMessage(Delete(doc, s))
  BY EInvMessage, DeleteKeeps DEF Named
<1> QED BY <1>1, <1>2, AlteredDocuments DEF Strip

(* A signature's content is replaced. *)
LEMMA SigEdited ==
  ASSUME EInv, NEW s \in Nodes(doc), NEW new
  PROVE  IsMessage([doc EXCEPT ![s].sig = new])
<1> DEFINE x == [doc[s] EXCEPT !.sig = new]
<1>1. IsNode(x) /\ x.size = doc[s].size /\ x.tag = doc[s].tag
  BY EInvMessage, NodeChanged
<1>2. [doc EXCEPT ![s].sig = new] = [doc EXCEPT ![s] = x]
  OBVIOUS
<1> HIDE DEF x
<1> QED BY <1>1, <1>2, EInvMessage, NodeEdited

LEMMA RedigestPreserves == EInv /\ Redigest => EInv'
<1> SUFFICES ASSUME EInv, Redigest PROVE EInv'
  OBVIOUS
<1>1. PICK s \in Named(doc, "Signature") : Edited(Digested(doc, s))
  BY DEF Redigest
<1>2. \E new : Digested(doc, s) = [doc EXCEPT ![s].sig = new]
  BY DEF Digested
<1>3. IsMessage(Digested(doc, s))
  BY <1>2, SigEdited DEF Named
<1> QED BY <1>1, <1>3, AlteredDocuments DEF Redigest

LEMMA ResignPreserves == EInv /\ Resign => EInv'
<1> SUFFICES ASSUME EInv, Resign PROVE EInv'
  OBVIOUS
<1>1. PICK s \in Named(doc, "Signature") : Edited(Signed(doc, s, "other"))
  BY DEF Resign
<1>2. \E new : Signed(doc, s, "other") = [doc EXCEPT ![s].sig = new]
  BY DEF Signed
<1>3. IsMessage(Signed(doc, s, "other"))
  BY <1>2, SigEdited DEF Named
<1> QED BY <1>1, <1>3, AlteredDocuments DEF Resign

LEMMA AnalyzePreserves == EInv /\ ([Next]_vars) => EInv'
<1> SUFFICES ASSUME EInv, [Next]_vars PROVE EInv'
  OBVIOUS
<1>1. IInv'
  BY TypeNext, LoopNext DEF EInv, IInv
<1>2. doc' = doc
  BY DEF Next, Structure, VisitSignature, Close, vars
<1> QED BY <1>1, <1>2 DEF EInv

LEMMA AlterationsPreserve == EInv /\ [ForensicsNext]_allvars => EInv'
<1>1. EInv /\ UNCHANGED allvars => EInv'
  BY AnalyzePreserves DEF allvars
<1>2. EInv /\ Analyze => EInv'
  BY AnalyzePreserves DEF Analyze
<1> QED
  BY <1>1, <1>2, WrapPreserves, LiftPreserves, RewritePreserves, DuplicatePreserves,
     SplicePreserves, StripPreserves, RedigestPreserves, ResignPreserves
     DEF ForensicsNext

LEMMA IssuedEstablish == ForensicsInit => EInv
<1> SUFFICES ASSUME ForensicsInit PROVE EInv
  OBVIOUS
<1>1. Init /\ MadeOfNodes(doc)
  BY ForensicsAssumption DEF ForensicsInit, Init
<1> QED BY <1>1, TypeInit, LoopInit DEF EInv, IInv

(* The subject decode() shows is the text of NameID elements. *)
LEMMA SubjectsAreNameIDs ==
  ASSUME NEW d, IsDocument(d), NEW n \in SubjectNodes(d)
  PROVE  n \in Named(d, "NameID")
<1> DEFINE U == FirstChild(d, FirstAssertion(d), "Subject")
<1>1. FirstAssertion(d) \in SUBSET Nodes(d)
  BY NodeSets, FirstOfNodes DEF FirstAssertion
<1>2. \A u \in U : \E p \in FirstAssertion(d) : u \in Children(d, p)
  BY <1>1, FirstChildIsChild
<1>3. U \in SUBSET Nodes(d)
  BY <1>1, <1>2, NodeSets DEF Children
<1>4. n \in FirstChild(d, U, "NameID")
  BY DEF SubjectNodes
<1> HIDE DEF U
<1>5. PICK p \in U : n \in Children(d, p) /\ d[n].tag = "NameID"
  BY <1>3, <1>4, FirstChildIsChild
<1> QED BY <1>3, <1>5, NodeSets DEF Children, Named

LEMMA SplitIsFlagged == EInv => SplitSubjectsAreFlagged
<1> SUFFICES ASSUME EInv, pc = "done",
                    NEW n \in SubjectNodes(doc), HasCommentChild(doc, n)
             PROVE  "nameid-comment-splitting" \in flags
  BY DEF SplitSubjectsAreFlagged
<1>1. n \in Named(doc, "NameID") /\ "NameID" \in TextElements
  BY EInvMessage, SubjectsAreNameIDs DEF TextElements
<1>2. "nameid-comment-splitting" \in StructureFlags(doc)
  BY <1>1 DEF StructureFlags, FlagIf
<1>3. StructureFlags(doc) \subseteq flags
  BY DEF EInv, IInv, LoopInv, FlagsOf
<1> QED BY <1>2, <1>3

-----------------------------------------------------------------------------
(* The References of a message with one comment more resolve to the same    *)
(* elements and check as before.                                            *)
LEMMA TargetsMoved ==
  ASSUME NEW d, NEW n, NEW e, Spliced(d, n, e), NEW r
  PROVE  Target(e, r) = MovedAll(n, Target(d, r)) /\ Target(d, r) \in SUBSET Nodes(d)
<1>1. CASE r.id = NoId
  <2>1. n \in Nat /\ n >= 1 /\ Root \in Nodes(d) /\ Root = 1
    BY DEF Spliced, IsDocument, Nodes, Root
  <2>2. Moved(n, Root) = Root
    BY <2>1 DEF Moved
  <2> QED BY <1>1, <2>1, <2>2 DEF Target, MovedAll
<1>2. CASE r.id # NoId
  <2> DEFINE S == ElementsById(d, r.id)
  <2>1. S \in SUBSET Nodes(d) /\ S \in SUBSET Nat /\ FirstOf(S) \subseteq S /\ n \in Nat
    <3>1. IsDocument(d) /\ n \in Nat
      BY SplicedNodes DEF Spliced
    <3>2. S \in SUBSET Nodes(d)
      BY <3>1, NodeSets
    <3> HIDE DEF S
    <3> QED BY <3>1, <3>2, FirstOfNodes
  <2>2. ElementsById(e, r.id) = MovedAll(n, S)
    BY IdsMoved
  <2> HIDE DEF S
  <2>3. FirstOf(MovedAll(n, S)) = MovedAll(n, FirstOf(S))
    BY <2>1, FirstsMoved
  <2>4. Target(d, r) = FirstOf(S) /\ Target(e, r) = FirstOf(MovedAll(n, S))
    BY <1>2, <2>2 DEF Target, S
  <2> QED BY <2>1, <2>3, <2>4
<1> QED BY <1>1, <1>2

LEMMA ReferencesMoved ==
  ASSUME NEW d, NEW n, NEW e, Spliced(d, n, e), NEW s \in Nodes(d), NEW r
  PROVE  ReferenceOk(e, Moved(n, s), r) <=> ReferenceOk(d, s, r)
<1>1. Target(e, r) = MovedAll(n, Target(d, r)) /\ Target(d, r) \in SUBSET Nodes(d)
  BY TargetsMoved
<1>2. Omitted(Moved(n, s), r) = MovedAll(n, Omitted(s, r)) /\ Omitted(s, r) \in SUBSET Nodes(d)
  BY DEF Omitted, MovedAll
<1>3. \A t \in Target(d, r) :
        Canon(e, Moved(n, t), Omitted(Moved(n, s), r)) = Canon(d, t, Omitted(s, r))
  BY <1>1, <1>2, CanonMoved
<1> QED BY <1>1, <1>3, Zenon DEF ReferenceOk, MovedAll

LEMMA VerdictMoved ==
  ASSUME NEW d, NEW n, NEW e, Spliced(d, n, e), NEW s \in Nodes(d)
  PROVE  /\ DigestOk(e, Moved(n, s)) = DigestOk(d, s)
         /\ SigValid(e, Moved(n, s)) = SigValid(d, s)
<1>1. e[Moved(n, s)].sig = d[s].sig
  BY DEF Spliced
<1>2. \A r : ReferenceOk(e, Moved(n, s), r) <=> ReferenceOk(d, s, r)
  BY ReferencesMoved
<1>3. Refs(e, Moved(n, s)) = Refs(d, s)
  BY <1>1 DEF Refs
<1>4. DigestOk(e, Moved(n, s)) = DigestOk(d, s)
  BY <1>2, <1>3, Zenon DEF DigestOk, RefIndices
<1>5. SigValid(e, Moved(n, s)) = SigValid(d, s)
  BY <1>1, Zenon DEF SigValid, C14nOk
<1> QED BY <1>4, <1>5

-----------------------------------------------------------------------------
(* Splice does just this. *)
LEMMA CommentSplices ==
  ASSUME NEW d, IsMessage(d), NEW n \in Nodes(d),
         IsMessage(Insert(d, n, n + 1, Comment))
  PROVE  Spliced(d, n, Insert(d, n, n + 1, Comment))
<1> DEFINE e == Insert(d, n, n + 1, Comment)
           g == Grown(d, n, 1)
           L == Len(d)
<1>1. /\ IsTree(d) /\ IsDocument(d) /\ IsDocument(e) /\ L \in Nat
      /\ Nodes(d) = 1 .. L /\ n \in 1 .. L
  BY MessagesAreTrees DEF IsMessage, IsTree, Nodes
<1>2. IsTree(Comment) /\ Len(Comment) = 1 /\ Comment[1].tag = "comment"
  BY CommentIsTree DEF Comment, Leaf, Tree, Node
<1>3. /\ Len(e) = L + 1
      /\ \A i \in 1 .. L : i < n + 1 => e[i] = g[i]
      /\ \A i \in 1 .. L : n + 1 <= i => e[i + 1] = g[i]
      /\ e[n + 1] = Comment[1]
  <2> HIDE DEF Comment
  <2>1. n + 1 \in 1 .. L + 1 /\ n + 1 - 1 + 1 = n + 1
    BY <1>1
  <2> SUFFICES ASSUME NEW at, at = n + 1, NEW x, x = Insert(d, n, at, Comment)
               PROVE  /\ Len(x) = L + 1
                      /\ \A i \in 1 .. L : i < at => x[i] = g[i]
                      /\ \A i \in 1 .. L : at <= i => x[i + 1] = g[i]
                      /\ x[at] = Comment[1]
    OBVIOUS
  <2> HIDE DEF e, g
  <2>2. /\ Len(x) = L + Len(Comment)
        /\ \A i \in 1 .. L : i < at => x[i] = Grown(d, n, Len(Comment))[i]
        /\ \A i \in 1 .. L :
             at <= i => x[i + Len(Comment)] = Grown(d, n, Len(Comment))[i]
        /\ \A i \in 1 .. Len(Comment) : x[at - 1 + i] = Comment[i]
    <3> DEFINE c == Comment
    <3>1. at \in 1 .. Len(d) + 1 /\ IsTree(c) /\ IsTree(d) /\ n \in Nodes(d)
      BY <1>1, <1>2, <2>1
    <3>2. x = Insert(d, n, at, c)
      OBVIOUS
    <3> HIDE DEF c
    <3>3. /\ Len(x) = Len(d) + Len(c)
          /\ \A i \in 1 .. Len(d) : i < at => x[i] = Grown(d, n, Len(c))[i]
          /\ \A i \in 1 .. Len(d) : at <= i => x[i + Len(c)] = Grown(d, n, Len(c))[i]
          /\ \A i \in 1 .. Len(c) : x[at - 1 + i] = c[i]
      <4> DEFINE y == Insert(d, n, at, c)
      <4>1. /\ Len(y) = Len(d) + Len(c)
            /\ \A i \in 1 .. Len(d) : i < at => y[i] = Grown(d, n, Len(c))[i]
            /\ \A i \in 1 .. Len(d) : at <= i => y[i + Len(c)] = Grown(d, n, Len(c))[i]
            /\ \A i \in 1 .. Len(c) : y[at - 1 + i] = c[i]
        BY <3>1, Inserted
      <4> HIDE DEF y
      <4> QED BY <3>2, <4>1 DEF y
    <3> QED BY <3>3 DEF c
  <2>3. x[at] = Comment[1]
    <3>1. at - 1 + 1 = at
      BY <1>1, <2>1
    <3> QED BY <1>2, <2>2, <3>1
  <2> QED BY <1>2, <2>2, <2>3 DEF g
<1>4. \A i \in Nodes(d) : e[Moved(n, i)] = g[i]
  BY <1>1, <1>3 DEF Moved
<1>5. ASSUME NEW i \in Nodes(d)
      PROVE  /\ g[i].tag = d[i].tag /\ g[i].id = d[i].id /\ g[i].sig = d[i].sig
             /\ g[i].size = IF n \in Subtree(d, i) THEN d[i].size + 1 ELSE d[i].size
             /\ \A c : [g[i] EXCEPT !.size = c] = [d[i] EXCEPT !.size = c]
  <2> DEFINE larger == [d[i] EXCEPT !.size = d[i].size + 1]
  <2>1. g[i] = IF n \in Subtree(d, i) THEN larger ELSE d[i]
    BY DEF Grown
  <2>2. IsNode(d[i])
    BY <1>1, NodesOfSequences DEF IsMessage
  <2>3. /\ larger.tag = d[i].tag /\ larger.id = d[i].id /\ larger.sig = d[i].sig
        /\ larger.size = d[i].size + 1
        /\ \A c : [larger EXCEPT !.size = c] = [d[i] EXCEPT !.size = c]
    BY <2>2 DEF IsNode, Node
  <2> DEFINE resized(x, c) == [x EXCEPT !.size = c]
  <2>4. \A c : resized(larger, c) = resized(d[i], c)
    BY <2>3
  <2>5. \A c : resized(g[i], c) = resized(d[i], c)
    <3> HIDE DEF g, larger, resized
    <3> QED BY <2>1, <2>4
  <2>6. /\ g[i].tag = d[i].tag /\ g[i].id = d[i].id /\ g[i].sig = d[i].sig
        /\ g[i].size = IF n \in Subtree(d, i) THEN d[i].size + 1 ELSE d[i].size
    <3> HIDE DEF g, larger
    <3> QED BY <2>1, <2>3
  <2> QED BY <2>5, <2>6
<1> HIDE DEF e, g
<1>6. e[n + 1].tag = "comment"
  BY <1>2, <1>3
<1>7. \A i \in Nodes(d) :
        /\ e[Moved(n, i)].tag = d[i].tag
        /\ e[Moved(n, i)].id = d[i].id
        /\ e[Moved(n, i)].sig = d[i].sig
        /\ e[Moved(n, i)].size = IF n \in Subtree(d, i) THEN d[i].size + 1 ELSE d[i].size
        /\ \A c : [e[Moved(n, i)] EXCEPT !.size = c] = [d[i] EXCEPT !.size = c]
  <2> SUFFICES ASSUME NEW i \in Nodes(d), NEW x, x = e[Moved(n, i)]
               PROVE  /\ x.tag = d[i].tag /\ x.id = d[i].id /\ x.sig = d[i].sig
                      /\ x.size = IF n \in Subtree(d, i) THEN d[i].size + 1
                                                       ELSE d[i].size
                      /\ \A c : [x EXCEPT !.size = c] = [d[i] EXCEPT !.size = c]
    BY Zenon
  <2>1. x = g[i]
    BY <1>4
  <2> QED BY <1>5, <2>1, Zenon
<1>8. Spliced(d, n, e)
  BY <1>1, <1>3, <1>6, <1>7, Zenon DEF Spliced
<1> QED BY <1>8 DEF e

LEMMA SameVerdicts ==
  ASSUME NEW d, NEW n, NEW e, Spliced(d, n, e)
  PROVE  Verdicts(e) = Verdicts(d)
<1> DEFINE S == Named(d, "Signature")
           T == Named(e, "Signature")
           V(x, A, s) ==
             <<Cardinality(Before(A, s)), DigestOk(x, s), SigValid(x, s)>>
<1>1. /\ n \in Nat /\ S \in SUBSET Nodes(d) /\ S \in SUBSET Nat /\ IsFiniteSet(S)
  <2>1. n \in Nat /\ IsDocument(d)
    BY SplicedNodes DEF Spliced
  <2>2. S \in SUBSET Nodes(d)
    BY DEF Named
  <2> HIDE DEF S
  <2> QED BY <2>1, <2>2, FirstOfNodes
<1>2. T = MovedAll(n, S)
  BY NamesMoved
<1>3. Verdicts(d) = {V(d, S, s) : s \in S} /\ Verdicts(e) = {V(e, T, s) : s \in T}
  BY DEF Verdicts, Before
<1> HIDE DEF S, T
<1>4. ASSUME NEW s \in S PROVE V(e, T, Moved(n, s)) = V(d, S, s)
  <2>1. Before(T, Moved(n, s)) = MovedAll(n, Before(S, s))
    BY <1>1, <1>2, BeforeMoved
  <2>2. Before(S, s) \in SUBSET Nat /\ IsFiniteSet(Before(S, s))
    BY <1>1, BeforeFinite DEF Before
  <2>3. Cardinality(Before(T, Moved(n, s))) = Cardinality(Before(S, s))
    BY <1>1, <2>1, <2>2, CountsMoved
  <2>4. /\ DigestOk(e, Moved(n, s)) = DigestOk(d, s)
        /\ SigValid(e, Moved(n, s)) = SigValid(d, s)
    BY <1>1, VerdictMoved
  <2> QED BY <2>3, <2>4, Zenon
<1> HIDE DEF V
<1>5. {V(e, T, s) : s \in T} = {V(d, S, s) : s \in S}
  <2>1. ASSUME NEW s \in S PROVE V(d, S, s) \in {V(e, T, t) : t \in T}
    <3>1. Moved(n, s) \in T
      BY <1>2 DEF MovedAll
    <3> QED BY <1>4, <3>1, Zenon
  <2>2. ASSUME NEW t \in T PROVE V(e, T, t) \in {V(d, S, s) : s \in S}
    <3>1. PICK s \in S : t = Moved(n, s)
      BY <1>2 DEF MovedAll
    <3> QED BY <1>4, <3>1, Zenon
  <2> QED BY <2>1, <2>2, Zenon
<1> QED BY <1>3, <1>5

LEMMA SpliceKeepsVerdicts == EInv /\ Splice => Verdicts(doc') = Verdicts(doc)
<1> SUFFICES ASSUME EInv, Splice PROVE Verdicts(doc') = Verdicts(doc)
  OBVIOUS
<1>1. PICK n \in Named(doc, "NameID") : Edited(Insert(doc, n, n + 1, Comment))
  BY DEF Splice
<1>2. doc' = Insert(doc, n, n + 1, Comment)
  BY <1>1 DEF Edited
<1>3. Spliced(doc, n, doc')
  BY <1>2, EInvMessage, SplicedMessage, CommentSplices DEF Named
<1> QED BY <1>3, SameVerdicts

-----------------------------------------------------------------------------
(* Every Signature of e holds what some Signature of d holds. *)
SigsAmong(e, d) ==
  \A i \in Nodes(e) : e[i].sig = NoSig \/ \E j \in Nodes(d) : e[i].sig = d[j].sig

LEMMA HonestAmong ==
  ASSUME NEW d, HonestlySigned(d), NEW e, SigsAmong(e, d)
  PROVE  HonestlySigned(e)
<1>1. VouchedSig(NoSig)
  BY DEF VouchedSig, NoSig, Sig, NoValue, NoKey
<1> QED BY <1>1 DEF HonestlySigned, SigsAmong

LEMMA InsertAmong ==
  ASSUME NEW d, IsTree(d), NEW f, IsTree(f), SigsAmong(f, d), NEW p \in Nodes(d),
         NEW at \in 1 .. Len(d) + 1
  PROVE  SigsAmong(Insert(d, p, at, f), d)
<1> DEFINE e == Insert(d, p, at, f)
           m == Len(f)
           L == Len(d)
           g == Grown(d, p, m)
<1>1. L \in Nat /\ m \in Nat /\ MadeOfNodes(d) /\ Nodes(d) = 1 .. L /\ Nodes(f) = 1 .. m
  BY DEF IsTree, Nodes
<1>2. ASSUME NEW i \in 1 .. L PROVE g[i].sig = d[i].sig
  <2> DEFINE larger == [d[i] EXCEPT !.size = d[i].size + m]
  <2>1. g[i] = IF p \in Subtree(d, i) THEN larger ELSE d[i]
    BY <1>1 DEF Grown
  <2>2. larger.sig = d[i].sig
    BY <1>1, NodesOfSequences, NodeChanged
  <2> HIDE DEF g, larger
  <2> QED BY <2>1, <2>2
<1>3. /\ Len(e) = L + m
      /\ \A i \in 1 .. L : i < at => e[i] = g[i]
      /\ \A i \in 1 .. L : at <= i => e[i + m] = g[i]
      /\ \A i \in 1 .. m : e[at - 1 + i] = f[i]
  BY Inserted
<1> HIDE DEF e, m, L, g
<1> SUFFICES ASSUME NEW k \in 1 .. L + m
             PROVE  e[k].sig = NoSig \/ \E j \in Nodes(d) : e[k].sig = d[j].sig
  BY <1>3 DEF SigsAmong, Nodes, e
<1>4. at \in Int /\ k \in Int /\ 1 <= at /\ at <= L + 1 /\ 1 <= k /\ k <= L + m
  BY <1>1 DEF L
<1>5. CASE k < at
  <2>1. k \in 1 .. L
    BY <1>1, <1>4, <1>5
  <2>2. e[k] = g[k] /\ g[k].sig = d[k].sig
    BY <1>2, <1>3, <1>5, <2>1
  <2> QED BY <1>1, <2>1, <2>2
<1>6. CASE at <= k /\ k < at + m
  <2> SUFFICES ASSUME NEW i \in 1 .. m, i = k - at + 1, e[k] = f[i]
               PROVE  e[k].sig = NoSig \/ \E j \in Nodes(d) : e[k].sig = d[j].sig
    <3>1. k - at + 1 \in 1 .. m /\ at - 1 + (k - at + 1) = k
      BY <1>1, <1>4, <1>6
    <3> QED BY <1>3, <3>1
  <2> QED BY <1>1 DEF SigsAmong
<1>7. CASE at + m <= k
  <2> SUFFICES ASSUME NEW i \in 1 .. L, e[k] = g[i]
               PROVE  e[k].sig = NoSig \/ \E j \in Nodes(d) : e[k].sig = d[j].sig
    <3>1. k - m \in 1 .. L /\ at <= k - m /\ (k - m) + m = k
      BY <1>1, <1>4, <1>7
    <3> QED BY <1>3, <3>1
  <2> QED BY <1>1, <1>2
<1> QED BY <1>1, <1>4, <1>5, <1>6, <1>7

LEMMA DeleteAmong ==
  ASSUME NEW d, IsMessage(d), NEW i \in Nodes(d)
  PROVE  SigsAmong(Delete(d, i), d)
<1> DEFINE e == Delete(d, i)
           n == d[i].size
           L == Len(d)
           cut == Shrunk(d, i)
<1>1. /\ L \in Nat /\ IsTree(d) /\ MadeOfNodes(d) /\ Nodes(d) = 1 .. L
      /\ n \in Nat \ {0} /\ i + n <= L + 1
  BY MessagesAreTrees DEF IsTree, Nested, Nodes
<1>2. ASSUME NEW j \in 1 .. L PROVE cut[j].sig = d[j].sig
  <2> DEFINE smaller == [d[j] EXCEPT !.size = d[j].size - n]
  <2>1. cut[j] = IF i \in Subtree(d, j) /\ j # i THEN smaller ELSE d[j]
    BY <1>1 DEF Shrunk
  <2>2. smaller.sig = d[j].sig
    BY <1>1, NodesOfSequences, NodeChanged
  <2> HIDE DEF cut, smaller
  <2> QED BY <2>1, <2>2
<1>3. /\ Len(e) = L - n
      /\ \A j \in 1 .. L : j < i => e[j] = cut[j]
      /\ \A j \in 1 .. L : i + n <= j => e[j - n] = cut[j]
  BY <1>1, Deleted
<1> HIDE DEF e, n, L, cut
<1> SUFFICES ASSUME NEW k \in 1 .. L - n
             PROVE  \E j \in Nodes(d) : e[k].sig = d[j].sig
  BY <1>3 DEF SigsAmong, Nodes, e
<1>4. i \in 1 .. L
  BY <1>1
<1>5. CASE k < i
  BY <1>1, <1>2, <1>3, <1>4, <1>5
<1>6. CASE i <= k
  <2> SUFFICES ASSUME NEW j \in 1 .. L, e[k] = cut[j]
               PROVE  \E x \in Nodes(d) : e[k].sig = d[x].sig
    <3>1. k + n \in 1 .. L /\ i + n <= k + n /\ (k + n) - n = k
      BY <1>1, <1>4, <1>6
    <3> QED BY <1>3, <3>1
  <2> QED BY <1>1, <1>2
<1> QED BY <1>1, <1>4, <1>5, <1>6

LEMMA CopyAmong ==
  ASSUME NEW d, IsMessage(d), NEW i \in Nodes(d)
  PROVE  SigsAmong(Copy(d, i), d)
<1> DEFINE n == d[i].size
           L == Len(d)
           S == {d[j] : j \in 1 .. L}
           e == Copy(d, i)
<1>1. /\ L \in Nat /\ Nodes(d) = 1 .. L /\ i \in 1 .. L
      /\ n \in Nat \ {0} /\ i + n <= L + 1
  BY MessagesAreTrees DEF IsTree, Nested, Nodes
<1>2. \A j \in i .. i + n - 1 : d[j] \in S
  BY <1>1
<1>3. e = SubSeq(d, i, i + n - 1)
  BY DEF Copy
<1> HIDE DEF n, L, S, e
<1>4. e \in Seq(S)
  BY <1>1, <1>2, <1>3, SubSeqProperties
<1>5. \A k \in Nodes(e) : e[k] \in S
  BY <1>4 DEF Nodes
<1> QED BY <1>1, <1>5 DEF SigsAmong, S, e

LEMMA ResponseAmong ==
  ASSUME NEW d, IsMessage(d), NEW id
  PROVE  SigsAmong(Response(id, d), d)
<1> DEFINE L == Len(d)
           x == Node("Response", 1 + L, id, NoText, NoSig)
           S == {x} \cup {d[i] : i \in 1 .. L}
           e == Response(id, d)
<1>1. L \in Nat /\ MadeOfNodes(d) /\ Nodes(d) = 1 .. L
  BY DEF IsMessage, IsDocument, Nodes
<1>2. e = <<x>> \o d
  BY DEF Response, Tree
<1>3. d \in Seq(S)
  <2>1. d \in Seq({d[i] : i \in 1 .. L})
    BY <1>1, NodesOfSequences
  <2> QED BY <2>1, SeqMonotonic
<1>4. x \in S /\ x.sig = NoSig
  BY DEF Node
<1> HIDE DEF x, S, e
<1>5. e \in Seq(S)
  <2>1. <<x>> \in Seq(S)
    BY <1>4
  <2> QED BY <1>2, <1>3, <2>1, ConcatProperties
<1>6. \A k \in Nodes(e) : e[k] \in S
  BY <1>5 DEF Nodes
<1> QED BY <1>1, <1>4, <1>6 DEF SigsAmong, S, e

LEMMA UnsignedCopyAmong ==
  ASSUME NEW d, IsMessage(d), NEW a \in Named(d, "Assertion"), NEW id, NEW name
  PROVE  SigsAmong(UnsignedCopy(d, a, id, name), d)
<1> DEFINE copy == Copy(d, a)
           renamed == [i \in DOMAIN copy |->
                         IF copy[i].tag = "NameID" THEN [copy[i] EXCEPT !.text = name]
                         ELSE IF i = Root THEN [copy[i] EXCEPT !.id = id] ELSE copy[i]]
           sigs == ChildrenNamed(renamed, Root, "Signature")
<1>1. UnsignedCopy(d, a, id, name) =
        IF sigs = {} THEN renamed ELSE Delete(renamed, First(sigs))
  BY DEF UnsignedCopy
<1>2. IsMessage(copy) /\ SigsAmong(copy, d)
  BY CopyKeeps, CopyAmong DEF Named, IsElement
<1> HIDE DEF copy
<1>3. /\ DOMAIN copy = Nodes(copy) /\ Len(copy) \in Nat
      /\ \A i \in Nodes(copy) : IsNode(copy[i])
  BY <1>2, NodesOfSequences DEF IsMessage, IsDocument, Nodes
<1>4. ASSUME NEW i \in Nodes(copy)
      PROVE  /\ IsNode(renamed[i]) /\ renamed[i].size = copy[i].size
             /\ renamed[i].tag = copy[i].tag /\ renamed[i].sig = copy[i].sig
  <2> DEFINE texted == [copy[i] EXCEPT !.text = name]
             ided == [copy[i] EXCEPT !.id = id]
  <2>1. /\ IsNode(texted) /\ texted.size = copy[i].size /\ texted.tag = copy[i].tag
        /\ texted.sig = copy[i].sig
        /\ IsNode(ided) /\ ided.size = copy[i].size /\ ided.tag = copy[i].tag
        /\ ided.sig = copy[i].sig
    BY <1>3, NodeChanged
  <2>2. renamed[i] = IF copy[i].tag = "NameID" THEN texted
                     ELSE IF i = Root THEN ided ELSE copy[i]
    BY <1>3
  <2> HIDE DEF renamed, texted, ided
  <2> QED BY <1>3, <2>1, <2>2
<1>5. renamed = [i \in Nodes(copy) |-> renamed[i]]
  BY <1>3
<1> HIDE DEF renamed
<1>6. IsMessage(renamed)
  BY <1>2, <1>4, <1>5, RelabelKeeps
<1>7. ASSUME sigs # {} PROVE First(sigs) \in Nodes(renamed)
  <2>1. IsDocument(renamed) /\ Root \in Nodes(renamed)
    BY <1>6 DEF IsMessage, IsDocument, Nodes, Root
  <2>2. sigs \in SUBSET Nodes(renamed)
    BY <2>1, NodeSets
  <2> QED BY <1>7, <2>1, <2>2, FirstOfNodes
<1> HIDE DEF sigs
<1>8. Nodes(renamed) = Nodes(copy)
  <2>1. Len(renamed) = Len(copy)
    BY <1>3, <1>5 DEF Nodes
  <2> QED BY <2>1 DEF Nodes
<1>9. SigsAmong(renamed, d)
  BY <1>2, <1>4, <1>8 DEF SigsAmong
<1>10. sigs # {} => SigsAmong(Delete(renamed, First(sigs)), renamed)
  BY <1>6, <1>7, DeleteAmong
<1>11. sigs # {} => SigsAmong(Delete(renamed, First(sigs)), d)
  BY <1>9, <1>10 DEF SigsAmong
<1> QED BY <1>1, <1>9, <1>11

-----------------------------------------------------------------------------
(* Detect's invariant, of a message whose signatures by the identity        *)
(* provider are honest.                                                     *)
TInv == EInv /\ HonestlySigned(doc)

LEMMA WrapHonest == TInv /\ Wrap => HonestlySigned(doc')
<1> SUFFICES ASSUME TInv, Wrap PROVE HonestlySigned(doc')
  OBVIOUS
<1>1. doc' = Response("r1", doc)
  BY DEF Wrap, Edited
<1>2. SigsAmong(Response("r1", doc), doc)
  BY EInvMessage, ResponseAmong DEF TInv
<1> QED BY <1>1, <1>2, HonestAmong DEF TInv

LEMMA LiftHonest == TInv /\ Lift => HonestlySigned(doc')
<1> SUFFICES ASSUME TInv, Lift PROVE HonestlySigned(doc')
  OBVIOUS
<1>1. PICK a \in Nodes(doc) : doc' = Copy(doc, a)
  BY DEF Lift, Edited, Named
<1>2. SigsAmong(Copy(doc, a), doc)
  BY EInvMessage, CopyAmong DEF TInv
<1> QED BY <1>1, <1>2, HonestAmong DEF TInv

LEMMA StripHonest == TInv /\ Strip => HonestlySigned(doc')
<1> SUFFICES ASSUME TInv, Strip PROVE HonestlySigned(doc')
  OBVIOUS
<1>1. PICK s \in Nodes(doc) : doc' = Delete(doc, s)
  BY DEF Strip, Edited, Named
<1>2. SigsAmong(Delete(doc, s), doc)
  BY EInvMessage, DeleteAmong DEF TInv
<1> QED BY <1>1, <1>2, HonestAmong DEF TInv

LEMMA SpliceHonest == TInv /\ Splice => HonestlySigned(doc')
<1> SUFFICES ASSUME TInv, Splice PROVE HonestlySigned(doc')
  OBVIOUS
<1>1. PICK n \in Nodes(doc) : doc' = Insert(doc, n, n + 1, Comment)
  BY DEF Splice, Edited, Named
<1> DEFINE c == Comment
<1>2. SigsAmong(c, doc)
  <2>1. Len(c) = 1 /\ c[1].sig = NoSig
    BY DEF Comment, Leaf, Tree, Node
  <2> HIDE DEF c
  <2> QED BY <2>1 DEF SigsAmong, Nodes
<1>3. IsTree(c) /\ IsTree(doc) /\ n + 1 \in 1 .. Len(doc) + 1
  <2>1. IsTree(c) /\ IsTree(doc) /\ Len(doc) \in Nat
    BY EInvMessage, MessagesAreTrees, CommentIsTree DEF TInv
  <2> QED BY <2>1 DEF Nodes
<1> HIDE DEF c
<1>4. SigsAmong(Insert(doc, n, n + 1, c), doc)
  BY <1>2, <1>3, InsertAmong
<1> QED BY <1>1, <1>4, HonestAmong DEF TInv, c

LEMMA DuplicateHonest == TInv /\ Duplicate => HonestlySigned(doc')
<1> SUFFICES ASSUME TInv, Duplicate PROVE HonestlySigned(doc')
  OBVIOUS
<1>1. PICK a \in Named(doc, "Assertion"), id \in {"a1", "a2"}, name \in Names :
        \E p \in Parents(doc, a), at \in {a, a + doc[a].size} :
          Edited(Insert(doc, p, at, UnsignedCopy(doc, a, id, name)))
  BY DEF Duplicate
<1>2. PICK p \in Parents(doc, a), at \in {a, a + doc[a].size} :
        doc' = Insert(doc, p, at, UnsignedCopy(doc, a, id, name))
  BY <1>1 DEF Edited
<1> DEFINE copy == UnsignedCopy(doc, a, id, name)
<1>3. IsTree(copy) /\ SigsAmong(copy, doc)
  BY EInvMessage, UnsignedCopyKeeps, MessagesAreTrees, UnsignedCopyAmong DEF TInv
<1> HIDE DEF copy
<1>4. IsTree(doc) /\ p \in Nodes(doc) /\ at \in 1 .. Len(doc) + 1
  <2>1. IsTree(doc) /\ Len(doc) \in Nat /\ a \in 1 .. Len(doc)
    BY EInvMessage, MessagesAreTrees DEF TInv, Named, Nodes
  <2>2. doc[a].size \in Nat \ {0} /\ a + doc[a].size <= Len(doc) + 1
    BY <2>1 DEF IsTree, Nested
  <2>3. at \in 1 .. Len(doc) + 1
    BY <2>1, <2>2
  <2> QED BY <2>1, <2>3 DEF Parents, Ancestors
<1>5. SigsAmong(Insert(doc, p, at, copy), doc)
  BY <1>3, <1>4, InsertAmong
<1> QED BY <1>2, <1>5, HonestAmong DEF TInv, copy

(* One Signature's content is replaced. *)
LEMMA NodeHonest ==
  ASSUME TInv, NEW n \in Nodes(doc), NEW x, VouchedSig(x.sig)
  PROVE  HonestlySigned([doc EXCEPT ![n] = x])
<1> DEFINE e == [doc EXCEPT ![n] = x]
<1>1. doc = [i \in Nodes(doc) |-> doc[i]]
  BY DEF TInv, EInv, MadeOfNodes
<1>2. Len(doc) \in Nat
  BY EInvMessage DEF TInv
<1>3. e = [i \in 1 .. Len(doc) |-> IF i = n THEN x ELSE doc[i]]
  BY <1>1 DEF Nodes
<1>4. Nodes(e) = Nodes(doc)
  BY <1>2, <1>3 DEF Nodes
<1>5. \A i \in Nodes(doc) : e[i] = IF i = n THEN x ELSE doc[i]
  BY <1>3 DEF Nodes
<1> HIDE DEF e
<1>6. \A i \in Nodes(doc) : VouchedSig(e[i].sig)
  BY <1>5 DEF TInv, HonestlySigned
<1>7. HonestlySigned(e)
  BY <1>4, <1>6 DEF HonestlySigned
<1> QED BY <1>7 DEF e

LEMMA RewriteHonest == TInv /\ Rewrite => HonestlySigned(doc')
<1> SUFFICES ASSUME TInv, Rewrite PROVE HonestlySigned(doc')
  OBVIOUS
<1>1. PICK n \in Nodes(doc), name \in Names : doc' = [doc EXCEPT ![n].text = name]
  BY DEF Rewrite, Edited, Named
<1> DEFINE x == [doc[n] EXCEPT !.text = name]
<1>2. x.sig = doc[n].sig
  BY EInvMessage, NodeChanged DEF TInv
<1>3. doc' = [doc EXCEPT ![n] = x]
  BY <1>1
<1> HIDE DEF x
<1>4. VouchedSig(x.sig)
  BY <1>2 DEF TInv, HonestlySigned
<1> QED BY <1>3, <1>4, NodeHonest

LEMMA SigHonest ==
  ASSUME TInv, NEW n \in Nodes(doc), NEW new, VouchedSig(new)
  PROVE  HonestlySigned([doc EXCEPT ![n].sig = new])
<1> DEFINE x == [doc[n] EXCEPT !.sig = new]
<1>1. x.sig = new
  BY EInvMessage, NodeChanged DEF TInv
<1>2. [doc EXCEPT ![n].sig = new] = [doc EXCEPT ![n] = x]
  OBVIOUS
<1> HIDE DEF x
<1>3. VouchedSig(x.sig)
  BY <1>1
<1> QED BY <1>2, <1>3, NodeHonest

(* Another DigestValue leaves what was signed; another key signs for itself. *)
LEMMA RedigestHonest == TInv /\ Redigest => HonestlySigned(doc')
<1> SUFFICES ASSUME TInv, Redigest PROVE HonestlySigned(doc')
  OBVIOUS
<1>1. PICK s \in Nodes(doc) : doc' = Digested(doc, s)
  BY DEF Redigest, Edited, Named
<1> DEFINE g == doc[s].sig
<1>2. VouchedSig(g)
  BY DEF TInv, HonestlySigned
<1>3. \E refs : Digested(doc, s) = [doc EXCEPT ![s].sig.refs = refs]
  BY DEF Digested
<1>4. PICK refs : Digested(doc, s) = [doc EXCEPT ![s].sig.refs = refs]
  BY <1>3
<1> DEFINE new == [g EXCEPT !.refs = refs]
<1>5. [doc EXCEPT ![s].sig.refs = refs] = [doc EXCEPT ![s].sig = new]
  OBVIOUS
<1> HIDE DEF new
<1>6. doc' = [doc EXCEPT ![s].sig = new]
  BY <1>1, <1>4, <1>5, Zenon
<1> HIDE DEF g
<1>7. new = Sig(g.c14n, g.algo, refs, g.cert, g.value)
  BY <1>2 DEF VouchedSig, Sig, new
<1>8. VouchedSig(new)
  BY <1>2, <1>7 DEF VouchedSig, Sig
<1> QED BY <1>6, <1>8, SigHonest

LEMMA ResignHonest == TInv /\ Resign => HonestlySigned(doc')
<1> SUFFICES ASSUME TInv, Resign PROVE HonestlySigned(doc')
  OBVIOUS
<1>1. PICK s \in Nodes(doc) : doc' = Signed(doc, s, "other")
  BY DEF Resign, Edited, Named
<1> DEFINE g == doc[s].sig
           value == [key |-> "other", over |-> SignedInfo(g)]
           first == [g EXCEPT !.cert = "other"]
           new == [first EXCEPT !.value = value]
<1>2. VouchedSig(g)
  BY DEF TInv, HonestlySigned
<1>3. Signed(doc, s, "other") = [doc EXCEPT ![s].sig = new]
  BY DEF Signed
<1>4. value.key = "other"
  OBVIOUS
<1> HIDE DEF g, value
<1>5. new = Sig(g.c14n, g.algo, g.refs, "other", value)
  <2>1. first = Sig(g.c14n, g.algo, g.refs, "other", g.value)
    BY <1>2 DEF VouchedSig, Sig
  <2> HIDE DEF first
  <2> QED BY <2>1 DEF Sig
<1>6. VouchedSig(new)
  BY <1>4, <1>5 DEF VouchedSig, Sig
<1> HIDE DEF new
<1> QED BY <1>1, <1>3, <1>6, SigHonest

LEMMA HonestyPreserved == TInv /\ [ForensicsNext]_allvars => TInv'
<1> SUFFICES ASSUME TInv, [ForensicsNext]_allvars PROVE HonestlySigned(doc')
  BY AlterationsPreserve DEF TInv
<1>1. CASE Analyze \/ UNCHANGED allvars
  <2>1. doc' = doc
    BY <1>1 DEF Analyze, Next, Structure, VisitSignature, Close, allvars, vars
  <2> QED BY <2>1 DEF TInv
<1> QED
  BY <1>1, WrapHonest, LiftHonest, RewriteHonest, DuplicateHonest, SpliceHonest,
     StripHonest, RedigestHonest, ResignHonest DEF ForensicsNext

LEMMA HonestyEstablished == ForensicsInit => TInv
<1> SUFFICES ASSUME ForensicsInit PROVE TInv
  OBVIOUS
<1>1. HonestlySigned(doc)
  BY ForensicsAssumption DEF ForensicsInit, Init
<1> QED BY <1>1, IssuedEstablish DEF TInv

(* What a verified Reference covers is what the key behind the signature     *)
(* stands for, and the subject decode() shows is part of it.                 *)
LEMMA CoveredSubjects ==
  ASSUME NEW d, IsDocument(d), MadeOfNodes(d), NEW s \in Nodes(d),
         VouchedSig(d[s].sig), SigValid(d, s), d[s].sig.cert = "idp",
         NEW k \in RefIndices(d, s), ReferenceOk(d, s, Refs(d, s)[k]),
         \A n \in FirstAssertion(d) \cup SubjectNodes(d) : CoversNode(d, s, k, n)
  PROVE  DecodedSubject(d) \subseteq IssuedNames
<1> DEFINE r == Refs(d, s)[k]
           g == d[s].sig
<1>1. PICK t \in Target(d, r) : r.digest = Digest(r.method, Canon(d, t, Omitted(s, r)))
  BY DEF ReferenceOk
<1>2. Target(d, r) = {t} /\ t \in Nodes(d)
  <2>1. ElementsById(d, r.id) \in SUBSET Nodes(d) /\ Root \in Nodes(d)
    BY NodeSets DEF IsDocument, Nodes, Root
  <2>2. FirstOf(ElementsById(d, r.id)) \subseteq ElementsById(d, r.id)
    BY <2>1, FirstOfNodes
  <2> QED BY <1>1, <2>1, <2>2 DEF Target, FirstOf
<1> DEFINE A == Kept(d, t, Omitted(s, r))
           o == Canon(d, t, Omitted(s, r))
<1>3. ReadFrom(d, A, o)
  BY <1>2, OctetsAreRead
<1>4. \A n \in FirstAssertion(d) \cup SubjectNodes(d) : n \in A
  BY <1>2 DEF CoversNode
<1>5. DecodedSubject(o) \subseteq IssuedNames
  <2>1. r.digest.over = o
    BY <1>1 DEF Digest
  <2>2. g.value.key = "idp" /\ g.value.over = SignedInfo(g)
    BY DEF SigValid
  <2>3. Vouched(SignedInfo(g))
    BY <2>2 DEF VouchedSig
  <2>4. SignedInfo(g).refs = Refs(d, s)
    BY DEF SignedInfo, Refs
  <2>5. DecodedSubject(Refs(d, s)[k].digest.over) \subseteq IssuedNames
    BY <2>3, <2>4 DEF Vouched, RefIndices
  <2> QED BY <2>1, <2>5
<1> HIDE DEF A, o
<1>6. DecodedSubject(d) \subseteq DecodedSubject(o)
  <2>1. CASE FirstAssertion(d) = {}
    BY <2>1 DEF DecodedSubject, FirstChild
  <2>2. CASE FirstAssertion(d) # {}
    <3>1. PICK a : FirstAssertion(d) = {a}
      BY <2>2 DEF FirstAssertion, FirstOf
    <3>2. a \in A /\ FirstChild(d, FirstChild(d, {a}, "Subject"), "NameID") \subseteq A
      BY <1>4, <3>1 DEF SubjectNodes
    <3> QED BY <1>3, <3>1, <3>2, DecodedAsRead
  <2> QED BY <2>1, <2>2
<1> QED BY <1>5, <1>6

LEMMA SubjectsAreTrusted == TInv => TrustedSubject
<1> SUFFICES ASSUME TInv, pc = "done", flags \cap CoverageFlags = {},
                    signed_assertion_ids # {},
                    \A s \in Named(doc, "Signature") :
                      SigValid(doc, s) /\ doc[s].sig.cert = "idp"
             PROVE  DecodedSubject(doc) \subseteq IssuedNames
  BY DEF TrustedSubject
<1>1. Agreement(doc)
  BY AgreementFromInvariant DEF TInv, EInv, ConsumerVerifierAgreement
<1>2. PICK s \in Named(doc, "Signature") :
        \E k \in RefIndices(doc, s) :
          /\ ReferenceOk(doc, s, Refs(doc, s)[k])
          /\ \A n \in FirstAssertion(doc) \cup SubjectNodes(doc) :
               CoversNode(doc, s, k, n)
  BY <1>1 DEF Agreement
<1>3. s \in Nodes(doc) /\ IsDocument(doc) /\ MadeOfNodes(doc) /\ VouchedSig(doc[s].sig)
  BY EInvMessage DEF TInv, EInv, HonestlySigned, Named
<1> QED BY <1>2, <1>3, CoveredSubjects

-----------------------------------------------------------------------------
(* Whatever is done to a message, in any order and any number of times, what *)
(* arrives is a document, and Detect's invariant holds of its analysis       *)
(* (tests/vectors/_generate.py against detect.rs:43-154).                    *)
THEOREM AlterationsKeepInvariant == ForensicsSpec => []EInv
BY IssuedEstablish, AlterationsPreserve, PTL DEF ForensicsSpec

(* In particular its types: the alterations leave one root, subtrees nested  *)
(* and comments without children.                                            *)
THEOREM AlteredTypesCorrect == ForensicsSpec => []TypeOK
<1>1. EInv => TypeOK
  BY DEF EInv, IInv
<1> QED BY <1>1, AlterationsKeepInvariant, PTL

(* A decoded subject split by a comment never goes unreported, whatever was  *)
(* done to the message (detect.rs:57-65 against message.rs:71-77).           *)
THEOREM SplitSubjectsAlwaysFlagged == ForensicsSpec => []SplitSubjectsAreFlagged
BY AlterationsKeepInvariant, SplitIsFlagged, PTL

(* What silence about coverage means for issued messages it means for        *)
(* altered ones: verifier and consumer look at the same element              *)
(* (detect.rs:71-142 against message.rs:69-90).                              *)
THEOREM AlteredMessagesAgree == ForensicsSpec => []ConsumerVerifierAgreement
<1>1. EInv => ConsumerVerifierAgreement
  BY AgreementFromInvariant DEF EInv
<1> QED BY <1>1, AlterationsKeepInvariant, PTL

(* A comment put into a message leaves every verdict on its signatures as it *)
(* was, because canonicalization drops comments (c14n.rs:76): verification   *)
(* cannot notice the comment, and only the detector can.                     *)
THEOREM CommentsNeverShow == ForensicsSpec => CommentsLeaveDigests
<1>1. EInv => [Splice => Verdicts(doc') = Verdicts(doc)]_allvars
  BY SpliceKeepsVerdicts
<1> QED BY <1>1, AlterationsKeepInvariant, PTL DEF CommentsLeaveDigests

(* When the coverage flags are silent, a Reference covers an assertion and   *)
(* every signature is the identity provider's valid one, the subject         *)
(* decode() shows is one it vouched for, whatever was done to the message:   *)
(* the digests see the text that decode() reads (signature.rs:99-173 and     *)
(* detect.rs:71-142 against message.rs:69-90).                               *)
THEOREM OnlyIssuedSubjects == ForensicsSpec => []TrustedSubject
<1>1. ForensicsSpec => []TInv
  BY HonestyEstablished, HonestyPreserved, PTL DEF ForensicsSpec
<1> QED BY <1>1, SubjectsAreTrusted, PTL
=============================================================================
