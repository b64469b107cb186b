------------------------------- MODULE Detect -------------------------------
(***************************************************************************)
(* detect.rs: anomalies() as the code runs it.  The structural flags come  *)
(* first, then one pass over the ds:Signature elements in document order   *)
(* that accumulates flags, the ids of covered assertions and whether a     *)
(* response is signed, then the two flags that need the whole pass.        *)
(***************************************************************************)
EXTENDS Promises

CONSTANT Documents       \* the documents the loader may hand over

ASSUME DocumentsAssumption ==
  \A d \in Documents : IsDocument(d) /\ SignaturesInPlace(d)

VARIABLES
  doc,                   \* the document under analysis
  pc,                    \* "structure", "signatures" or "done"
  pending,               \* the signatures the loop has not visited yet
  flags,                 \* the BTreeSet of flags inserted so far
  signed_assertion_ids,  \* ids of the assertions some Reference covers
  response_is_signed     \* a signature's signed element is a *Response

vars == <<doc, pc, pending, flags, signed_assertion_ids, response_is_signed>>

-----------------------------------------------------------------------------
(* The flag f as the set that holds it when the condition does. *)
FlagIf(condition, f) == IF condition THEN {f} ELSE {}

(* Defect: the list of names forgets the one that carries the subject. *)
TextElements_NoNameID == {"AttributeValue", "Issuer"}

(* The elements whose text a comment must not split. *)
TextElements == {"NameID", "AttributeValue", "Issuer"}

StructureFlags(d) ==
  LET assertions == Named(d, "Assertion")
      encrypted == Named(d, "EncryptedAssertion")
  IN  FlagIf(Cardinality(assertions) + Cardinality(encrypted) > 1,
             "multiple-assertions")
      \cup FlagIf(encrypted # {}, "encrypted-assertion-present")
      \cup FlagIf(\E tag \in TextElements :
                    \E n \in Named(d, tag) : HasCommentChild(d, n),
                  "nameid-comment-splitting")

(* Defect: only ids that name nothing are reported. *)
AmbiguousReference_DanglingOnly(d, s) ==
  \E k \in RefIndices(d, s) :
    LET id == Refs(d, s)[k].id
    IN  id # NoId /\ Cardinality(ElementsById(d, id)) = 0

(* One iteration of the loop over References: dangling or duplicate ids. *)
AmbiguousReference(d, s) ==
  \E k \in RefIndices(d, s) :
    LET id == Refs(d, s)[k].id
    IN  id # NoId /\ Cardinality(ElementsById(d, id)) # 1

(* The ids this signature adds to signed_assertion_ids. *)
CoveredAssertionIds(d, s) ==
  {Refs(d, s)[k].id : k \in {j \in RefIndices(d, s) :
     /\ Refs(d, s)[j].id # NoId
     /\ \E t \in Target(d, Refs(d, s)[j]) : d[t].tag = "Assertion"}}

(* ends_response on the local names that end in "Response". *)
EndsResponse(tag) == tag \in {"Response", "LogoutResponse", "ArtifactResponse"}

SignsResponse(d, s) == \E e \in SignedElement(d, s) : EndsResponse(d[e].tag)

(* The target of the first Reference, by id, is not an ancestor of s. *)
Detached(d, s) ==
  \E id \in ReferencesId(d, s) \ {NoId} :
    \E target \in FirstOf(ElementsById(d, id)) :
      /\ target \notin Ancestors(d, s)
      /\ s \notin Subtree(d, target)

Misplaced(d, s) ==
  \E p \in Parents(d, s) : d[p].tag \in {"Extensions", "Object"}

(* Defect: a signature whose digest fails is not looked at any further. *)
SignatureFlags_StopsAtMismatch(d, s) ==
  IF Refs(d, s) # <<>> /\ ~ DigestOk(d, s)
  THEN {"digest-mismatch"}
  ELSE FlagIf(d[s].sig.c14n \notin {"none", "exc"},
              "c14n-inclusive-on-moved-assertion")
       \cup FlagIf(AmbiguousReference(d, s), "reference-uri-id-mismatch")
       \cup FlagIf(Misplaced(d, s), "signature-placement-anomaly")
       \cup FlagIf(Detached(d, s), "detached-signature")

SignatureFlags(d, s) ==
  FlagIf(Refs(d, s) # <<>> /\ ~ DigestOk(d, s), "digest-mismatch")
  \cup FlagIf(d[s].sig.c14n \notin {"none", "exc"},
              "c14n-inclusive-on-moved-assertion")
  \cup FlagIf(AmbiguousReference(d, s), "reference-uri-id-mismatch")
  \cup FlagIf(Misplaced(d, s), "signature-placement-anomaly")
  \cup FlagIf(Detached(d, s), "detached-signature")

(* assertion_self_signed: the assertion has a ds:Signature child. *)
AssertionSelfSigned(d, a) == ChildrenNamed(d, a, "Signature") # {}

ClosingFlags(d, ids, signed) ==
  FlagIf(ids # {} /\ \E a \in FirstAssertion(d) : d[a].id \notin ids,
         "signature-covers-other-element")
  \cup FlagIf(signed /\ \E a \in Named(d, "Assertion") :
                          ~ AssertionSelfSigned(d, a),
              "unsigned-assertion-in-signed-response")

-----------------------------------------------------------------------------
Init ==
  /\ doc \in Documents
  /\ pc = "structure"
  /\ pending = {}
  /\ flags = {}
  /\ signed_assertion_ids = {}
  /\ response_is_signed = FALSE

(* Defect: the signatures are not filtered by name. *)
Structure_Unfiltered ==
  /\ pc = "structure"
  /\ pc' = "signatures"
  /\ flags' = StructureFlags(doc)
  /\ pending' = Nodes(doc)
  /\ UNCHANGED <<doc, signed_assertion_ids, response_is_signed>>

(* The structural flags, then the list of signatures to visit. *)
Structure ==
  /\ pc = "structure"
  /\ pc' = "signatures"
  /\ flags' = StructureFlags(doc)
  /\ pending' = Named(doc, "Signature")
  /\ UNCHANGED <<doc, signed_assertion_ids, response_is_signed>>

(* Defect: the last signature alone decides that a response is signed. *)
VisitSignature_LastDecides ==
  /\ pc = "signatures"
  /\ pending # {}
  /\ LET s == First(pending) IN
       /\ pending' = pending \ {s}
       /\ flags' = flags \cup SignatureFlags(doc, s)
       /\ signed_assertion_ids' =
            signed_assertion_ids \cup CoveredAssertionIds(doc, s)
       /\ response_is_signed' = SignsResponse(doc, s)
  /\ UNCHANGED <<doc, pc>>

(* One turn of the loop: the next signature in document order. *)
VisitSignature ==
  /\ pc = "signatures"
  /\ pending # {}
  /\ LET s == First(pending) IN
       /\ pending' = pending \ {s}
       /\ flags' = flags \cup SignatureFlags(doc, s)
       /\ signed_assertion_ids' =
            signed_assertion_ids \cup CoveredAssertionIds(doc, s)
       /\ response_is_signed' = (response_is_signed \/ SignsResponse(doc, s))
  /\ UNCHANGED <<doc, pc>>

(* The flags that compare the whole pass with the first assertion. *)
Close ==
  /\ pc = "signatures"
  /\ pending = {}
  /\ pc' = "done"
  /\ flags' = flags \cup
              ClosingFlags(doc, signed_assertion_ids, response_is_signed)
  /\ UNCHANGED <<doc, pending, signed_assertion_ids, response_is_signed>>

Next == Structure \/ VisitSignature \/ Close

Spec == Init /\ [][Next]_vars /\ WF_vars(Next)

-----------------------------------------------------------------------------
(* Type invariant: flags are the documented ones, the pending signatures    *)
(* are signatures of the document.                                          *)
TypeOK ==
  /\ IsDocument(doc)
  /\ pc \in {"structure", "signatures", "done"}
  /\ pending \subseteq Named(doc, "Signature")
  /\ flags \subseteq AllFlags
  /\ response_is_signed \in BOOLEAN

(* Verifier and consumer look at the same element.  When none of the three  *)
(* flags about what is covered is raised and some Reference covers an       *)
(* assertion, then the assertion decode() reads is the only element with    *)
(* the id of a Reference that verified, and the assertion and the subject   *)
(* decode() shows are inside the octets that Reference digested (detect.rs  *)
(* 71-142 against message.rs first_assertion and decode).                   *)
SubjectNodes(d) ==
  FirstChild(d, FirstChild(d, FirstAssertion(d), "Subject"), "NameID")

CoversNode(d, s, k, n) ==
  \E t \in Target(d, Refs(d, s)[k]) :
    n \in Kept(d, t, Omitted(s, Refs(d, s)[k]))

CoverageFlags ==
  {"digest-mismatch", "reference-uri-id-mismatch",
   "signature-covers-other-element"}

Agreement(d) ==
  \E s \in Named(d, "Signature") : \E k \in RefIndices(d, s) :
    /\ ElementsById(d, Refs(d, s)[k].id) = FirstAssertion(d)
    /\ ReferenceOk(d, s, Refs(d, s)[k])
    /\ \A n \in FirstAssertion(d) \cup SubjectNodes(d) : CoversNode(d, s, k, n)

ConsumerVerifierAgreement ==
  (/\ pc = "done"
   /\ flags \cap CoverageFlags = {}
   /\ signed_assertion_ids # {}) => Agreement(doc)

(* A flag, once raised, is never taken back, and the loop's facts only grow *)
(* towards the closing comparison, whichever signature comes next.          *)
OnlyGrows ==
  [][/\ flags \subseteq flags'
     /\ signed_assertion_ids \subseteq signed_assertion_ids'
     /\ response_is_signed => response_is_signed']_vars

(* One pass that accumulates over the signatures, in document order, gives  *)
(* the same flags as the whole document judged at once, condition by        *)
(* condition: none depends on the order of signatures, on what another      *)
(* signature showed, or on where the loop stood when it was raised          *)
(* (detect.rs 18-152 against Promises).  For two of the ten flags the       *)
(* condition is the code's own test and not its comment: the last two       *)
(* properties below.                                                        *)
Abstract == INSTANCE Verdict WITH Meaning <- Anomalies,
                                  judged <- (pc = "done"),
                                  verdict <- IF pc = "done" THEN flags ELSE {}

ImplementsVerdict == Abstract!Spec

-----------------------------------------------------------------------------
(* detect.rs:160-161 says an assertion counts as self-signed when it has a  *)
(* Signature child "whose reference points back at the assertion's own ID": *)
(* in a message with a signed response and no unsigned-assertion flag,      *)
(* every assertion would have such a child.                                 *)
SelfSignedMeansOwnReference ==
  pc = "done" /\ response_is_signed
    /\ "unsigned-assertion-in-signed-response" \notin flags
  => \A a \in Named(doc, "Assertion") :
       \E s \in ChildrenNamed(doc, a, "Signature") :
         \E k \in RefIndices(doc, s) : Refs(doc, s)[k].id = doc[a].id

(* detect.rs:119-120 says a signature is detached when its target is        *)
(* "neither an ancestor nor a descendant of the Signature": where the flag  *)
(* is raised, some signature's first Reference would have such a target.    *)
DetachedOnlyOutside ==
  pc = "done" /\ "detached-signature" \in flags
  => \E s \in Named(doc, "Signature") :
       \E id \in ReferencesId(doc, s) \ {NoId} :
         \E target \in FirstOf(ElementsById(doc, id)) :
           target \notin Ancestors(doc, s) /\ target \notin Subtree(doc, s)
=============================================================================
