------------------------------ MODULE Promises ------------------------------
(***************************************************************************)
(* What the two whole-document analyses tell about a document, without     *)
(* loops or accumulators: the condition each flag of saml.anomalies stands *)
(* for, and the rows of saml.signatures.                                   *)
(*                                                                         *)
(* Eight conditions are what the comments of detect.rs say of their flag.  *)
(* Two are what its tests amount to, where the comment says something      *)
(* else: SomeNotEnveloped (118-120; DetachedOnlyOutside of Detect) and     *)
(* SomePayloadBare (160-161; SelfSignedMeansOwnReference of Detect).       *)
(***************************************************************************)
EXTENDS Dsig

AllFlags ==
  {"multiple-assertions", "encrypted-assertion-present",
   "nameid-comment-splitting", "digest-mismatch",
   "c14n-inclusive-on-moved-assertion", "reference-uri-id-mismatch",
   "signature-placement-anomaly", "detached-signature",
   "signature-covers-other-element", "unsigned-assertion-in-signed-response"}

SigsOf(d) == Named(d, "Signature")

Payloads(d) == Named(d, "Assertion") \cup Named(d, "EncryptedAssertion")

TextBearing == {"NameID", "AttributeValue", "Issuer"}

ResponseLike == {"Response", "LogoutResponse", "ArtifactResponse"}

(* The References that name an element, over all signatures. *)
NamingRefs(d) ==
  UNION {{r \in {Refs(d, s)[k] : k \in RefIndices(d, s)} : r.id # NoId}
           : s \in SigsOf(d)}

(* The ids under which an assertion is covered by some signature. *)
CoveredIds(d) ==
  {r.id : r \in {q \in NamingRefs(d) :
                   \E t \in Target(d, q) : d[t].tag = "Assertion"}}

-----------------------------------------------------------------------------
(* One condition per flag. *)
SeveralPayloads(d) == \E a \in Payloads(d) : \E b \in Payloads(d) : a # b

SomeEncrypted(d) == \E a \in Payloads(d) : d[a].tag = "EncryptedAssertion"

TextIsSplit(d) ==
  \E c \in Named(d, "comment") : \E p \in Parents(d, c) : d[p].tag \in TextBearing

SomeDigestFails(d) ==
  \E s \in SigsOf(d) : \E k \in RefIndices(d, s) :
    ~ ReferenceOk(d, s, Refs(d, s)[k])

SomeInclusive(d) == \E s \in SigsOf(d) : d[s].sig.c14n \notin {"none", "exc"}

SomeIdIsNotUnique(d) ==
  \E r \in NamingRefs(d) : Cardinality(ElementsById(d, r.id)) # 1

SomeMisplaced(d) ==
  \E p \in Nodes(d) : /\ d[p].tag \in {"Extensions", "Object"}
                      /\ SigsOf(d) \cap Children(d, p) # {}

(* Some first Reference's target does not enclose its Signature. *)
SomeNotEnveloped(d) ==
  \E s \in SigsOf(d) : \E k \in FirstOf(RefIndices(d, s)) :
    /\ Refs(d, s)[k].id # NoId
    /\ \E t \in Target(d, Refs(d, s)[k]) : t \notin Ancestors(d, s)

FirstIsNotCovered(d) ==
  /\ CoveredIds(d) # {}
  /\ \E a \in FirstAssertion(d) : d[a].id \notin CoveredIds(d)

(* A response is signed, and some assertion has no Signature child at all. *)
SomePayloadBare(d) ==
  /\ \E s \in SigsOf(d) : \E e \in SignedElement(d, s) : d[e].tag \in ResponseLike
  /\ \E a \in Named(d, "Assertion") : SigsOf(d) \cap Children(d, a) = {}

Means(f, flag, condition) == f = flag /\ condition

Holds(d, f) ==
  \/ Means(f, "multiple-assertions", SeveralPayloads(d))
  \/ Means(f, "encrypted-assertion-present", SomeEncrypted(d))
  \/ Means(f, "nameid-comment-splitting", TextIsSplit(d))
  \/ Means(f, "digest-mismatch", SomeDigestFails(d))
  \/ Means(f, "c14n-inclusive-on-moved-assertion", SomeInclusive(d))
  \/ Means(f, "reference-uri-id-mismatch", SomeIdIsNotUnique(d))
  \/ Means(f, "signature-placement-anomaly", SomeMisplaced(d))
  \/ Means(f, "detached-signature", SomeNotEnveloped(d))
  \/ Means(f, "signature-covers-other-element", FirstIsNotCovered(d))
  \/ Means(f, "unsigned-assertion-in-signed-response", SomePayloadBare(d))

Anomalies(d) == {f \in AllFlags : Holds(d, f)}

-----------------------------------------------------------------------------
(* The nth signature in document order, and its row. *)
NthSignature(d, n) ==
  CHOOSE s \in SigsOf(d) : Cardinality({t \in SigsOf(d) : t < s}) = n - 1

Row(d, n) ==
  LET s == NthSignature(d, n) IN
  [idx |-> n - 1,
   scope |-> ScopeOf(d, s, SignedElement(d, s)),
   references_id |-> ReferencesId(d, s),
   signed_element |-> SignedElement(d, s),
   c14n_ok |-> C14nOk(d, s),
   digest_ok |-> DigestOk(d, s),
   sig_valid |-> SigValid(d, s)]

RowCount(d) == Cardinality(SigsOf(d))
=============================================================================
