-------------------------------- MODULE Dsig --------------------------------
(***************************************************************************)
(* signature.rs: what analyze() reports of one ds:Signature of a document. *)
(*                                                                         *)
(* Hashing and signature math are ideal: a digest is the pair of its       *)
(* method and the canonical octets it was computed over, and a signature   *)
(* value the pair of the key and the SignedInfo it was computed over.      *)
(***************************************************************************)
EXTENDS SamlDocument

(* cert::digest_by_uri: the methods that are implemented (SHA-1 is not). *)
SupportedDigests == {"sha256", "sha384", "sha512"}

(* cert::SigAlgo: the algorithm families that are told apart. *)
SigAlgo ==
  {"RS1", "RS256", "RS384", "RS512", "ES1", "ES256", "ES384", "ES512", "EdDSA",
   "unknown"}

(* cert::verify: all but SHA-1 and the unknown are verified. *)
VerifiedAlgos == SigAlgo \ {"RS1", "ES1", "unknown"}

Digest(method, octets) == [method |-> method, over |-> octets]

(* The element a Reference resolves to: the root for an empty URI, else the *)
(* first element with the ID; {} when the ID dangles.                       *)
Target(doc, r) ==
  IF r.id = NoId THEN {Root} ELSE FirstOf(ElementsById(doc, r.id))

(* The enveloped-signature transform omits the analyzed Signature only. *)
Omitted(s, r) == IF r.enveloped THEN {s} ELSE {}

(* Defect: a Reference that resolves to nothing is passed over. *)
ReferenceOk_DanglingPasses(doc, s, r) ==
  /\ r.method \in SupportedDigests
  /\ \A t \in Target(doc, r) :
       r.digest = Digest(r.method, Canon(doc, t, Omitted(s, r)))

(* digest_ok of one Reference of Signature s. *)
ReferenceOk(doc, s, r) ==
  /\ r.method \in SupportedDigests
  /\ \E t \in Target(doc, r) :
       r.digest = Digest(r.method, Canon(doc, t, Omitted(s, r)))

Refs(doc, s) == doc[s].sig.refs
RefIndices(doc, s) == DOMAIN Refs(doc, s)

(* Analyzed.digest_ok: there is a Reference and every one checks. *)
DigestOk(doc, s) ==
  /\ Refs(doc, s) # <<>>
  /\ \A k \in RefIndices(doc, s) : ReferenceOk(doc, s, Refs(doc, s)[k])

(* Analyzed.signed_element: the element of the first Reference that         *)
(* resolves, as a set of at most one node.                                  *)
ResolvedIndices(doc, s) ==
  {k \in RefIndices(doc, s) : Target(doc, Refs(doc, s)[k]) # {}}

SignedElement(doc, s) ==
  UNION {Target(doc, Refs(doc, s)[k]) : k \in FirstOf(ResolvedIndices(doc, s))}

(* Analyzed.references_id: the target of the first Reference. *)
ReferencesId(doc, s) ==
  {Refs(doc, s)[k].id : k \in FirstOf(RefIndices(doc, s))}

(* Analyzed.c14n_ok. *)
C14nOk(doc, s) == doc[s].sig.c14n = "exc"

(* Defect: the value is checked against the key alone. *)
SigValid_AnySignedInfo(doc, s) ==
  LET g == doc[s].sig IN
  /\ C14nOk(doc, s)
  /\ g.cert # NoKey
  /\ g.algo \in VerifiedAlgos
  /\ g.value.key = g.cert

(* Analyzed.sig_valid. *)
SigValid(doc, s) ==
  LET g == doc[s].sig IN
  /\ C14nOk(doc, s)
  /\ g.cert # NoKey
  /\ g.algo \in VerifiedAlgos
  /\ g.value = [key |-> g.cert, over |-> SignedInfo(g)]

(* classify_scope and scope_of: by the signed element, else by the parent. *)
ClassifyScope(tag) ==
  CASE tag \in {"Response", "LogoutResponse", "ArtifactResponse"} -> "response"
    [] tag = "Assertion" -> "assertion"
    [] OTHER -> "other"

ScopeOf(doc, s, signed) ==
  LET bySigned == {ClassifyScope(doc[e].tag) : e \in signed} \ {"other"}
      byParent == {ClassifyScope(doc[p].tag) : p \in Parents(doc, s)}
  IN  CASE bySigned # {} -> CHOOSE c \in bySigned : TRUE
        [] bySigned = {} /\ byParent # {} -> CHOOSE c \in byParent : TRUE
        [] OTHER -> "other"
=============================================================================
