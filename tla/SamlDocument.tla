---------------------------- MODULE SamlDocument ----------------------------
(***************************************************************************)
(* The parsed document every analysis of saml-core walks: what roxmltree   *)
(* gives the engine (document order, subtrees, IDs), and the navigation    *)
(* helpers of xmlutil.rs and of the analyses.                              *)
(*                                                                         *)
(* A document is the sequence of its elements and comments in document     *)
(* order.  Node i spans the interval i .. i+size-1: node i itself and its  *)
(* descendants, so that ancestry is interval inclusion.  A node is a       *)
(* record                                                                  *)
(*   tag   the local name ("comment" for a comment); "Signature" stands    *)
(*         for ds:Signature, another namespace's Signature is "Other"      *)
(*   size  the number of nodes of its subtree                              *)
(*   id    the ID attribute, NoId when absent                              *)
(*   text  the concatenated text of its direct text children, trimmed      *)
(*   sig   for a Signature: the content of SignedInfo, the embedded        *)
(*         certificate's key and SignatureValue (see Sig), else NoSig      *)
(***************************************************************************)
EXTENDS Naturals, Sequences, FiniteSets

NoId == ""
NoText == ""

(* A Reference: the target id (URI without '#', NoId for URI=""), whether   *)
(* its Transforms hold enveloped-signature, the DigestMethod, DigestValue.  *)
Reference(id, enveloped, method, digest) ==
  [id |-> id, enveloped |-> enveloped, method |-> method, digest |-> digest]

(* What a Signature element holds.  value is SignatureValue: the key that   *)
(* produced it and the SignedInfo it was computed over.                     *)
Sig(c14n, algo, refs, cert, value) ==
  [c14n |-> c14n, algo |-> algo, refs |-> refs, cert |-> cert, value |-> value]

NoKey == "none"
NoDigest == [method |-> "none", over |-> <<>>]
SignedInfo(g) == [c14n |-> g.c14n, algo |-> g.algo, refs |-> g.refs]
NoSignedInfo == [c14n |-> "none", algo |-> "none", refs |-> <<>>]
NoValue == [key |-> NoKey, over |-> NoSignedInfo]
NoSig == Sig("none", "none", <<>>, NoKey, NoValue)

Node(tag, size, id, text, sig) ==
  [tag |-> tag, size |-> size, id |-> id, text |-> text, sig |-> sig]

-----------------------------------------------------------------------------
Nodes(doc) == 1 .. Len(doc)
Root == 1

(* Node::descendants(): the node itself and everything below it. *)
Subtree(doc, i) == i .. i + doc[i].size - 1

(* Node::ancestors(): the node itself and everything above it. *)
Ancestors(doc, i) == {j \in Nodes(doc) : i \in Subtree(doc, j)}

IsElement(doc, i) == doc[i].tag # "comment"

(* What the loader hands over: one root element, subtrees properly nested,  *)
(* comments without children.                                               *)
IsDocument(doc) ==
  /\ Len(doc) \in Nat \ {0}
  /\ DOMAIN doc = Nodes(doc)
  /\ IsElement(doc, Root)
  /\ doc[Root].size = Len(doc)
  /\ \A i \in Nodes(doc) :
       /\ doc[i].size \in Nat
       /\ Subtree(doc, i) \subseteq Nodes(doc)
       /\ i \in Subtree(doc, i)
       /\ \A j \in Subtree(doc, i) : Subtree(doc, j) \subseteq Subtree(doc, i)
       /\ ~ IsElement(doc, i) => doc[i].size = 1

(* Only a Signature has what a Signature holds. *)
SignaturesInPlace(doc) ==
  \A i \in Nodes(doc) : doc[i].tag # "Signature" => doc[i].sig = NoSig

(* A document is a sequence of Node records and nothing else. *)
MadeOfNodes(doc) ==
  doc = [i \in Nodes(doc) |->
           Node(doc[i].tag, doc[i].size, doc[i].id, doc[i].text, doc[i].sig)]

(* find(..), first(), into_iter().next(): the first in document order; as a *)
(* set, {} when there is none.                                              *)
First(S) == CHOOSE i \in S : \A j \in S : i <= j
FirstOf(S) == IF S = {} THEN {} ELSE {First(S)}

(* Node::parent(): the nearest proper ancestor; {} for the root. *)
Parents(doc, i) ==
  LET above == Ancestors(doc, i) \ {i}
  IN  {p \in above : \A q \in above : q <= p}

Children(doc, i) == {j \in Subtree(doc, i) : Parents(doc, j) = {i}}

(* elements_named, signatures, signature_nodes: the elements with a name.   *)
Named(doc, tag) == {i \in Nodes(doc) : doc[i].tag = tag}

ChildrenNamed(doc, i, tag) == {j \in Children(doc, i) : doc[j].tag = tag}

(* elements_by_id: every element carrying the ID. *)
ElementsById(doc, id) == {i \in Nodes(doc) : IsElement(doc, i) /\ doc[i].id = id}

HasCommentChild(doc, i) == ChildrenNamed(doc, i, "comment") # {}

-----------------------------------------------------------------------------
(* Defect: comments are serialized. *)
Kept_WithComments(doc, t, omit) ==
  {i \in Subtree(doc, t) :
     \A o \in omit \cap Subtree(doc, t) : i \notin Subtree(doc, o)}

(* exclusive_c14n: the octets of a subtree stand for its kept nodes in      *)
(* document order.  Comments are dropped, and so is the whole subtree of a  *)
(* node in omit that the walk from t meets (the enveloped-signature         *)
(* transform omits one Signature).  Each kept node keeps its name, ID, text *)
(* and signature content, and the number of kept nodes of its subtree,      *)
(* which is what the tags delimit.  Namespace rendering does not tell       *)
(* documents of this model apart.                                           *)
Kept(doc, t, omit) ==
  {i \in Subtree(doc, t) :
     /\ IsElement(doc, i)
     /\ \A o \in omit \cap Subtree(doc, t) : i \notin Subtree(doc, o)}

Canon(doc, t, omit) ==
  LET kept == Kept(doc, t, omit)
      nth(n) == CHOOSE i \in kept : Cardinality({j \in kept : j < i}) = n - 1
  IN  [n \in 1 .. Cardinality(kept) |->
         [doc[nth(n)] EXCEPT !.size = Cardinality(kept \cap Subtree(doc, nth(n)))]]

-----------------------------------------------------------------------------
(* message.rs: the assertion decode reads is the first one anywhere in the  *)
(* document; its subject is the text of the first NameID of its first       *)
(* Subject child.  {} when there is none.                                   *)

FirstAssertion(doc) == FirstOf(Named(doc, "Assertion"))

FirstChild(doc, S, tag) == UNION {FirstOf(ChildrenNamed(doc, i, tag)) : i \in S}

DecodedSubject(doc) ==
  {doc[n].text : n \in FirstChild(doc,
                         FirstChild(doc, FirstAssertion(doc), "Subject"), "NameID")}
    \ {NoText}
=============================================================================
