------------------------------ MODULE Signing -------------------------------
(***************************************************************************)
(* Building, signing and editing documents: what an identity provider's    *)
(* signer and the test vectors' generator do to a message before it        *)
(* reaches the engine (tests/vectors/_generate.py).                        *)
(***************************************************************************)
EXTENDS Dsig

(* A tree: one node above a forest (a sequence of trees, concatenated). *)
Tree(tag, id, text, sig, forest) ==
  <<Node(tag, 1 + Len(forest), id, text, sig)>> \o forest

Leaf(tag, text) == Tree(tag, NoId, text, NoSig, <<>>)
Comment == Leaf("comment", NoText)

Assertion(id, forest) == Tree("Assertion", id, NoText, NoSig, forest)
Response(id, forest) == Tree("Response", id, NoText, NoSig, forest)
Subject(name, forest) ==
  Tree("Subject", NoId, NoText, NoSig, Tree("NameID", NoId, name, NoSig, forest))

-----------------------------------------------------------------------------
(* n nodes more below p: p and its ancestors grow. *)
Grown(doc, p, n) ==
  [i \in Nodes(doc) |->
     IF p \in Subtree(doc, i) THEN [doc[i] EXCEPT !.size = @ + n] ELSE doc[i]]

(* forest becomes part of the children of p, its first node at index at. *)
Insert(doc, p, at, forest) ==
  LET grown == Grown(doc, p, Len(forest))
  IN  SubSeq(grown, 1, at - 1) \o forest \o SubSeq(grown, at, Len(doc))

(* The subtree of i taken out of the document: what follows it moves up. *)
Delete(doc, i) ==
  LET n == doc[i].size
      cut == [j \in Nodes(doc) |->
                IF i \in Subtree(doc, j) /\ j # i
                  THEN [doc[j] EXCEPT !.size = @ - n] ELSE doc[j]]
  IN  SubSeq(cut, 1, i - 1) \o SubSeq(cut, i + n, Len(doc))

(* The subtree of i as a document, or as a forest to insert elsewhere. *)
Copy(doc, i) == SubSeq(doc, i, i + doc[i].size - 1)

-----------------------------------------------------------------------------
(* The DigestValues of Signature s recomputed over the document as it is. *)
Digested(doc, s) ==
  LET reseal(r) ==
        [r EXCEPT !.digest =
           IF Target(doc, r) = {} THEN NoDigest
           ELSE Digest(r.method, Canon(doc, First(Target(doc, r)), Omitted(s, r)))]
  IN  [doc EXCEPT ![s].sig.refs = [k \in DOMAIN @ |-> reseal(@[k])]]

(* SignatureValue computed with the key over SignedInfo as it is. *)
Signed(doc, s, key) ==
  [doc EXCEPT ![s].sig.cert = key,
              ![s].sig.value = [key |-> key, over |-> SignedInfo(doc[s].sig)]]

(* Every signature digested and signed, the last one in the document first, *)
(* so that inner signatures are final before an outer one covers them.      *)
Sealed(doc, key) ==
  LET from[i \in 1 .. Len(doc) + 1] ==
        IF i > Len(doc) THEN doc
        ELSE IF doc[i].tag = "Signature"
          THEN Signed(Digested(from[i + 1], i), i, key)
          ELSE from[i + 1]
  IN  from[1]
=============================================================================
