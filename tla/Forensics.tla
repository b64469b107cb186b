----------------------------- MODULE Forensics ------------------------------
(***************************************************************************)
(* The life of one message: an identity provider issues it, it is wrapped, *)
(* lifted or altered on its way, and then Detect analyzes what arrived.    *)
(* The alterations are those of tests/vectors/_generate.py, in any order   *)
(* and on any node they apply to.                                          *)
(***************************************************************************)
EXTENDS Detect, Signing

CONSTANTS
  Names,         \* the subjects that can appear in a message
  IssuedNames,   \* those the identity provider has vouched for
  MaxEdits       \* bound on the alterations of one message

(* The identity provider stands for a SignedInfo: whatever was digested,    *)
(* decoded as a message, shows a subject it has vouched for, or none.       *)
Vouched(info) ==
  \A k \in DOMAIN info.refs :
    DecodedSubject(info.refs[k].digest.over) \subseteq IssuedNames

(* It stands for all its key has signed among what a Signature holds. *)
VouchedSig(g) ==
  /\ g = Sig(g.c14n, g.algo, g.refs, g.cert, g.value)
  /\ g.value.key = "idp" => Vouched(g.value.over)

HonestlySigned(d) == \A i \in Nodes(d) : VouchedSig(d[i].sig)

ASSUME ForensicsAssumption ==
  /\ IssuedNames \subseteq Names /\ MaxEdits \in Nat
  /\ \A d \in Documents : MadeOfNodes(d) /\ HonestlySigned(d)

VARIABLE edits   \* the alterations made so far

allvars == <<vars, edits>>

-----------------------------------------------------------------------------
Enveloped(id) ==
  Tree("Signature", NoId, NoText,
       Sig("exc", "RS256", <<Reference(id, TRUE, "sha256", NoDigest)>>,
           NoKey, NoValue), <<>>)

(* What the identity provider hands out: a signed assertion, bare or in a   *)
(* response that may be signed as well, or a signed response only.          *)
IssuedMessages ==
  LET signed(n) == Assertion("a1", Subject(n, <<>>) \o Enveloped("a1"))
      plain(n) == Assertion("a1", Subject(n, <<>>))
  IN  {Sealed(d, "idp") : d \in
         UNION {{signed(n), Response("r1", signed(n)),
                 Response("r1", signed(n) \o Enveloped("r1")),
                 Response("r1", plain(n) \o Enveloped("r1"))}
                : n \in IssuedNames}}

(* A message is altered before the analysis begins. *)
Editing == pc = "structure" /\ edits < MaxEdits

Edited(d) ==
  /\ doc' = d
  /\ edits' = edits + 1
  /\ UNCHANGED <<pc, pending, flags, signed_assertion_ids, response_is_signed>>

ForensicsInit == Init /\ edits = 0

(* response_wrap: an assertion on its own gets a response around it. *)
Wrap ==
  /\ Editing
  /\ doc[Root].tag = "Assertion"
  /\ Edited(Response("r1", doc))

(* An assertion is lifted out of its response. *)
Lift ==
  /\ Editing
  /\ \E a \in Named(doc, "Assertion") \ {Root} : Edited(Copy(doc, a))

(* The subject is rewritten in place, as in tampered_response. *)
Rewrite ==
  /\ Editing
  /\ \E n \in Named(doc, "NameID"), name \in Names \ {NoText} :
       /\ doc[n].text # name
       /\ Edited([doc EXCEPT ![n].text = name])

(* An unsigned copy with another id and subject goes before the assertion,  *)
(* as in xsw3_response, or after it.                                        *)
UnsignedCopy(d, a, id, name) ==
  LET copy == Copy(d, a)
      renamed == [i \in DOMAIN copy |->
                    IF copy[i].tag = "NameID" THEN [copy[i] EXCEPT !.text = name]
                    ELSE IF i = Root THEN [copy[i] EXCEPT !.id = id] ELSE copy[i]]
      sigs == ChildrenNamed(renamed, Root, "Signature")
  IN  IF sigs = {} THEN renamed ELSE Delete(renamed, First(sigs))

Duplicate ==
  /\ Editing
  /\ Cardinality(Named(doc, "Assertion")) = 1
  /\ \E a \in Named(doc, "Assertion"), id \in {"a1", "a2"}, name \in Names :
       \E p \in Parents(doc, a), at \in {a, a + doc[a].size} :
         Edited(Insert(doc, p, at, UnsignedCopy(doc, a, id, name)))

(* A comment splits the subject's text, as in comment_splice. *)
Splice ==
  /\ Editing
  /\ \E n \in Named(doc, "NameID") :
       ~ HasCommentChild(doc, n) /\ Edited(Insert(doc, n, n + 1, Comment))

(* A signature is removed from the element that holds it. *)
Strip ==
  /\ Editing
  /\ \E s \in Named(doc, "Signature") \ {Root} : Edited(Delete(doc, s))

(* DigestValues are made to fit the altered document; SignatureValue stays. *)
Redigest ==
  /\ Editing
  /\ \E s \in Named(doc, "Signature") :
       Digested(doc, s) # doc /\ Edited(Digested(doc, s))

(* Somebody else signs the message as it is, with their own certificate. *)
Resign ==
  /\ Editing
  /\ \E s \in Named(doc, "Signature") :
       Signed(doc, s, "other") # doc /\ Edited(Signed(doc, s, "other"))

Analyze == Next /\ UNCHANGED edits

ForensicsNext ==
  \/ Wrap \/ Lift \/ Rewrite \/ Duplicate \/ Splice \/ Strip \/ Redigest
  \/ Resign \/ Analyze

ForensicsSpec == ForensicsInit /\ [][ForensicsNext]_allvars

-----------------------------------------------------------------------------
(* The digests see the subject decode() shows: when the coverage flags are  *)
(* silent, some Reference covers an assertion, and every signature is the   *)
(* identity provider's valid one (the caller's trust decision on            *)
(* sig_valid and signer_cert_sha256), the decoded subject is one the        *)
(* identity provider vouched for, whatever was done to the message.         *)
TrustedSubject ==
  (/\ pc = "done"
   /\ flags \cap CoverageFlags = {}
   /\ signed_assertion_ids # {}
   /\ \A s \in Named(doc, "Signature") :
        SigValid(doc, s) /\ doc[s].sig.cert = "idp")
  => DecodedSubject(doc) \subseteq IssuedNames

(* A comment put into a message changes no digest and no signature verdict  *)
(* (canonicalization drops comments, c14n.rs:76): the verdicts of every     *)
(* signature, in document order, are those of the message without it.       *)
Verdicts(d) ==
  {<<Cardinality({t \in Named(d, "Signature") : t < s}),
     DigestOk(d, s), SigValid(d, s)>> : s \in Named(d, "Signature")}

CommentsLeaveDigests ==
  [][Splice => Verdicts(doc') = Verdicts(doc)]_allvars

(* So the detector has to see it: a subject decode() shows whose text is    *)
(* split by a comment is always flagged, signed and verified or not.        *)
SplitSubjectsAreFlagged ==
  pc = "done" /\ (\E n \in SubjectNodes(doc) : HasCommentChild(doc, n))
    => "nameid-comment-splitting" \in flags
=============================================================================
