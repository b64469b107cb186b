------------------------------- MODULE Corpus -------------------------------
(***************************************************************************)
(* A bounded family of messages for the runs: one or two assertions, bare   *)
(* or in a response, each with or without its own signature, beside a      *)
(* response signature that sits at any of the places a Signature may be    *)
(* found.  Signatures are sealed by a key or keep a stale digest.          *)
(***************************************************************************)
EXTENDS Signing

Unsealed(c14n, enveloped, method, ids) ==
  Sig(c14n, "RS256",
      [k \in DOMAIN ids |-> Reference(ids[k], enveloped, method, NoDigest)],
      NoKey, NoValue)

(* The Reference lists: own id, the other assertion, the response, the      *)
(* whole document, a dangling id, two of them, and none at all.             *)
IdLists ==
  {<<>>, <<NoId>>, <<"a1">>, <<"a2">>, <<"r1">>, <<"a1", "r1">>, <<"zz", "a1">>}

(* And one Reference without the transform, one under inclusive c14n, and   *)
(* one with a digest method that is not implemented, though it was right.   *)
SigData ==
  {Unsealed("exc", TRUE, "sha256", ids) : ids \in IdLists}
    \cup {Unsealed("exc", FALSE, "sha256", <<"a1">>),
          Unsealed("inc", TRUE, "sha256", <<"a1">>),
          Unsealed("exc", TRUE, "sha1", <<"a1">>)}

SigTree(g, forest) == Tree("Signature", NoId, NoText, g, forest)
OptionalSig == {<<>>} \cup {SigTree(g, <<>>) : g \in SigData}

Subjects == {Subject("alice", <<>>), Subject("alice", Comment)}

Assertions == {Assertion(id, g \o sub) : id \in {"a1", "a2"},
                                          g \in OptionalSig, sub \in Subjects}

Plain(id) == Assertion(id, Subject("mallory", <<>>))

(* Where the outer signature sits, with the assertion(s) of the message. *)
Envelopes(a) ==
  LET o == OptionalSig
      s == {SigTree(g, <<>>) : g \in SigData}
  IN  {Response("r1", g \o a) : g \in o}
      \cup {Response("r1", a \o g) : g \in s}
      \cup {Response("a1", g \o a) : g \in o}
      \cup {Response("r1", Tree("Extensions", NoId, NoText, NoSig, g) \o a) : g \in s}
      \cup {Response("r1", SigTree(g, Tree("Object", NoId, NoText, NoSig, a)))
              : g \in SigData}
      \cup {Response("r1", Plain(id) \o a \o g) : id \in {"a1", "a2"}, g \in o}
      \cup {Response("r1", a \o Leaf("EncryptedAssertion", NoText))}

Skeletons == Assertions \cup UNION {Envelopes(a) : a \in Assertions}

(* The message whose subject was rewritten after it was sealed. *)
Stale(d) ==
  [i \in DOMAIN d |-> IF d[i].tag = "NameID" /\ d[i].text = "alice"
                        THEN [d[i] EXCEPT !.text = "eve"] ELSE d[i]]

Messages ==
  {Sealed(d, "idp") : d \in Skeletons}
    \cup {Stale(Sealed(d, "idp")) : d \in {e \in Skeletons : Len(e) <= 6}}
=============================================================================
