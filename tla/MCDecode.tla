------------------------------ MODULE MCDecode ------------------------------
(* Messages around one assertion in every shape: with and without issuer,   *)
(* subject, confirmation, conditions, attributes; bare, in a response, with *)
(* another assertion after it, before it (wrapped), in its Advice or in an  *)
(* attribute value; and messages without an assertion.                      *)
EXTENDS Decode

Element(tag, id, attr, text, forest) ==
  <<[tag |-> tag, size |-> 1 + Len(forest), id |-> id, text |-> text, attr |-> attr]>>
    \o forest

Above(tag, forest) == Element(tag, NoId, NoAttr, NoText, forest)
Leaf(tag, text) == Element(tag, NoId, NoAttr, text, <<>>)

Signature == Above("Signature", <<>>)
Issuer(name) == Leaf("Issuer", name)

SubjectOf(name, attr) ==
  Above("Subject",
    Leaf("NameID", name)
      \o Above("SubjectConfirmation",
           Element("SubjectConfirmationData", NoId, attr, NoText, <<>>)))

Restriction(tag, names) ==
  Above(tag, FoldLeft(LAMBDA forest, name : forest \o Leaf("Audience", name), <<>>, names))

ConditionsOf(window, restrictions) ==
  Element("Conditions", NoId, window, NoText, restrictions)

Authn(instant, class) ==
  Element("AuthnStatement", NoId, instant, NoText,
    Above("AuthnContext",
      Leaf("AuthnContextClassRef", class) \o Leaf("AuthenticatingAuthority", "idp")))

AttributeOf(name, forest) == Element("Attribute", NoId, name, NoText, forest)
Value(text, forest) == Element("AttributeValue", NoId, NoAttr, text, forest)
Statement(forest) == Above("AttributeStatement", forest)

Other ==
  Element("Assertion", "b", NoAttr, NoText,
    Issuer("other") \o SubjectOf("eve", "r9") \o ConditionsOf("wide", <<>>)
      \o Statement(AttributeOf("role", Value("admin", <<>>)))
      \o Authn("later", "weak"))

Attributes ==
  {<<>>,
   Statement(AttributeOf("mail", Value("x", <<>>) \o Value("y", <<>>))
               \o AttributeOf("none", <<>>)),
   Statement(AttributeOf("none", <<>>))
     \o Statement(AttributeOf("mail", Value("x", Other)) \o AttributeOf("role", Value("", <<>>)))}

AssertionOf(issuer, subject, conds, advice, statements) ==
  Element("Assertion", "a", NoAttr, NoText,
    issuer \o subject \o conds \o advice \o statements)

TheAssertions ==
  {AssertionOf(issuer, subject, conds, advice, attributes \o authns) :
     issuer \in {<<>>, Issuer("idp") \o Signature},
     subject \in {<<>>, Leaf("Subject", NoText), SubjectOf("alice", NoAttr),
                  SubjectOf("alice", "r1")},
     conds \in {<<>>,
                ConditionsOf("narrow",
                  Restriction("AudienceRestriction", <<"sp1", "sp2">>)
                    \o Above("OneTimeUse", <<>>)
                    \o Restriction("ProxyRestriction", <<"proxy">>)
                    \o Restriction("AudienceRestriction", <<"sp3">>))},
     advice \in {<<>>, Above("Advice", Other)},
     attributes \in Attributes,
     authns \in {<<>>, Authn("noon", "strong")}}

(* Extensions is where a wrapped assertion precedes the one in its place. *)
Contents(a) ==
  {a, a \o Other, Above("Extensions", Other) \o a}

Fronts ==
  {<<>>, Issuer("idp0") \o Signature,
   Issuer("idp0") \o Above("Status", Element("StatusCode", NoId, "Success", NoText, <<>>))}

Bare ==
  {Element(tag, "m", "r0", NoText, Issuer("sp") \o rest) :
     tag \in {"Response", "LogoutResponse", "AuthnRequest"},
     rest \in {<<>>, ConditionsOf("wide", <<>>), Leaf("EncryptedAssertion", NoText)}}

Messages ==
  TheAssertions \cup Bare
    \cup {Element("Response", "m", attr, NoText, front \o content) :
            attr \in {NoAttr, "r0"}, front \in Fronts,
            content \in UNION {Contents(a) : a \in TheAssertions}}
=============================================================================
