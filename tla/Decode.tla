------------------------------- MODULE Decode -------------------------------
(***************************************************************************)
(* The reader's views of a message: decode (message.rs), assertion_rows    *)
(* and attributes (attributes.rs), conditions and authn.  They read the    *)
(* same document and look for its parts in different ways: decode below    *)
(* the first assertion, the others anywhere.                               *)
(*                                                                         *)
(* Documents are those of SamlDocument whose nodes carry, instead of sig,  *)
(* attr: the attributes of the element other than ID as one value, ""      *)
(* when they are absent.  It stands for InResponseTo on a root and on a    *)
(* SubjectConfirmationData, Name on an Attribute, the window on            *)
(* Conditions, instant and session on an AuthnStatement, and Value on a    *)
(* StatusCode.  Timestamps among them are parsed as in XsdTime.            *)
(***************************************************************************)
EXTENDS SamlDocument, SequencesExt

CONSTANT Documents

ASSUME DocumentsAssumption == \A m \in Documents : IsDocument(m)

NoAttr == ""

VARIABLES
  doc,
  stage,          \* what is read next
  d,              \* the Decoded struct
  assertions,     \* rows of assertion_rows, and the assertions left
  todo,
  rows,           \* rows of attributes
  stmts,          \* the statements, attributes and values its loops have left
  attrs,
  vals,
  owner,          \* the Attribute the values belong to
  statement_idx,  \* how many statements were begun
  conditions,     \* the structs of conditions and authn
  authn

loops == <<stmts, attrs, vals, owner, statement_idx>>
vars == <<doc, stage, d, assertions, todo, rows, loops, conditions, authn>>

-----------------------------------------------------------------------------
(* xmlutil::text and attr over at most one node: {} when there is none. *)
TextAt(S) == {doc[i].text : i \in S} \ {NoText}

AttrAt(S) == {doc[i].attr : i \in S} \ {NoAttr}

IdAt(S) == {doc[i].id : i \in S} \ {NoId}

(* Option::or_else. *)
OrElse(S, T) == IF S = {} THEN T ELSE S

(* xmlutil::child. *)
Child(S, tag) == FirstChild(doc, S, tag)

InOrder(S) == SetToSortSeq(S, LAMBDA i, j : i < j)

(* The texts of the Audience children of some elements, one by one. *)
AudiencesOf(S) ==
  LET audiences == UNION {ChildrenNamed(doc, r, "Audience") : r \in S}
      shown == InOrder({i \in audiences : TextAt({i}) # {}})
  IN  [n \in DOMAIN shown |-> doc[shown[n]].text]

(* A direct child Signature in the XML-DSig namespace. *)
IsSigned(i) == ChildrenNamed(doc, i, "Signature") # {}

NoConditions ==
  [window |-> {}, audiences |-> <<>>, one_time_use |-> FALSE, proxies |-> 0,
   proxy_audiences |-> <<>>]

NoAuthn == [instant |-> {}, class_ref |-> {}, decl_ref |-> {}, authority |-> {}]

Default ==
  [response_id |-> {}, in_response_to |-> {}, status |-> {}, assertion_id |-> {},
   issuer |-> {}, subject |-> {}, window |-> {}, audiences |-> <<>>,
   instant |-> {}, authn_context |-> {}, assertion_count |-> 0,
   encrypted_count |-> 0, signed |-> FALSE]

Init ==
  /\ doc \in Documents
  /\ stage = "root"
  /\ d = Default
  /\ assertions = <<>> /\ todo = {}
  /\ rows = <<>>
  /\ stmts = {} /\ attrs = {} /\ vals = {} /\ owner = 0 /\ statement_idx = 0
  /\ conditions = NoConditions
  /\ authn = NoAuthn

(* decode fills in some fields and goes on. *)
Fill(from, to, filled) ==
  /\ stage = from
  /\ stage' = to
  /\ d' = filled
  /\ UNCHANGED <<doc, assertions, todo, rows, loops, conditions, authn>>

root == doc[Root]

(* Response-level id, InResponseTo and status. *)
ReadRoot ==
  Fill("root", "assertion",
    [d EXCEPT
       !.response_id = IF root.tag \in {"Response", "LogoutResponse", "ArtifactResponse"}
                       THEN IdAt({Root}) ELSE {},
       !.in_response_to = AttrAt({Root}),
       !.status = AttrAt(Child(Child({Root}, "Status"), "StatusCode"))])

(* Defect: the response's Issuer is preferred. *)
IssuerOf_RootFirst(a) ==
  OrElse(TextAt(Child({Root}, "Issuer")), TextAt(Child({a}, "Issuer")))

(* The assertion's Issuer, else the response's. *)
IssuerOf(a) ==
  OrElse(TextAt(Child({a}, "Issuer")), TextAt(Child({Root}, "Issuer")))

ReadAssertion ==
  \E a \in FirstAssertion(doc) :
    Fill("assertion", "subject",
      [d EXCEPT !.assertion_id = IdAt({a}),
                !.response_id = IF root.tag = "Assertion" THEN {} ELSE @,
                !.issuer = IssuerOf(a)])

(* No assertion: a bare request still shows its Issuer. *)
ReadBare ==
  /\ FirstAssertion(doc) = {}
  /\ Fill("assertion", "count",
       IF root.tag = "Response" THEN d
       ELSE [d EXCEPT !.issuer = TextAt(Child({Root}, "Issuer"))])

SubjectText(S) == TextAt(Child(Child(S, "Subject"), "NameID"))

Confirmation(S) ==
  AttrAt(Child(Child(Child(S, "Subject"), "SubjectConfirmation"), "SubjectConfirmationData"))

(* Defect: the confirmation's InResponseTo replaces the response's. *)
ReadSubject_Replaces ==
  Fill("subject", "conditions",
    [d EXCEPT !.subject = SubjectText(FirstAssertion(doc)),
              !.in_response_to = OrElse(Confirmation(FirstAssertion(doc)), @)])

ReadSubject ==
  Fill("subject", "conditions",
    [d EXCEPT !.subject = SubjectText(FirstAssertion(doc)),
              !.in_response_to = OrElse(@, Confirmation(FirstAssertion(doc)))])

(* Defect: only the first AudienceRestriction is read. *)
ReadConditions_OneRestriction ==
  LET cond == Child(FirstAssertion(doc), "Conditions")
  IN  Fill("conditions", "authn",
        [d EXCEPT !.window = AttrAt(cond),
                  !.audiences = AudiencesOf(Child(cond, "AudienceRestriction"))])

Restrictions(cond, tag) == UNION {ChildrenNamed(doc, c, tag) : c \in cond}

ReadConditions ==
  LET cond == Child(FirstAssertion(doc), "Conditions")
  IN  Fill("conditions", "authn",
        [d EXCEPT !.window = AttrAt(cond),
                  !.audiences = AudiencesOf(Restrictions(cond, "AudienceRestriction"))])

ReadAuthn ==
  LET statement == Child(FirstAssertion(doc), "AuthnStatement")
  IN  Fill("authn", "count",
        [d EXCEPT !.instant = AttrAt(statement),
                  !.authn_context =
                    TextAt(Child(Child(statement, "AuthnContext"), "AuthnContextClassRef"))])

(* The counts, and whether the root has a Signature child; decode returns, *)
(* and assertion_rows starts. *)
Count ==
  /\ stage = "count"
  /\ stage' = "assertions"
  /\ d' = [d EXCEPT !.assertion_count = Cardinality(Named(doc, "Assertion")),
                    !.encrypted_count = Cardinality(Named(doc, "EncryptedAssertion")),
                    !.signed = IsSigned(Root)]
  /\ todo' = Named(doc, "Assertion")
  /\ UNCHANGED <<doc, assertions, rows, loops, conditions, authn>>

-----------------------------------------------------------------------------
(* assertion_rows: one turn of its loop. *)
RowOf(a) ==
  [id |-> IdAt({a}),
   signed |-> IsSigned(a),
   issuer |-> TextAt(Child({a}, "Issuer")),
   subject |-> SubjectText({a}),
   in_response_to |-> Confirmation({a}),
   parent |-> {doc[p].tag : p \in Parents(doc, a)}]

AssertionRow ==
  /\ stage = "assertions"
  /\ todo # {}
  /\ assertions' = Append(assertions, RowOf(First(todo)))
  /\ todo' = todo \ {First(todo)}
  /\ UNCHANGED <<doc, stage, d, rows, loops, conditions, authn>>

(* assertion_rows returns, and attributes collects its statements. *)
StartAttributes ==
  /\ stage = "assertions"
  /\ todo = {}
  /\ stage' = "attributes"
  /\ stmts' = Named(doc, "AttributeStatement")
  /\ UNCHANGED <<doc, d, assertions, todo, rows, attrs, vals, owner, statement_idx,
                 conditions, authn>>

(* Defect: the index counts attributes, not statements. *)
NextStatement_CountsAttributes ==
  /\ stage = "attributes"
  /\ vals = {} /\ attrs = {} /\ stmts # {}
  /\ attrs' = ChildrenNamed(doc, First(stmts), "Attribute")
  /\ statement_idx' = statement_idx + Cardinality(attrs')
  /\ stmts' = stmts \ {First(stmts)}
  /\ UNCHANGED <<doc, stage, d, assertions, todo, rows, vals, owner, conditions, authn>>

(* attributes: the loop over statements. *)
NextStatement ==
  /\ stage = "attributes"
  /\ vals = {} /\ attrs = {} /\ stmts # {}
  /\ attrs' = ChildrenNamed(doc, First(stmts), "Attribute")
  /\ statement_idx' = statement_idx + 1
  /\ stmts' = stmts \ {First(stmts)}
  /\ UNCHANGED <<doc, stage, d, assertions, todo, rows, vals, owner, conditions, authn>>

(* Defect: values are searched at any depth, those of an assertion inside a *)
(* value included.                                                          *)
NextAttribute_AnyDepth ==
  /\ stage = "attributes"
  /\ vals = {} /\ attrs # {}
  /\ owner' = First(attrs)
  /\ vals' = Named(doc, "AttributeValue") \cap Subtree(doc, owner')
  /\ vals' # {}
  /\ attrs' = attrs \ {owner'}
  /\ UNCHANGED <<doc, stage, d, assertions, todo, rows, stmts, statement_idx,
                 conditions, authn>>

(* The loop over a statement's attributes: one with values. *)
NextAttribute ==
  /\ stage = "attributes"
  /\ vals = {} /\ attrs # {}
  /\ owner' = First(attrs)
  /\ vals' = ChildrenNamed(doc, owner', "AttributeValue")
  /\ vals' # {}
  /\ attrs' = attrs \ {owner'}
  /\ UNCHANGED <<doc, stage, d, assertions, todo, rows, stmts, statement_idx,
                 conditions, authn>>

AttributeRow(a, value) ==
  [statement_idx |-> statement_idx - 1, name |-> AttrAt({a}), value |-> value]

(* One without values has one row, with a NULL value. *)
EmptyAttribute ==
  /\ stage = "attributes"
  /\ vals = {} /\ attrs # {}
  /\ LET a == First(attrs)
     IN  /\ ChildrenNamed(doc, a, "AttributeValue") = {}
         /\ rows' = Append(rows, AttributeRow(a, {}))
         /\ attrs' = attrs \ {a}
  /\ UNCHANGED <<doc, stage, d, assertions, todo, stmts, vals, owner, statement_idx,
                 conditions, authn>>

(* The loop over an attribute's values. *)
ValueRow ==
  /\ stage = "attributes"
  /\ vals # {}
  /\ rows' = Append(rows, AttributeRow(owner, TextAt({First(vals)})))
  /\ vals' = vals \ {First(vals)}
  /\ UNCHANGED <<doc, stage, d, assertions, todo, stmts, attrs, owner, statement_idx,
                 conditions, authn>>

(* conditions and authn: the first element of their name anywhere in the    *)
(* document.                                                                *)
ConditionsView ==
  LET cond == FirstOf(Named(doc, "Conditions"))
      proxies == Restrictions(cond, "ProxyRestriction")
  IN  [window |-> AttrAt(cond),
       audiences |-> AudiencesOf(Restrictions(cond, "AudienceRestriction")),
       one_time_use |-> Child(cond, "OneTimeUse") # {},
       proxies |-> Cardinality(proxies),
       proxy_audiences |-> AudiencesOf(proxies)]

AuthnView ==
  LET statement == FirstOf(Named(doc, "AuthnStatement"))
      Context(tag) == TextAt(Child(Child(statement, "AuthnContext"), tag))
  IN  [instant |-> AttrAt(statement),
       class_ref |-> Context("AuthnContextClassRef"),
       decl_ref |-> Context("AuthnContextDeclRef"),
       authority |-> Context("AuthenticatingAuthority")]

(* attributes returns, and the two structs are read. *)
ReadViews ==
  /\ stage = "attributes"
  /\ vals = {} /\ attrs = {} /\ stmts = {}
  /\ stage' = "done"
  /\ conditions' = ConditionsView
  /\ authn' = AuthnView
  /\ UNCHANGED <<doc, d, assertions, todo, rows, loops>>

Decoding ==
  \/ ReadRoot \/ ReadAssertion \/ ReadBare \/ ReadSubject \/ ReadConditions
  \/ ReadAuthn \/ Count

Listing ==
  \/ AssertionRow \/ StartAttributes \/ NextStatement \/ NextAttribute
  \/ EmptyAttribute \/ ValueRow \/ ReadViews

Next == Decoding \/ Listing

Spec == Init /\ [][Next]_vars

done == stage = "done"

-----------------------------------------------------------------------------
(* Type invariant: the loops of attributes are nested, the values left are  *)
(* those of the attribute that owns them, and every statement is either     *)
(* left or counted.                                                         *)
TypeOK ==
  /\ todo \subseteq Named(doc, "Assertion")
  /\ attrs \subseteq Named(doc, "Attribute")
  /\ \A v \in vals : Parents(doc, v) = {owner}
  /\ stage \in {"attributes", "done"} =>
       statement_idx + Cardinality(stmts) = Cardinality(Named(doc, "AttributeStatement"))
  /\ \A n \in DOMAIN rows : rows[n].statement_idx < statement_idx

(* What decode has read it does not read again: the response's InResponseTo *)
(* stays when the subject confirmation has another, and the reset of        *)
(* response_id under a root Assertion takes nothing back (message.rs:51-66, *)
(* 83-85).                                                                  *)
FieldsSettle ==
  [][\A field \in DOMAIN d : d[field] # Default[field] => d'[field] = d[field]]_vars

(* The first row of assertions() is the assertion decode() shows: same id   *)
(* and subject; its issuer and InResponseTo, where it has them, are         *)
(* decode's unless the response's own InResponseTo comes first; with no row *)
(* decode shows no assertion (message.rs:60-127, attributes.rs:54-88).      *)
FirstRowIsDecoded ==
  done =>
    /\ Len(assertions) = d.assertion_count
    /\ assertions = <<>> => d.assertion_id = {} /\ d.subject = {}
    /\ assertions # <<>> =>
         LET row == assertions[1]
         IN  /\ row.id = d.assertion_id
             /\ row.subject = d.subject
             /\ row.issuer # {} => row.issuer = d.issuer
             /\ row.in_response_to # {} => d.in_response_to # {}
             /\ AttrAt({Root}) = {} => row.in_response_to = d.in_response_to
             /\ row.parent = {} => row.signed = d.signed

(* Every element of a name is a child of an assertion, and the first        *)
(* assertion has one that comes before all assertions nested in it.         *)
OwnedByAssertions(tag) ==
  /\ \A i \in Named(doc, tag) : \E p \in Parents(doc, i) : doc[p].tag = "Assertion"
  /\ \E a \in FirstAssertion(doc) :
       \E c \in ChildrenNamed(doc, a, tag) :
         \A b \in Named(doc, "Assertion") \ {a} : c < b

(* conditions() and authn() show what decode() shows of the first           *)
(* assertion, though they search the whole document: whenever the first     *)
(* assertion has such an element before any assertion nested in it.  The    *)
(* schema puts Conditions there; statements follow Advice, so that a nested *)
(* assertion's AuthnStatement can come first (conditions.rs:12-28,          *)
(* authn.rs:11-27, message.rs:92-113).                                      *)
ViewsAgree ==
  done =>
    /\ OwnedByAssertions("Conditions") =>
         /\ conditions.window = d.window
         /\ conditions.audiences = d.audiences
    /\ OwnedByAssertions("AuthnStatement") =>
         /\ authn.instant = d.instant
         /\ authn.class_ref = d.authn_context

-----------------------------------------------------------------------------
(* attributes() reports every AttributeValue of every Attribute of every    *)
(* statement, and every Attribute without values, exactly once: statement   *)
(* by statement, each under the number and name of its own (attributes.rs:  *)
(* 9-50).  When the views are done, none is missing.                        *)
Slots(message) ==
  LET Values(a) == IF ChildrenNamed(message, a, "AttributeValue") = {} THEN {a}
                   ELSE ChildrenNamed(message, a, "AttributeValue")
      Of(s) == UNION {{<<s, a, v>> : v \in Values(a)} :
                        a \in ChildrenNamed(message, s, "Attribute")}
  IN  UNION {Of(s) : s \in Named(message, "AttributeStatement")}

Entry(message, n) ==
  LET slots == Slots(message)
      Before(p, q) == p[1] < q[1] \/ (p[1] = q[1] /\ p[3] < q[3])
      slot == CHOOSE q \in slots : Cardinality({p \in slots : Before(p, q)}) = n - 1
      statements == {s \in Named(message, "AttributeStatement") : s < slot[1]}
  IN  [statement_idx |-> Cardinality(statements),
       name |-> {message[slot[2]].attr} \ {NoAttr},
       value |-> IF slot[3] = slot[2] THEN {} ELSE {message[slot[3]].text} \ {NoText}]

Total(message) == Cardinality(Slots(message))

Abstract == INSTANCE Report

ImplementsReport == Abstract!Safety /\ [](done => Len(rows) = Total(doc))
=============================================================================
