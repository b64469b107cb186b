---------------------------- MODULE DecodeProofs ----------------------------
(***************************************************************************)
(* message.rs and attributes.rs, for every set of documents: the views of  *)
(* one message agree.  The inductive invariant gives the value of every    *)
(* field decode has read, and of the fields it has yet to read their       *)
(* default; says how far assertion_rows is; and bounds the nested loops of *)
(* attributes.  For the refinement of Report it is strengthened by what    *)
(* those loops have left: an upper part of the order of the rows due.      *)
(***************************************************************************)
EXTENDS Decode, DocumentLemmas, SequenceTheorems

Assertions == Named(doc, "Assertion")
Wanted == FirstAssertion(doc)

(* What decode reads for each field. *)
ResponseId ==
  IF root.tag \in {"Response", "LogoutResponse", "ArtifactResponse"}
  THEN IdAt({Root}) ELSE {}
Answered == AttrAt({Root})
Status == AttrAt(Child(Child({Root}, "Status"), "StatusCode"))
AnsweredBy == OrElse(AttrAt({Root}), Confirmation(Wanted))
BareIssuer == IF root.tag = "Response" THEN {} ELSE TextAt(Child({Root}, "Issuer"))
Window == AttrAt(Child(Wanted, "Conditions"))
Audiences == AudiencesOf(Restrictions(Child(Wanted, "Conditions"), "AudienceRestriction"))
Instant == AttrAt(Child(Wanted, "AuthnStatement"))
Context ==
  TextAt(Child(Child(Child(Wanted, "AuthnStatement"), "AuthnContext"),
               "AuthnContextClassRef"))

FieldNames ==
  {"response_id", "in_response_to", "status", "assertion_id", "issuer", "subject",
   "window", "audiences", "instant", "authn_context", "assertion_count",
   "encrypted_count", "signed"}

(* A field of the assertion, left out before the stages that follow its own *)
(* and when there is no assertion.                                          *)
Unread(before) == Wanted = {} \/ stage \in before

Counted == stage \in {"assertions", "attributes", "done"}

Fields ==
  /\ DOMAIN d = FieldNames
  /\ d.response_id = IF stage = "root" THEN {} ELSE ResponseId
  /\ d.in_response_to =
       IF stage = "root" THEN {}
       ELSE IF Unread({"assertion", "subject"}) THEN Answered ELSE AnsweredBy
  /\ d.status = IF stage = "root" THEN {} ELSE Status
  /\ d.assertion_id = IF Unread({"root", "assertion"}) THEN {} ELSE IdAt(Wanted)
  /\ d.issuer =
       IF stage \in {"root", "assertion"} THEN {}
       ELSE IF Wanted = {} THEN BareIssuer ELSE IssuerOf(First(Assertions))
  /\ d.subject =
       IF Unread({"root", "assertion", "subject"}) THEN {} ELSE SubjectText(Wanted)
  /\ d.window =
       IF Unread({"root", "assertion", "subject", "conditions"}) THEN {} ELSE Window
  /\ d.audiences =
       IF Unread({"root", "assertion", "subject", "conditions"}) THEN <<>> ELSE Audiences
  /\ d.instant =
       IF Unread({"root", "assertion", "subject", "conditions", "authn"}) THEN {}
       ELSE Instant
  /\ d.authn_context =
       IF Unread({"root", "assertion", "subject", "conditions", "authn"}) THEN {}
       ELSE Context
  /\ d.assertion_count = IF Counted THEN Cardinality(Assertions) ELSE 0
  /\ d.encrypted_count =
       IF Counted THEN Cardinality(Named(doc, "EncryptedAssertion")) ELSE 0
  /\ d.signed = IF Counted THEN IsSigned(Root) ELSE FALSE
  /\ stage \in {"subject", "conditions", "authn"} => Wanted # {}

(* One row for every assertion taken, that of the first one first. *)
Listed ==
  /\ todo \subseteq Assertions
  /\ assertions \in Seq({RowOf(a) : a \in Assertions})
  /\ assertions # <<>> => assertions[1] = RowOf(First(Assertions))
  /\ stage \in {"root", "assertion", "subject", "conditions", "authn", "count"} =>
       assertions = <<>>
  /\ stage = "assertions" =>
       /\ assertions = <<>> => todo = Assertions
       /\ Len(assertions) = Cardinality(Assertions \ todo)
  /\ stage \in {"attributes", "done"} => Len(assertions) = Cardinality(Assertions)

RowType ==
  [statement_idx : Nat,
   name : SUBSET {doc[i].attr : i \in Nodes(doc)},
   value : SUBSET {doc[i].text : i \in Nodes(doc)}]

Loops ==
  /\ statement_idx \in Nat
  /\ stmts \subseteq Named(doc, "AttributeStatement")
  /\ attrs # {} => statement_idx > 0
  /\ vals # {} =>
       /\ statement_idx > 0
       /\ owner \in Nodes(doc)
       /\ vals \subseteq ChildrenNamed(doc, owner, "AttributeValue")
  /\ rows \in Seq(RowType)
  /\ stage \notin {"attributes", "done"} =>
       stmts = {} /\ attrs = {} /\ vals = {} /\ rows = <<>> /\ statement_idx = 0

Views == done => conditions = ConditionsView /\ authn = AuthnView

Stages ==
  {"root", "assertion", "subject", "conditions", "authn", "count",
   "assertions", "attributes", "done"}

IInv ==
  /\ doc \in Documents
  /\ stage \in Stages
  /\ TypeOK
  /\ Fields
  /\ Listed
  /\ Loops
  /\ Views

-----------------------------------------------------------------------------
(* decode takes the first assertion, when there is one. *)
LEMMA TheWanted ==
  ASSUME doc \in Documents
  PROVE  /\ IsDocument(doc)
         /\ Assertions \in SUBSET Nodes(doc) /\ IsFiniteSet(Assertions)
         /\ Wanted = {} <=> Assertions = {}
         /\ Assertions # {} =>
              Wanted = {First(Assertions)} /\ First(Assertions) \in Assertions
<1>1. IsDocument(doc)
  BY DocumentsAssumption
<1>2. Assertions \in SUBSET Nodes(doc)
  BY <1>1, NodeSets DEF Assertions
<1>3. /\ IsFiniteSet(Assertions)
      /\ Assertions # {} =>
           FirstOf(Assertions) = {First(Assertions)} /\ First(Assertions) \in Assertions
  BY <1>1, <1>2, FirstOfNodes
<1>4. Wanted = FirstOf(Assertions)
  BY DEF Wanted, FirstAssertion, Assertions
<1>5. Assertions = {} => Wanted = {}
  BY <1>4 DEF FirstOf
<1> QED BY <1>1, <1>2, <1>3, <1>4, <1>5

DecodeStages == {"root", "assertion", "subject", "conditions", "authn", "count"}

(* While decode fills in its struct, all else stands still. *)
LEMMA FillKeeps ==
  ASSUME IInv, stage \in DecodeStages, stage' \in DecodeStages,
         UNCHANGED <<doc, assertions, todo, rows, loops, conditions, authn>>,
         Fields'
  PROVE  IInv'
<1>1. doc' \in Documents /\ stage' \in Stages
  BY DEF IInv, DecodeStages, Stages
<1>2. /\ doc' = doc /\ assertions' = assertions /\ todo' = todo /\ rows' = rows
      /\ stmts' = stmts /\ attrs' = attrs /\ vals' = vals /\ owner' = owner
      /\ statement_idx' = statement_idx
  BY DEF loops
<1>3. TypeOK'
  BY <1>2 DEF IInv, TypeOK, DecodeStages
<1>4. Listed'
  <2>1. stage' \notin {"assertions", "attributes", "done"}
    BY DEF DecodeStages
  <2>2. assertions = <<>>
    BY DEF IInv, Listed, DecodeStages
  <2>3. (Assertions = Assertions') /\ (\A a : RowOf(a) = RowOf(a)')
    BY <1>2 DEF Assertions, RowOf, IdAt, IsSigned, TextAt, SubjectText, Confirmation,
                Child, AttrAt
  <2> QED BY <1>2, <2>1, <2>2, <2>3 DEF IInv, Listed
<1>5. Loops'
  BY <1>2 DEF IInv, Loops, DecodeStages, RowType
<1>6. Views'
  BY DEF Views, done, DecodeStages
<1> QED BY <1>1, <1>3, <1>4, <1>5, <1>6 DEF IInv

(* What there is to read depends on the document alone. *)
LEMMA ValuesStay ==
  ASSUME doc' = doc
  PROVE  /\ ResponseId' = ResponseId /\ Answered' = Answered /\ Status' = Status
         /\ AnsweredBy' = AnsweredBy /\ BareIssuer' = BareIssuer
         /\ Window' = Window /\ Audiences' = Audiences
         /\ Instant' = Instant /\ Context' = Context
         /\ Wanted' = Wanted /\ Assertions' = Assertions
         /\ IdAt(Wanted)' = IdAt(Wanted) /\ SubjectText(Wanted)' = SubjectText(Wanted)
         /\ IssuerOf(First(Assertions))' = IssuerOf(First(Assertions))
         /\ IsSigned(Root)' = IsSigned(Root)
BY DEF ResponseId, Answered, Status, AnsweredBy, BareIssuer, Window,
       Audiences, Instant, Context, root, IdAt, AttrAt, TextAt, Child, Confirmation,
       Wanted, Assertions, IssuerOf, SubjectText, Restrictions, AudiencesOf, IsSigned

LEMMA ReadRootPreserves == IInv /\ ReadRoot => IInv'
<1> SUFFICES ASSUME IInv, ReadRoot PROVE IInv'
  OBVIOUS
<1>1. /\ stage = "root" /\ stage' = "assertion" /\ doc' = doc
      /\ UNCHANGED <<doc, assertions, todo, rows, loops, conditions, authn>>
      /\ d' = [d EXCEPT !.response_id = ResponseId,
                        !.in_response_to = Answered,
                        !.status = Status]
  BY DEF ReadRoot, Fill, ResponseId, Answered, Status
<1>2. Fields
  BY DEF IInv
<1>3. Fields'
  BY <1>1, <1>2, ValuesStay DEF Fields, FieldNames, Unread, Counted
<1> QED BY <1>1, <1>3, FillKeeps DEF DecodeStages

LEMMA ReadAssertionPreserves == IInv /\ ReadAssertion => IInv'
<1> SUFFICES ASSUME IInv, ReadAssertion PROVE IInv'
  OBVIOUS
<1>1. Wanted = {First(Assertions)}
  <2>1. Wanted # {}
    BY DEF ReadAssertion, Wanted
  <2> QED BY <2>1, TheWanted DEF IInv
<1>2. /\ stage = "assertion" /\ stage' = "subject" /\ doc' = doc
      /\ UNCHANGED <<doc, assertions, todo, rows, loops, conditions, authn>>
      /\ d' = [d EXCEPT !.assertion_id = IdAt({First(Assertions)}),
                        !.response_id = IF root.tag = "Assertion" THEN {} ELSE @,
                        !.issuer = IssuerOf(First(Assertions))]
  BY <1>1 DEF ReadAssertion, Fill, Wanted
<1>3. Fields
  BY DEF IInv
<1>4. root.tag = "Assertion" => ResponseId = {}
  BY DEF ResponseId
<1>5. Fields'
  BY <1>1, <1>2, <1>3, <1>4, ValuesStay DEF Fields, FieldNames, Unread, Counted
<1> QED BY <1>2, <1>5, FillKeeps DEF DecodeStages

LEMMA ReadBarePreserves == IInv /\ ReadBare => IInv'
<1> SUFFICES ASSUME IInv, ReadBare PROVE IInv'
  OBVIOUS
<1>1. /\ Wanted = {}
      /\ stage = "assertion" /\ stage' = "count" /\ doc' = doc
      /\ UNCHANGED <<doc, assertions, todo, rows, loops, conditions, authn>>
      /\ d' = IF root.tag = "Response" THEN d ELSE [d EXCEPT !.issuer = BareIssuer]
  BY DEF ReadBare, Fill, Wanted, BareIssuer
<1>2. Fields
  BY DEF IInv
<1>3. root.tag = "Response" => BareIssuer = {}
  BY DEF BareIssuer
<1>4. Fields'
  BY <1>1, <1>2, <1>3, ValuesStay DEF Fields, FieldNames, Unread, Counted
<1> QED BY <1>1, <1>4, FillKeeps DEF DecodeStages

LEMMA ReadSubjectPreserves == IInv /\ ReadSubject => IInv'
<1> SUFFICES ASSUME IInv, ReadSubject PROVE IInv'
  OBVIOUS
<1>1. /\ stage = "subject" /\ stage' = "conditions" /\ doc' = doc
      /\ UNCHANGED <<doc, assertions, todo, rows, loops, conditions, authn>>
      /\ d' = [d EXCEPT !.subject = SubjectText(Wanted),
                        !.in_response_to = OrElse(@, Confirmation(Wanted))]
  BY DEF ReadSubject, Fill, Wanted
<1>2. Fields
  BY DEF IInv
<1>3. AnsweredBy = OrElse(Answered, Confirmation(Wanted))
  BY DEF AnsweredBy, Answered
<1>4. Fields'
  BY <1>1, <1>2, <1>3, ValuesStay DEF Fields, FieldNames, Unread, Counted
<1> QED BY <1>1, <1>4, FillKeeps DEF DecodeStages

LEMMA ReadConditionsPreserves == IInv /\ ReadConditions => IInv'
<1> SUFFICES ASSUME IInv, ReadConditions PROVE IInv'
  OBVIOUS
<1>1. /\ stage = "conditions" /\ stage' = "authn" /\ doc' = doc
      /\ UNCHANGED <<doc, assertions, todo, rows, loops, conditions, authn>>
      /\ d' = [d EXCEPT !.window = Window, !.audiences = Audiences]
  BY DEF ReadConditions, Fill, Wanted, Window, Audiences
<1>2. Fields
  BY DEF IInv
<1>3. Fields'
  BY <1>1, <1>2, ValuesStay DEF Fields, FieldNames, Unread, Counted
<1> QED BY <1>1, <1>3, FillKeeps DEF DecodeStages

LEMMA ReadAuthnPreserves == IInv /\ ReadAuthn => IInv'
<1> SUFFICES ASSUME IInv, ReadAuthn PROVE IInv'
  OBVIOUS
<1>1. /\ stage = "authn" /\ stage' = "count" /\ doc' = doc
      /\ UNCHANGED <<doc, assertions, todo, rows, loops, conditions, authn>>
      /\ d' = [d EXCEPT !.instant = Instant, !.authn_context = Context]
  BY DEF ReadAuthn, Fill, Wanted, Instant, Context
<1>2. Fields
  BY DEF IInv
<1>3. Fields'
  BY <1>1, <1>2, ValuesStay DEF Fields, FieldNames, Unread, Counted
<1> QED BY <1>1, <1>3, FillKeeps DEF DecodeStages

LEMMA InitEstablishes == Init => IInv
<1> SUFFICES ASSUME Init PROVE IInv
  OBVIOUS
<1>1. doc \in Documents /\ stage \in Stages /\ stage = "root"
  BY DEF Init, Stages
<1>2. Fields
  BY <1>1 DEF Init, Default, Fields, FieldNames, Unread, Counted
<1>3. Listed
  BY <1>1, EmptySeq DEF Init, Listed
<1>4. Loops
  BY <1>1, EmptySeq DEF Init, Loops
<1>5. TypeOK
  BY <1>1 DEF Init, TypeOK
<1> QED BY <1>1, <1>2, <1>3, <1>4, <1>5 DEF IInv, Views, done

(* decode returns its counts, and assertion_rows starts with every assertion. *)
LEMMA CountPreserves == IInv /\ Count => IInv'
<1> SUFFICES ASSUME IInv, Count PROVE IInv'
  OBVIOUS
<1>1. /\ stage = "count" /\ stage' = "assertions" /\ doc' = doc
      /\ d' = [d EXCEPT !.assertion_count = Cardinality(Assertions),
                        !.encrypted_count = Cardinality(Named(doc, "EncryptedAssertion")),
                        !.signed = IsSigned(Root)]
      /\ todo' = Assertions
      /\ assertions' = assertions /\ rows' = rows
      /\ stmts' = stmts /\ attrs' = attrs /\ vals' = vals /\ owner' = owner
      /\ statement_idx' = statement_idx
  BY DEF Count, Assertions, loops
<1>2. doc' \in Documents /\ stage' \in Stages
  BY <1>1 DEF IInv, Stages
<1>3. Fields'
  <2>1. Fields
    BY DEF IInv
  <2> QED BY <1>1, <2>1, ValuesStay DEF Fields, FieldNames, Unread, Counted
<1>4. assertions = <<>> /\ rows = <<>> /\ attrs = {} /\ vals = {}
  BY <1>1 DEF IInv, Listed, Loops
<1>5. Listed'
  <2>1. Assertions' = Assertions
    BY <1>1, ValuesStay
  <2>2. Len(assertions') = Cardinality(Assertions \ todo')
    <3>1. Assertions \ todo' = {} /\ Len(assertions') = 0
      BY <1>1, <1>4
    <3> QED BY <3>1, FS_EmptySet
  <2> QED BY <1>1, <1>4, <2>1, <2>2, EmptySeq DEF Listed
<1>6. Loops'
  BY <1>1 DEF IInv, Loops, RowType
<1>7. TypeOK'
  BY <1>1, <1>4 DEF TypeOK, Assertions
<1> QED BY <1>1, <1>2, <1>3, <1>5, <1>6, <1>7 DEF IInv, Views, done

(* Past decode, its struct stands still. *)
LEMMA FieldsKept ==
  ASSUME IInv, doc' = doc, d' = d,
         stage \in {"assertions", "attributes"},
         stage' \in {"assertions", "attributes", "done"}
  PROVE  Fields' /\ doc' \in Documents /\ stage' \in Stages
<1>1. Fields /\ doc \in Documents
  BY DEF IInv
<1> QED BY <1>1, ValuesStay DEF Fields, FieldNames, Unread, Counted, Stages

(* A row of assertion_rows depends on the document alone. *)
LEMMA RowsStay ==
  ASSUME doc' = doc
  PROVE  /\ {RowOf(a) : a \in Assertions}' = {RowOf(a) : a \in Assertions}
         /\ RowOf(First(Assertions))' = RowOf(First(Assertions))
BY DEF RowOf, Assertions, IdAt, IsSigned, TextAt, SubjectText, Confirmation, Child, AttrAt

LEMMA AssertionRowPreserves == IInv /\ AssertionRow => IInv'
<1> SUFFICES ASSUME IInv, AssertionRow PROVE IInv'
  OBVIOUS
<1> DEFINE a == First(todo)
<1>1. /\ stage = "assertions" /\ stage' = stage /\ todo # {}
      /\ assertions' = Append(assertions, RowOf(a)) /\ todo' = todo \ {a}
      /\ doc' = doc /\ d' = d /\ rows' = rows
      /\ stmts' = stmts /\ attrs' = attrs /\ vals' = vals /\ owner' = owner
      /\ statement_idx' = statement_idx
  BY DEF AssertionRow, loops
<1>2. /\ IsDocument(doc) /\ IsFiniteSet(Assertions) /\ todo \subseteq Assertions
      /\ Assertions \in SUBSET Nodes(doc)
  BY TheWanted DEF IInv, Listed
<1>3. a \in todo
  <2>1. todo \in SUBSET Nodes(doc)
    BY <1>2
  <2> QED BY <1>1, <1>2, <2>1, FirstOfNodes
<1> HIDE DEF a
<1>4. /\ assertions \in Seq({RowOf(b) : b \in Assertions})
      /\ Len(assertions) = Cardinality(Assertions \ todo)
      /\ assertions = <<>> => todo = Assertions
      /\ assertions # <<>> => assertions[1] = RowOf(First(Assertions))
  BY <1>1 DEF IInv, Listed
<1>5. /\ assertions' \in Seq({RowOf(b) : b \in Assertions})
      /\ Len(assertions') = Len(assertions) + 1 /\ Len(assertions) \in Nat
      /\ assertions # <<>> => assertions'[1] = assertions[1]
      /\ assertions = <<>> => assertions'[1] = RowOf(a)
      /\ assertions' # <<>>
  <2> DEFINE S == {RowOf(b) : b \in Assertions}
             row == RowOf(a)
  <2>1. row \in S /\ assertions \in Seq(S) /\ assertions' = Append(assertions, row)
    BY <1>1, <1>2, <1>3, <1>4
  <2> HIDE DEF S, row
  <2>2. /\ assertions' \in Seq(S)
        /\ Len(assertions') = Len(assertions) + 1
        /\ \A i \in 1 .. Len(assertions) : assertions'[i] = assertions[i]
        /\ assertions'[Len(assertions) + 1] = row
        /\ assertions' # <<>>
    BY <2>1, AppendProperties
  <2>3. /\ Len(assertions) \in Nat
        /\ assertions # <<>> => Len(assertions) >= 1
        /\ assertions = <<>> => Len(assertions) = 0
    BY <2>1, LenProperties, EmptySeq
  <2>4. assertions # <<>> => assertions'[1] = assertions[1]
    BY <2>2, <2>3
  <2>5. assertions = <<>> => assertions'[1] = row
    BY <2>2, <2>3
  <2> QED BY <2>2, <2>3, <2>4, <2>5 DEF S, row
<1>6. Len(assertions') = Cardinality(Assertions \ todo')
  <2>1. Assertions \ todo' = (Assertions \ todo) \cup {a} /\ a \notin Assertions \ todo
    BY <1>1, <1>2, <1>3
  <2>2. IsFiniteSet(Assertions \ todo)
    BY <1>2, FS_Difference
  <2>3. Cardinality((Assertions \ todo) \cup {a}) = Cardinality(Assertions \ todo) + 1
    BY <2>1, <2>2, FS_AddElement
  <2> QED BY <1>4, <1>5, <2>1, <2>3
<1>7. assertions'[1] = RowOf(First(Assertions))
  BY <1>4, <1>5 DEF a
<1>8. Listed'
  <2>1. Assertions' = Assertions /\ todo' \subseteq Assertions
    BY <1>1, <1>2, ValuesStay
  <2> QED BY <1>1, <1>5, <1>6, <1>7, <2>1, RowsStay DEF Listed
<1>9. Loops'
  BY <1>1 DEF IInv, Loops, RowType
<1>10. TypeOK'
  <2>1. todo' \subseteq Named(doc, "Assertion")
    BY <1>1, <1>2 DEF Assertions
  <2> QED BY <1>1, <2>1 DEF IInv, TypeOK
<1> QED BY <1>1, <1>8, <1>9, <1>10, FieldsKept DEF IInv, Views, done

(* The loops of attributes leave decode's struct and assertion_rows alone. *)
LEMMA LoopsKeep ==
  ASSUME IInv, doc' = doc, d' = d, assertions' = assertions, todo' = todo,
         stage \in {"assertions", "attributes"}, stage' \in {"attributes", "done"},
         stage = "assertions" => todo = {},
         Loops', TypeOK', Views'
  PROVE  IInv'
<1>1. Listed'
  <2>1. Listed
    BY DEF IInv
  <2>2. Assertions' = Assertions
    BY ValuesStay
  <2>3. stage = "assertions" => Assertions \ todo = Assertions
    OBVIOUS
  <2> QED BY <2>1, <2>2, <2>3, RowsStay DEF Listed
<1> QED BY <1>1, FieldsKept DEF IInv

LEMMA StartAttributesPreserves == IInv /\ StartAttributes => IInv'
<1> SUFFICES ASSUME IInv, StartAttributes PROVE IInv'
  OBVIOUS
<1>1. /\ stage = "assertions" /\ stage' = "attributes" /\ todo = {}
      /\ stmts' = Named(doc, "AttributeStatement")
      /\ doc' = doc /\ d' = d /\ assertions' = assertions /\ todo' = todo /\ rows' = rows
      /\ attrs' = attrs /\ vals' = vals /\ owner' = owner /\ statement_idx' = statement_idx
  BY DEF StartAttributes
<1>2. attrs = {} /\ vals = {} /\ rows = <<>> /\ statement_idx = 0
  BY <1>1 DEF IInv, Loops
<1>3. Loops'
  BY <1>1, <1>2, EmptySeq DEF Loops
<1>4. TypeOK'
  <2>1. Cardinality(Named(doc, "AttributeStatement")) \in Nat
    <3>1. IsDocument(doc)
      BY DocumentsAssumption DEF IInv
    <3>2. IsFiniteSet(Named(doc, "AttributeStatement"))
      BY <3>1, NodeSets, FirstOfNodes
    <3> QED BY <3>2, FS_CardinalityType
  <2> QED BY <1>1, <1>2, <2>1 DEF TypeOK, IInv
<1> QED BY <1>1, <1>3, <1>4, LoopsKeep DEF Views, done

LEMMA NextStatementPreserves == IInv /\ NextStatement => IInv'
<1> SUFFICES ASSUME IInv, NextStatement PROVE IInv'
  OBVIOUS
<1> DEFINE s == First(stmts)
           all == Named(doc, "AttributeStatement")
<1>1. /\ stage = "attributes" /\ stage' = stage /\ vals = {} /\ stmts # {}
      /\ attrs' = ChildrenNamed(doc, s, "Attribute")
      /\ statement_idx' = statement_idx + 1 /\ stmts' = stmts \ {s}
      /\ doc' = doc /\ d' = d /\ assertions' = assertions /\ todo' = todo /\ rows' = rows
      /\ vals' = vals /\ owner' = owner
  BY DEF NextStatement
<1>2. /\ IsDocument(doc) /\ statement_idx \in Nat /\ stmts \subseteq all
      /\ all \in SUBSET Nodes(doc) /\ IsFiniteSet(all)
      /\ rows \in Seq(RowType)
  BY DocumentsAssumption, NodeSets, FirstOfNodes DEF IInv, Loops
<1>3. s \in stmts
  <2>1. stmts \in SUBSET Nodes(doc)
    BY <1>2
  <2> QED BY <1>1, <1>2, <2>1, FirstOfNodes
<1>4. statement_idx' + Cardinality(stmts') = Cardinality(all)
  <2>1. IsFiniteSet(stmts)
    BY <1>2, FS_Subset
  <2>2. Cardinality(stmts') = Cardinality(stmts) - 1 /\ Cardinality(stmts) \in Nat
    BY <1>1, <1>3, <2>1, FS_RemoveElement, FS_CardinalityType
  <2>3. statement_idx + Cardinality(stmts) = Cardinality(all)
    BY <1>1 DEF IInv, TypeOK
  <2> QED BY <1>1, <1>2, <2>2, <2>3
<1> HIDE DEF s
<1>5. Loops'
  <2>1. stmts' \subseteq all /\ statement_idx' \in Nat /\ statement_idx' > 0
    BY <1>1, <1>2
  <2> QED BY <1>1, <1>2, <2>1 DEF Loops, RowType
<1>6. TypeOK'
  <2>1. attrs' \subseteq Named(doc, "Attribute")
    <3>1. s \in Nodes(doc)
      BY <1>2, <1>3
    <3>2. attrs' \in SUBSET Nodes(doc)
      BY <1>1, <1>2, <3>1, NodeSets
    <3> QED BY <1>1, <3>2 DEF ChildrenNamed, Named
  <2>2. \A n \in DOMAIN rows' : rows'[n].statement_idx < statement_idx'
    <3> SUFFICES ASSUME NEW n \in DOMAIN rows
                 PROVE  rows[n].statement_idx < statement_idx + 1
      BY <1>1
    <3>1. rows[n] \in RowType
      BY <1>2
    <3>2. rows[n].statement_idx < statement_idx
      BY DEF IInv, TypeOK
    <3> QED BY <1>2, <3>1, <3>2 DEF RowType
  <2> QED BY <1>1, <1>4, <2>1, <2>2 DEF IInv, TypeOK
<1> QED BY <1>1, <1>5, <1>6, LoopsKeep DEF Views, done

(* The next attribute is one of the statement's. *)
LEMMA TheAttribute ==
  ASSUME IInv, attrs # {}
  PROVE  /\ IsDocument(doc) /\ First(attrs) \in attrs /\ First(attrs) \in Nodes(doc)
         /\ attrs \subseteq Named(doc, "Attribute")
         /\ statement_idx \in Nat /\ statement_idx > 0
         /\ rows \in Seq(RowType)
<1>1. /\ IsDocument(doc) /\ attrs \subseteq Named(doc, "Attribute")
      /\ statement_idx \in Nat /\ statement_idx > 0 /\ rows \in Seq(RowType)
  BY DocumentsAssumption DEF IInv, Loops, TypeOK
<1>2. attrs \in SUBSET Nodes(doc)
  BY <1>1 DEF Named
<1> QED BY <1>1, <1>2, FirstOfNodes

LEMMA NextAttributePreserves == IInv /\ NextAttribute => IInv'
<1> SUFFICES ASSUME IInv, NextAttribute PROVE IInv'
  OBVIOUS
<1>1. /\ stage = "attributes" /\ stage' = stage /\ attrs # {}
      /\ owner' = First(attrs)
      /\ vals' = ChildrenNamed(doc, owner', "AttributeValue")
      /\ attrs' = attrs \ {owner'}
      /\ doc' = doc /\ d' = d /\ assertions' = assertions /\ todo' = todo /\ rows' = rows
      /\ stmts' = stmts /\ statement_idx' = statement_idx
  BY DEF NextAttribute
<1>2. /\ IsDocument(doc) /\ owner' \in Nodes(doc)
      /\ statement_idx \in Nat /\ statement_idx > 0
  BY <1>1, TheAttribute
<1>3. Loops'
  BY <1>1, <1>2 DEF IInv, Loops, RowType
<1>4. TypeOK'
  <2>1. \A v \in vals' : Parents(doc, v) = {owner'}
    BY <1>1 DEF ChildrenNamed, Children
  <2> QED BY <1>1, <2>1 DEF IInv, TypeOK
<1> QED BY <1>1, <1>3, <1>4, LoopsKeep DEF Views, done

(* A row is published under the statement last begun. *)
LEMMA RowPublished ==
  ASSUME IInv, NEW a \in Nodes(doc), NEW value \in SUBSET {doc[i].text : i \in Nodes(doc)},
         statement_idx > 0, rows' = Append(rows, AttributeRow(a, value))
  PROVE  /\ rows' \in Seq(RowType)
         /\ \A n \in DOMAIN rows' : rows'[n].statement_idx < statement_idx
<1> DEFINE row == AttributeRow(a, value)
<1>1. statement_idx \in Nat /\ rows \in Seq(RowType)
  BY DEF IInv, Loops
<1>2. row \in RowType /\ row.statement_idx < statement_idx
  <2>1. AttrAt({a}) \in SUBSET {doc[i].attr : i \in Nodes(doc)}
    BY DEF AttrAt
  <2>2. statement_idx - 1 \in Nat /\ statement_idx - 1 < statement_idx
    BY <1>1
  <2> QED BY <2>1, <2>2 DEF AttributeRow, RowType
<1> HIDE DEF row
<1>3. \A n \in 1 .. Len(rows) : rows[n].statement_idx < statement_idx
  BY <1>1, LenProperties DEF IInv, TypeOK
<1>4. /\ rows' \in Seq(RowType) /\ Len(rows') = Len(rows) + 1 /\ Len(rows) \in Nat
      /\ \A n \in 1 .. Len(rows) : rows'[n] = rows[n]
      /\ rows'[Len(rows) + 1] = row
      /\ DOMAIN rows' = 1 .. Len(rows')
  <2>1. rows' = Append(rows, row)
    BY DEF row
  <2> QED BY <1>1, <1>2, <2>1, AppendProperties, LenProperties
<1>5. ASSUME NEW n \in DOMAIN rows' PROVE rows'[n].statement_idx < statement_idx
  <2>1. n \in 1 .. Len(rows) \/ n = Len(rows) + 1
    BY <1>4
  <2> QED BY <1>2, <1>3, <1>4, <2>1
<1> QED BY <1>4, <1>5

LEMMA EmptyAttributePreserves == IInv /\ EmptyAttribute => IInv'
<1> SUFFICES ASSUME IInv, EmptyAttribute PROVE IInv'
  OBVIOUS
<1> DEFINE a == First(attrs)
<1>1. /\ stage = "attributes" /\ stage' = stage /\ vals = {} /\ attrs # {}
      /\ rows' = Append(rows, AttributeRow(a, {})) /\ attrs' = attrs \ {a}
      /\ doc' = doc /\ d' = d /\ assertions' = assertions /\ todo' = todo
      /\ stmts' = stmts /\ vals' = vals /\ owner' = owner
      /\ statement_idx' = statement_idx
  BY DEF EmptyAttribute
<1>2. /\ a \in Nodes(doc) /\ statement_idx \in Nat /\ statement_idx > 0
  BY <1>1, TheAttribute
<1> HIDE DEF a
<1>3. /\ rows' \in Seq(RowType)
      /\ \A n \in DOMAIN rows' : rows'[n].statement_idx < statement_idx
  <2>1. {} \in SUBSET {doc[i].text : i \in Nodes(doc)}
    OBVIOUS
  <2> QED BY <1>1, <1>2, <2>1, RowPublished
<1>4. Loops'
  BY <1>1, <1>2, <1>3 DEF IInv, Loops, RowType
<1>5. TypeOK'
  BY <1>1, <1>3 DEF IInv, TypeOK
<1> QED BY <1>1, <1>4, <1>5, LoopsKeep DEF Views, done

LEMMA ValueRowPreserves == IInv /\ ValueRow => IInv'
<1> SUFFICES ASSUME IInv, ValueRow PROVE IInv'
  OBVIOUS
<1> DEFINE v == First(vals)
<1>1. /\ stage = "attributes" /\ stage' = stage /\ vals # {}
      /\ rows' = Append(rows, AttributeRow(owner, TextAt({v}))) /\ vals' = vals \ {v}
      /\ doc' = doc /\ d' = d /\ assertions' = assertions /\ todo' = todo
      /\ stmts' = stmts /\ attrs' = attrs /\ owner' = owner
      /\ statement_idx' = statement_idx
  BY DEF ValueRow
<1>2. /\ IsDocument(doc) /\ owner \in Nodes(doc) /\ statement_idx > 0
      /\ statement_idx \in Nat
      /\ vals \subseteq ChildrenNamed(doc, owner, "AttributeValue")
  BY <1>1, DocumentsAssumption DEF IInv, Loops
<1>3. v \in Nodes(doc)
  <2>1. vals \in SUBSET Nodes(doc)
    BY <1>2, NodeSets
  <2> QED BY <1>1, <1>2, <2>1, FirstOfNodes
<1> HIDE DEF v
<1>4. /\ rows' \in Seq(RowType)
      /\ \A n \in DOMAIN rows' : rows'[n].statement_idx < statement_idx
  <2>1. TextAt({v}) \in SUBSET {doc[i].text : i \in Nodes(doc)}
    BY <1>3 DEF TextAt
  <2> QED BY <1>1, <1>2, <2>1, RowPublished
<1>5. Loops'
  BY <1>1, <1>2, <1>4 DEF IInv, Loops, RowType
<1>6. TypeOK'
  BY <1>1, <1>4 DEF IInv, TypeOK
<1> QED BY <1>1, <1>5, <1>6, LoopsKeep DEF Views, done

LEMMA ReadViewsPreserves == IInv /\ ReadViews => IInv'
<1> SUFFICES ASSUME IInv, ReadViews PROVE IInv'
  OBVIOUS
<1>1. /\ stage = "attributes" /\ stage' = "done"
      /\ conditions' = ConditionsView /\ authn' = AuthnView
      /\ doc' = doc /\ d' = d /\ assertions' = assertions /\ todo' = todo /\ rows' = rows
      /\ stmts' = stmts /\ attrs' = attrs /\ vals' = vals /\ owner' = owner
      /\ statement_idx' = statement_idx
  BY DEF ReadViews, loops
<1>2. Views'
  <2>1. ConditionsView' = ConditionsView /\ AuthnView' = AuthnView
    BY <1>1 DEF ConditionsView, AuthnView, AttrAt, TextAt, Child, Restrictions, AudiencesOf
  <2> QED BY <1>1, <2>1 DEF Views
<1>3. Loops'
  BY <1>1 DEF IInv, Loops, RowType
<1>4. TypeOK'
  BY <1>1 DEF IInv, TypeOK
<1> QED BY <1>1, <1>2, <1>3, <1>4, LoopsKeep

LEMMA NextPreserves == IInv /\ [Next]_vars => IInv'
<1>1. IInv /\ UNCHANGED vars => IInv'
  <2> SUFFICES ASSUME IInv, UNCHANGED vars PROVE IInv'
    OBVIOUS
  <2>1. /\ doc' = doc /\ stage' = stage /\ d' = d /\ assertions' = assertions
        /\ todo' = todo /\ rows' = rows /\ stmts' = stmts /\ attrs' = attrs
        /\ vals' = vals /\ owner' = owner /\ statement_idx' = statement_idx
        /\ conditions' = conditions /\ authn' = authn
    BY DEF vars, loops
  <2>2. TypeOK' /\ doc' \in Documents /\ stage' \in Stages
    BY <2>1 DEF IInv, TypeOK
  <2>3. Fields'
    BY <2>1, ValuesStay DEF IInv, Fields, Unread, Counted
  <2>4. Listed'
    BY <2>1, ValuesStay, RowsStay DEF IInv, Listed
  <2>5. Loops'
    BY <2>1 DEF IInv, Loops, RowType
  <2>6. Views'
    <3>1. ConditionsView' = ConditionsView /\ AuthnView' = AuthnView
      BY <2>1 DEF ConditionsView, AuthnView, AttrAt, TextAt, Child, Restrictions, AudiencesOf
    <3> QED BY <2>1, <3>1 DEF IInv, Views, done
  <2> QED BY <2>2, <2>3, <2>4, <2>5, <2>6 DEF IInv
<1> QED
  BY <1>1, ReadRootPreserves, ReadAssertionPreserves, ReadBarePreserves,
     ReadSubjectPreserves, ReadConditionsPreserves, ReadAuthnPreserves, CountPreserves,
     AssertionRowPreserves, StartAttributesPreserves, NextStatementPreserves,
     NextAttributePreserves, EmptyAttributePreserves, ValueRowPreserves,
     ReadViewsPreserves
     DEF Next, Decoding, Listing

-----------------------------------------------------------------------------
(* The views that search the whole document find what decode finds below    *)
(* the first assertion, when it is the assertions that own such elements.   *)
LEMMA OwnedFirst ==
  ASSUME doc \in Documents, NEW tag, OwnedByAssertions(tag)
  PROVE  Wanted # {} /\ FirstOf(Named(doc, tag)) = Child(Wanted, tag)
<1> DEFINE named == Named(doc, tag)
           first == First(named)
<1>1. IsDocument(doc) /\ named \in SUBSET Nodes(doc)
  BY TheWanted, NodeSets
<1>2. PICK a \in Wanted :
        \E c \in ChildrenNamed(doc, a, tag) : \A b \in Assertions \ {a} : c < b
  BY DEF OwnedByAssertions, Wanted, Assertions
<1> PICK c \in ChildrenNamed(doc, a, tag) : \A b \in Assertions \ {a} : c < b
  BY <1>2
<1>3. Wanted = {a} /\ a \in Nodes(doc)
  BY <1>2, TheWanted
<1>4. c \in named /\ c \in Nodes(doc)
  BY <1>1, <1>2, <1>3, ChildFollows DEF Named
<1>5. /\ FirstOf(named) = {first} /\ first \in named /\ first \in Nodes(doc)
      /\ \A j \in named : first <= j
  BY <1>1, <1>4, FirstOfNodes
<1> HIDE DEF first
<1>6. PICK p \in Parents(doc, first) : doc[p].tag = "Assertion"
  BY <1>5 DEF OwnedByAssertions
<1>7. p \in Nodes(doc) /\ first \in Subtree(doc, p) /\ p # first
  BY <1>6 DEF Parents, Ancestors
<1>8. p \in Nat /\ first \in Nat /\ c \in Nat /\ Root < first /\ p < first
  <2>1. p <= first
    BY <1>1, <1>5, <1>7, SubtreeInterval
  <2> QED BY <1>1, <1>4, <1>5, <1>7, <2>1 DEF Nodes, IsDocument, Root
<1>9. p = a
  <2>1. p \in Assertions
    BY <1>6, <1>7 DEF Assertions, Named
  <2> QED BY <1>2, <1>4, <1>5, <1>8, <2>1
<1>10. first \in ChildrenNamed(doc, a, tag)
  <2>1. PICK q \in Nodes(doc) : Parents(doc, first) = {q}
    BY <1>1, <1>5, <1>8, HasParent
  <2>2. Parents(doc, first) = {a}
    BY <1>6, <1>9, <2>1
  <2> QED BY <1>5, <1>7, <1>9, <2>2 DEF ChildrenNamed, Children, Named
<1>11. FirstOf(ChildrenNamed(doc, a, tag)) = {first}
  <2>1. ChildrenNamed(doc, a, tag) \in SUBSET Nat
    BY <1>1, <1>3, NodeSets, FirstOfNodes
  <2>2. \A j \in ChildrenNamed(doc, a, tag) : first <= j
    BY <1>1, <1>3, <1>5, ChildFollows DEF Named
  <2> QED BY <1>10, <2>1, <2>2, FirstIs
<1>12. Child({a}, tag) = FirstOf(ChildrenNamed(doc, a, tag))
  BY DEF Child, FirstChild
<1> QED BY <1>3, <1>5, <1>11, <1>12

LEMMA ViewsAgreeWithDecode == IInv => ViewsAgree
<1> SUFFICES ASSUME IInv, done PROVE ViewsAgree
  BY DEF ViewsAgree
<1>1. /\ doc \in Documents /\ conditions = ConditionsView /\ authn = AuthnView
  BY DEF IInv, Views
<1>2. Fields /\ stage = "done"
  BY DEF IInv, done
<1>3. ASSUME OwnedByAssertions("Conditions")
      PROVE  conditions.window = d.window /\ conditions.audiences = d.audiences
  <2>1. Wanted # {} /\ FirstOf(Named(doc, "Conditions")) = Child(Wanted, "Conditions")
    BY <1>1, <1>3, OwnedFirst
  <2>2. d.window = Window /\ d.audiences = Audiences
    BY <1>2, <2>1 DEF Fields, Unread
  <2>3. conditions.window = Window /\ conditions.audiences = Audiences
    BY <1>1, <2>1 DEF ConditionsView, Window, Audiences
  <2> QED BY <2>2, <2>3
<1>4. ASSUME OwnedByAssertions("AuthnStatement")
      PROVE  authn.instant = d.instant /\ authn.class_ref = d.authn_context
  <2>1. Wanted # {} /\ FirstOf(Named(doc, "AuthnStatement")) = Child(Wanted, "AuthnStatement")
    BY <1>1, <1>4, OwnedFirst
  <2>2. d.instant = Instant /\ d.authn_context = Context
    BY <1>2, <2>1 DEF Fields, Unread
  <2>3. authn.instant = Instant /\ authn.class_ref = Context
    BY <1>1, <2>1 DEF AuthnView, Instant, Context
  <2> QED BY <2>2, <2>3
<1> QED BY <1>3, <1>4 DEF ViewsAgree

(* The first row of assertion_rows is the assertion of decode's struct.     *)
LEMMA FirstRowAgrees == IInv => FirstRowIsDecoded
<1> SUFFICES ASSUME IInv, done PROVE FirstRowIsDecoded
  BY DEF FirstRowIsDecoded
<1>1. Fields /\ stage = "done" /\ doc \in Documents
  BY DEF IInv, done
<1>2. Len(assertions) = Cardinality(Assertions) /\ d.assertion_count = Cardinality(Assertions)
  BY <1>1 DEF IInv, Listed, Fields, Counted
<1>3. ASSUME assertions = <<>> PROVE d.assertion_id = {} /\ d.subject = {}
  <2>1. Cardinality(Assertions) = 0
    BY <1>2, <1>3
  <2>2. Wanted = {}
    BY <1>1, <2>1, TheWanted, FS_EmptySet
  <2> QED BY <1>1, <2>2 DEF Fields, Unread
<1>4. ASSUME assertions # <<>>
      PROVE  LET row == assertions[1]
             IN  /\ row.id = d.assertion_id
                 /\ row.subject = d.subject
                 /\ row.issuer # {} => row.issuer = d.issuer
                 /\ row.in_response_to # {} => d.in_response_to # {}
                 /\ AttrAt({Root}) = {} => row.in_response_to = d.in_response_to
                 /\ row.parent = {} => row.signed = d.signed
  <2> DEFINE a == First(Assertions)
  <2>1. assertions[1] = RowOf(a)
    BY <1>4 DEF IInv, Listed
  <2>2. Assertions # {}
    <3> SUFFICES ASSUME Assertions = {} PROVE FALSE
      OBVIOUS
    <3>1. Len(assertions) = 0
      BY <1>2, FS_EmptySet
    <3>2. assertions \in Seq({RowOf(b) : b \in Assertions})
      BY DEF IInv, Listed
    <3> QED BY <1>4, <3>1, <3>2, EmptySeq
  <2>3. Wanted = {a} /\ a \in Assertions /\ IsDocument(doc) /\ a \in Nodes(doc)
    BY <1>1, <2>2, TheWanted
  <2> HIDE DEF a
  <2>4. /\ d.assertion_id = IdAt({a}) /\ d.subject = SubjectText({a})
        /\ d.issuer = IssuerOf(a)
        /\ d.in_response_to = OrElse(AttrAt({Root}), Confirmation({a}))
        /\ d.signed = IsSigned(Root)
    BY <1>1, <2>3 DEF Fields, Unread, Counted, AnsweredBy, a
  <2>5. RowOf(a).parent = {} => a = Root
    <3> SUFFICES ASSUME a # Root PROVE RowOf(a).parent # {}
      OBVIOUS
    <3>1. PICK p \in Nodes(doc) : Parents(doc, a) = {p}
      BY <2>3, HasParent
    <3> QED BY <3>1 DEF RowOf
  <2>6. /\ RowOf(a).id = IdAt({a}) /\ RowOf(a).subject = SubjectText({a})
        /\ RowOf(a).issuer = TextAt(Child({a}, "Issuer"))
        /\ RowOf(a).in_response_to = Confirmation({a})
        /\ RowOf(a).signed = IsSigned(a)
    BY DEF RowOf
  <2> QED BY <2>1, <2>4, <2>5, <2>6 DEF OrElse, IssuerOf
<1> QED BY <1>2, <1>3, <1>4 DEF FirstRowIsDecoded

(* A field decode has read keeps its value: the stages after its own read    *)
(* the same value again, or another field.                                  *)
Settled ==
  /\ d.response_id # {} => d'.response_id = d.response_id
  /\ d.in_response_to # {} => d'.in_response_to = d.in_response_to
  /\ d.status # {} => d'.status = d.status
  /\ d.assertion_id # {} => d'.assertion_id = d.assertion_id
  /\ d.issuer # {} => d'.issuer = d.issuer
  /\ d.subject # {} => d'.subject = d.subject
  /\ d.window # {} => d'.window = d.window
  /\ d.audiences # <<>> => d'.audiences = d.audiences
  /\ d.instant # {} => d'.instant = d.instant
  /\ d.authn_context # {} => d'.authn_context = d.authn_context
  /\ d.assertion_count # 0 => d'.assertion_count = d.assertion_count
  /\ d.encrypted_count # 0 => d'.encrypted_count = d.encrypted_count
  /\ d.signed # FALSE => d'.signed = d.signed

LEMMA FieldsStay == IInv /\ [Next]_vars => Settled
<1> SUFFICES ASSUME IInv, [Next]_vars PROVE Settled
  OBVIOUS
<1>1. Fields
  BY DEF IInv
<1>2. CASE ReadRoot
  BY <1>1, <1>2 DEF ReadRoot, Fill, Fields, FieldNames, Settled
<1>3. CASE ReadAssertion
  <2>1. PICK a \in FirstAssertion(doc) :
          /\ stage = "assertion"
          /\ d' = [d EXCEPT !.assertion_id = IdAt({a}),
                            !.response_id = IF root.tag = "Assertion" THEN {} ELSE @,
                            !.issuer = IssuerOf(a)]
    BY <1>3 DEF ReadAssertion, Fill
  <2>2. root.tag = "Assertion" => d.response_id = {}
    BY <1>1, <2>1 DEF Fields, ResponseId
  <2> QED BY <1>1, <2>1, <2>2 DEF Fields, FieldNames, Unread, Settled
<1>4. CASE ReadBare
  BY <1>1, <1>4 DEF ReadBare, Fill, Fields, FieldNames, Settled
<1>5. CASE ReadSubject
  BY <1>1, <1>5 DEF ReadSubject, Fill, Fields, FieldNames, Unread, OrElse, Settled
<1>6. CASE ReadConditions
  BY <1>1, <1>6 DEF ReadConditions, Fill, Fields, FieldNames, Unread, Settled
<1>7. CASE ReadAuthn
  BY <1>1, <1>7 DEF ReadAuthn, Fill, Fields, FieldNames, Unread, Settled
<1>8. CASE Count
  BY <1>1, <1>8 DEF Count, Fields, FieldNames, Counted, Settled
<1>9. CASE Listing \/ UNCHANGED vars
  <2>1. d' = d
    BY <1>9 DEF Listing, AssertionRow, StartAttributes, NextStatement, NextAttribute,
                EmptyAttribute, ValueRow, ReadViews, vars
  <2> QED BY <2>1 DEF Settled
<1> QED BY <1>2, <1>3, <1>4, <1>5, <1>6, <1>7, <1>8, <1>9 DEF Next, Decoding

LEMMA EveryFieldStays ==
  IInv /\ [Next]_vars =>
    \A field \in DOMAIN d : d[field] # Default[field] => d'[field] = d[field]
<1> SUFFICES ASSUME IInv, [Next]_vars, NEW field \in DOMAIN d
             PROVE  d[field] # Default[field] => d'[field] = d[field]
  OBVIOUS
<1>1. field \in FieldNames
  BY DEF IInv, Fields
<1>2. /\ Default.response_id = {} /\ Default.in_response_to = {}
      /\ Default.status = {} /\ Default.assertion_id = {}
      /\ Default.issuer = {} /\ Default.subject = {}
      /\ Default.window = {} /\ Default.audiences = <<>>
      /\ Default.instant = {} /\ Default.authn_context = {}
      /\ Default.assertion_count = 0 /\ Default.encrypted_count = 0
      /\ Default.signed = FALSE
  BY DEF Default
<1>3. field \in {"response_id", "in_response_to", "status", "assertion_id"} =>
        (d[field] # Default[field] => d'[field] = d[field])
  BY <1>2, FieldsStay DEF Settled
<1>4. field \in {"issuer", "subject", "window", "audiences", "instant", "authn_context"} =>
        (d[field] # Default[field] => d'[field] = d[field])
  BY <1>2, FieldsStay DEF Settled
<1>5. field \in {"assertion_count", "encrypted_count", "signed"} =>
        (d[field] # Default[field] => d'[field] = d[field])
  BY <1>2, FieldsStay DEF Settled
<1> QED BY <1>1, <1>3, <1>4, <1>5 DEF FieldNames

-----------------------------------------------------------------------------
(* attributes implements Report.  A slot is what one row is for: a          *)
(* statement, an attribute of it and a value of that, or the attribute       *)
(* itself for the lack of one.  Slots are ordered by statement and value;    *)
(* the nth row is that of the slot with n - 1 before it.                     *)
(* The values an Attribute has rows for: its own, or itself for the lack.   *)
ValuesOf(m, a) ==
  IF ChildrenNamed(m, a, "AttributeValue") = {} THEN {a}
  ELSE ChildrenNamed(m, a, "AttributeValue")

(* The order of slots. *)
Precedes(p, q) == p[1] < q[1] \/ (p[1] = q[1] /\ p[3] < q[3])

(* A slot, by its parts. *)
LEMMA SlotIs ==
  ASSUME NEW m
  PROVE  \A q : q \in Slots(m) <=>
           \E s \in Named(m, "AttributeStatement") :
             \E a \in ChildrenNamed(m, s, "Attribute") :
               \E v \in ValuesOf(m, a) : q = <<s, a, v>>
<1> DEFINE of(s) ==
             UNION {{<<s, a, v>> : v \in ValuesOf(m, a)} :
                      a \in ChildrenNamed(m, s, "Attribute")}
<1>1. Slots(m) = UNION {of(s) : s \in Named(m, "AttributeStatement")}
  BY DEF Slots, ValuesOf
<1>2. \A q, s : q \in of(s) <=>
        \E a \in ChildrenNamed(m, s, "Attribute") :
          \E v \in ValuesOf(m, a) : q = <<s, a, v>>
  OBVIOUS
<1> HIDE DEF of
<1> QED BY <1>1, <1>2

(* What a slot is made of. *)
LEMMA SlotParts ==
  ASSUME NEW m, IsDocument(m), NEW q \in Slots(m)
  PROVE  /\ q[1] \in Named(m, "AttributeStatement")
         /\ q[2] \in ChildrenNamed(m, q[1], "Attribute")
         /\ q[3] \in ValuesOf(m, q[2])
         /\ q[1] \in Nodes(m) /\ q[2] \in Nodes(m) /\ q[3] \in Nodes(m)
         /\ q[1] \in Nat /\ q[2] \in Nat /\ q[3] \in Nat
         /\ q = <<q[1], q[2], q[3]>>
         /\ Parents(m, q[2]) = {q[1]} /\ m[q[2]].tag = "Attribute"
         /\ \/ q[3] = q[2] /\ ChildrenNamed(m, q[2], "AttributeValue") = {}
            \/ /\ q[3] \in ChildrenNamed(m, q[2], "AttributeValue")
               /\ Parents(m, q[3]) = {q[2]} /\ m[q[3]].tag = "AttributeValue"
<1>1. PICK s \in Named(m, "AttributeStatement") :
        \E a \in ChildrenNamed(m, s, "Attribute") :
          \E v \in ValuesOf(m, a) : q = <<s, a, v>>
  BY SlotIs
<1>2. PICK a \in ChildrenNamed(m, s, "Attribute") :
        \E v \in ValuesOf(m, a) : q = <<s, a, v>>
  BY <1>1
<1>3. PICK v \in ValuesOf(m, a) : q = <<s, a, v>>
  BY <1>2
<1>4. q[1] = s /\ q[2] = a /\ q[3] = v
  BY <1>3
<1>5. s \in Nodes(m)
  BY NodeSets
<1>6. a \in Nodes(m) /\ Parents(m, a) = {s} /\ m[a].tag = "Attribute"
  BY <1>5, ChildFollows
<1>7. \/ v = a /\ ChildrenNamed(m, a, "AttributeValue") = {}
      \/ /\ v \in ChildrenNamed(m, a, "AttributeValue") /\ v \in Nodes(m)
         /\ Parents(m, v) = {a} /\ m[v].tag = "AttributeValue"
  BY <1>6, ChildFollows DEF ValuesOf
<1>8. Nodes(m) \subseteq Nat
  BY DEF Nodes, IsDocument
<1> QED BY <1>3, <1>4, <1>5, <1>6, <1>7, <1>8

(* A slot is known by its value. *)
LEMMA SlotsApart ==
  ASSUME NEW m, IsDocument(m), NEW p \in Slots(m), NEW q \in Slots(m), p[3] = q[3]
  PROVE  p = q
<1>1. p[2] = q[2]
  <2>1. CASE m[p[3]].tag = "Attribute"
    <3>1. p[3] = p[2] /\ q[3] = q[2]
      BY <2>1, SlotParts
    <3> QED BY <3>1
  <2>2. CASE m[p[3]].tag # "Attribute"
    <3>1. Parents(m, p[3]) = {p[2]} /\ Parents(m, q[3]) = {q[2]}
      BY <2>2, SlotParts
    <3> QED BY <3>1
  <2> QED BY <2>1, <2>2
<1>2. p[1] = q[1]
  <2>1. Parents(m, p[2]) = {p[1]} /\ Parents(m, q[2]) = {q[1]}
    BY SlotParts
  <2> QED BY <1>1, <2>1
<1>3. p = <<p[1], p[2], p[3]>> /\ q = <<q[1], q[2], q[3]>>
  BY SlotParts
<1> QED BY <1>1, <1>2, <1>3

(* They are finitely many. *)
LEMMA SlotsFinite ==
  ASSUME NEW m, IsDocument(m)
  PROVE  \A S \in SUBSET Slots(m) : IsFiniteSet(S) /\ Cardinality(S) \in Nat
<1> DEFINE f == [q \in Slots(m) |-> q[3]]
<1>1. f \in Injection(Slots(m), Nodes(m))
  <2>1. f \in [Slots(m) -> Nodes(m)]
    BY SlotParts
  <2>2. \A p, q \in Slots(m) : f[p] = f[q] => p = q
    BY SlotsApart
  <2> HIDE DEF f
  <2> QED BY <2>1, <2>2 DEF Injection, IsInjective
<1>2. IsFiniteSet(Nodes(m))
  BY FirstOfNodes
<1>3. IsFiniteSet(Slots(m))
  BY <1>1, <1>2, FS_Injection
<1> QED BY <1>3, FS_Subset, FS_CardinalityType

(* It is a strict total order. *)
LEMMA SlotOrder ==
  ASSUME NEW m, IsDocument(m), NEW p \in Slots(m), NEW q \in Slots(m)
  PROVE  /\ Precedes(p, q) \/ Precedes(q, p) \/ p = q
         /\ ~ Precedes(p, p)
         /\ ~ (Precedes(p, q) /\ Precedes(q, p))
         /\ \A r \in Slots(m) : Precedes(p, q) /\ Precedes(q, r) => Precedes(p, r)
<1>1. \A r \in Slots(m) : r[1] \in Nat /\ r[3] \in Nat
  BY SlotParts
<1>2. p[3] = q[3] => p = q
  BY SlotsApart
<1> QED BY <1>1, <1>2 DEF Precedes

SlotsBefore(m, q) == {p \in Slots(m) : Precedes(p, q)}

(* A later slot has more slots before it, so a rank is that of one slot. *)
LEMMA SlotRankGrows ==
  ASSUME NEW m, IsDocument(m), NEW p \in Slots(m), NEW q \in Slots(m), Precedes(p, q)
  PROVE  Cardinality(SlotsBefore(m, p)) < Cardinality(SlotsBefore(m, q))
<1> DEFINE B == SlotsBefore(m, p)
           C == SlotsBefore(m, q)
<1>1. p \notin B /\ p \in C /\ \A r \in B : r \in C
  BY SlotOrder DEF SlotsBefore
<1>2. IsFiniteSet(B) /\ Cardinality(B) \in Nat /\ IsFiniteSet(C) /\ Cardinality(C) \in Nat
  <2>1. B \in SUBSET Slots(m) /\ C \in SUBSET Slots(m)
    BY DEF SlotsBefore
  <2> QED BY <2>1, SlotsFinite
<1> HIDE DEF B, C
<1>3. Cardinality(B \cup {p}) = Cardinality(B) + 1
  BY <1>1, <1>2, FS_AddElement
<1>4. Cardinality(B \cup {p}) <= Cardinality(C)
  <2>1. B \cup {p} \in SUBSET C
    BY <1>1
  <2> QED BY <1>2, <2>1, FS_Subset
<1> QED BY <1>2, <1>3, <1>4 DEF B, C

(* The row the report owes at a slot's rank is for that slot. *)
LEMMA EntryAt ==
  ASSUME NEW m, IsDocument(m), NEW q \in Slots(m), NEW n \in Nat,
         Cardinality(SlotsBefore(m, q)) = n
  PROVE  Entry(m, n + 1) =
           [statement_idx |->
              Cardinality({s \in Named(m, "AttributeStatement") : s < q[1]}),
            name |-> {m[q[2]].attr} \ {NoAttr},
            value |-> IF q[3] = q[2] THEN {} ELSE {m[q[3]].text} \ {NoText}]
<1>1. \A p \in Slots(m) : Cardinality(SlotsBefore(m, p)) = n => p = q
  <2> SUFFICES ASSUME NEW p \in Slots(m), Cardinality(SlotsBefore(m, p)) = n
               PROVE  p = q
    OBVIOUS
  <2>1. ~ Precedes(p, q) /\ ~ Precedes(q, p)
    BY SlotRankGrows
  <2> QED BY <2>1, SlotOrder
<1> DEFINE slot == CHOOSE p \in Slots(m) : Cardinality(SlotsBefore(m, p)) = n
<1>2. slot = q
  BY <1>1
<1>3. Entry(m, n + 1) =
        [statement_idx |->
           Cardinality({s \in Named(m, "AttributeStatement") : s < slot[1]}),
         name |-> {m[slot[2]].attr} \ {NoAttr},
         value |-> IF slot[3] = slot[2] THEN {} ELSE {m[slot[3]].text} \ {NoText}]
  <2>1. (n + 1) - 1 = n
    OBVIOUS
  <2> QED BY <2>1 DEF Entry, SlotsBefore, Precedes
<1> HIDE DEF slot
<1> QED BY <1>2, <1>3

-----------------------------------------------------------------------------
(* The loops of attributes, by what they have left: statements in order;    *)
(* attributes of the statement begun last; values of one that comes before  *)
(* those.  The slots they stand for come after the slots that have a row.   *)
Begun == Named(doc, "AttributeStatement") \ stmts

InLatest(a) ==
  \E s \in Begun : (\A t \in Begun : t <= s) /\ a \in ChildrenNamed(doc, s, "Attribute")

Nesting ==
  /\ \A s \in Begun, t \in stmts : s < t
  /\ \A a \in attrs : InLatest(a)
  /\ vals # {} => InLatest(owner) /\ \A a \in attrs : owner < a
  /\ stage = "done" => stmts = {} /\ attrs = {} /\ vals = {}

Left == {q \in Slots(doc) : q[1] \in stmts \/ q[2] \in attrs \/ q[3] \in vals}

Reported ==
  stage \in {"attributes", "done"} =>
    /\ Len(rows) = Cardinality(Slots(doc) \ Left)
    /\ \A p \in Slots(doc) \ Left, q \in Left : Precedes(p, q)

RInv == IInv /\ Nesting /\ Reported

(* Sibling attributes: values of one come before the next one and its own.  *)
LEMMA SiblingsApart ==
  ASSUME NEW m, IsDocument(m), NEW s \in Nodes(m), NEW a \in ChildrenNamed(m, s, "Attribute"),
         NEW b \in ChildrenNamed(m, s, "Attribute"), a < b,
         NEW v \in ValuesOf(m, a), NEW w \in ValuesOf(m, b)
  PROVE  v < w
<1>1. /\ a \in Nodes(m) /\ b \in Nodes(m) /\ Parents(m, b) = {s}
      /\ s < a /\ s < b
  BY ChildFollows
<1>2. v \in Nodes(m) /\ v \in Subtree(m, a)
  BY <1>1, NodeSets DEF ValuesOf, ChildrenNamed, Children, IsDocument
<1>3. w \in Nodes(m) /\ b <= w
  <2>1. w \in Nodes(m) /\ w \in Subtree(m, b)
    BY <1>1, NodeSets DEF ValuesOf, ChildrenNamed, Children, IsDocument
  <2> QED BY <1>1, <2>1, SubtreeInterval
<1>4. b \notin Subtree(m, a)
  <2> SUFFICES ASSUME b \in Subtree(m, a) PROVE FALSE
    OBVIOUS
  <2>1. b \in Children(m, s) /\ a # b
    BY <1>1 DEF ChildrenNamed, Nodes, IsDocument
  <2>2. s \in Subtree(m, a)
    BY <1>1, <2>1, AboveTheParent
  <2>3. a <= s
    BY <1>1, <2>2, SubtreeInterval
  <2> QED BY <1>1, <2>3 DEF Nodes, IsDocument
<1>5. v < b
  <2>1. v <= a + m[a].size - 1 /\ ~ (b <= a + m[a].size - 1)
    <3>1. v <= a + m[a].size - 1
      BY <1>1, <1>2, SubtreeInterval
    <3>2. a <= b
      BY <1>1 DEF Nodes, IsDocument
    <3> QED BY <1>1, <1>4, <3>1, <3>2, SubtreeInterval
  <2>2. v \in Int /\ b \in Int /\ a + m[a].size - 1 \in Int
    BY <1>1, <1>2 DEF Nodes, IsDocument
  <2> QED BY <2>1, <2>2
<1> QED BY <1>1, <1>2, <1>3, <1>5 DEF Nodes, IsDocument

(* The least of the slots left is the next one to get a row. *)
LEMMA TakeLeast ==
  ASSUME IsDocument(doc), NEW L \in SUBSET Slots(doc), NEW q \in L,
         \A p \in Slots(doc) \ L, r \in L : Precedes(p, r),
         \A r \in L \ {q} : Precedes(q, r)
  PROVE  /\ SlotsBefore(doc, q) = Slots(doc) \ L
         /\ Cardinality(Slots(doc) \ (L \ {q})) = Cardinality(Slots(doc) \ L) + 1
         /\ Cardinality(Slots(doc) \ L) \in Nat
         /\ \A p \in Slots(doc) \ (L \ {q}), r \in L \ {q} : Precedes(p, r)
<1> DEFINE T == Slots(doc) \ L
<1>1. SlotsBefore(doc, q) = T
  <2>1. ASSUME NEW p \in Slots(doc), Precedes(p, q) PROVE p \notin L
    <3>1. ~ Precedes(q, p) /\ p # q
      BY <2>1, SlotOrder
    <3> QED BY <3>1
  <2> QED BY <2>1 DEF SlotsBefore
<1>2. Slots(doc) \ (L \ {q}) = T \cup {q} /\ q \notin T
  OBVIOUS
<1>3. IsFiniteSet(T) /\ Cardinality(T) \in Nat
  <2>1. T \in SUBSET Slots(doc)
    OBVIOUS
  <2> QED BY <2>1, SlotsFinite
<1>4. \A p \in T \cup {q}, r \in L \ {q} : Precedes(p, r)
  OBVIOUS
<1> HIDE DEF T
<1>5. Cardinality(T \cup {q}) = Cardinality(T) + 1
  BY <1>2, <1>3, FS_AddElement
<1> QED BY <1>1, <1>2, <1>3, <1>4, <1>5 DEF T

(* The number of a row's statement: those begun before it. *)
LEMMA StatementNumber ==
  ASSUME IInv, Nesting, stage = "attributes", NEW s \in Begun, \A t \in Begun : t <= s
  PROVE  Cardinality({t \in Named(doc, "AttributeStatement") : t < s}) = statement_idx - 1
<1> DEFINE all == Named(doc, "AttributeStatement")
           before == {t \in all : t < s}
<1>1. /\ IsDocument(doc) /\ all \in SUBSET Nodes(doc) /\ IsFiniteSet(all)
      /\ all \in SUBSET Nat /\ stmts \subseteq all
      /\ statement_idx + Cardinality(stmts) = Cardinality(all)
  BY DocumentsAssumption, NodeSets, FirstOfNodes DEF IInv, Loops, TypeOK
<1>2. before = Begun \ {s}
  <2>1. \A t \in all : t < s => t \notin stmts
    BY <1>1 DEF Nesting, Begun
  <2> QED BY <1>1, <2>1 DEF Begun
<1>3. /\ IsFiniteSet(Begun) /\ Cardinality(Begun) = Cardinality(all) - Cardinality(stmts)
      /\ Cardinality(stmts) \in Nat /\ Cardinality(all) \in Nat
  <2>1. all \cap stmts = stmts /\ Begun = all \ stmts /\ stmts \in SUBSET all
    BY <1>1 DEF Begun
  <2>2. IsFiniteSet(stmts) /\ Cardinality(stmts) \in Nat /\ Cardinality(all) \in Nat
    BY <1>1, <2>1, FS_Subset, FS_CardinalityType
  <2> HIDE DEF all
  <2>3. /\ IsFiniteSet(all \ stmts)
        /\ Cardinality(all \ stmts) = Cardinality(all) - Cardinality(all \cap stmts)
    BY <1>1, FS_Difference
  <2> QED BY <2>1, <2>2, <2>3
<1>4. Cardinality(before) = Cardinality(Begun) - 1
  BY <1>2, <1>3, FS_RemoveElement
<1> HIDE DEF all, before
<1>5. statement_idx \in Nat
  BY DEF IInv, Loops
<1> QED BY <1>1, <1>3, <1>4, <1>5 DEF all, before

(* A row for the least slot left is the one the report owes next. *)
LEMMA RowIsNext ==
  ASSUME RInv, stage = "attributes", NEW q \in Left, q[1] \notin stmts,
         \A t \in Begun : t <= q[1],
         \A r \in Left \ {q} : Precedes(q, r)
  PROVE  /\ Len(rows) < Total(doc)
         /\ Entry(doc, Len(rows) + 1) =
              AttributeRow(q[2], IF q[3] = q[2] THEN {} ELSE TextAt({q[3]}))
<1>1. IsDocument(doc) /\ Left \in SUBSET Slots(doc) /\ q \in Slots(doc)
  BY DocumentsAssumption DEF RInv, IInv, Left
<1>2. /\ SlotsBefore(doc, q) = Slots(doc) \ Left
      /\ Cardinality(Slots(doc) \ Left) = Len(rows) /\ Len(rows) \in Nat
      /\ Cardinality(Slots(doc) \ (Left \ {q})) = Len(rows) + 1
  BY <1>1, TakeLeast DEF RInv, Reported
<1>3. Len(rows) < Total(doc)
  <2>1. Slots(doc) \ (Left \ {q}) \in SUBSET Slots(doc)
    OBVIOUS
  <2>2. IsFiniteSet(Slots(doc)) /\ Cardinality(Slots(doc)) \in Nat
    BY <1>1, SlotsFinite
  <2>3. Len(rows) + 1 <= Cardinality(Slots(doc))
    BY <1>2, <2>1, <2>2, FS_Subset
  <2> QED BY <1>2, <2>2, <2>3 DEF Total
<1>4. q[1] \in Begun
  BY <1>1, SlotParts DEF Begun
<1>5. Cardinality({t \in Named(doc, "AttributeStatement") : t < q[1]}) = statement_idx - 1
  BY <1>4, StatementNumber DEF RInv
<1>6. AttrAt({q[2]}) = {doc[q[2]].attr} \ {NoAttr} /\ TextAt({q[3]}) = {doc[q[3]].text} \ {NoText}
  BY DEF AttrAt, TextAt
<1>7. Cardinality(SlotsBefore(doc, q)) = Len(rows)
  BY <1>2
<1>8. Entry(doc, Len(rows) + 1) =
        [statement_idx |->
           Cardinality({t \in Named(doc, "AttributeStatement") : t < q[1]}),
         name |-> {doc[q[2]].attr} \ {NoAttr},
         value |-> IF q[3] = q[2] THEN {} ELSE {doc[q[3]].text} \ {NoText}]
  BY <1>1, <1>2, <1>7, EntryAt
<1> QED BY <1>3, <1>5, <1>6, <1>8 DEF AttributeRow

(* What is left stands for slots of its own. *)
LEMMA LeftSlots ==
  ASSUME IInv
  PROVE  /\ IsDocument(doc)
         /\ stmts \subseteq Named(doc, "AttributeStatement")
         /\ Named(doc, "AttributeStatement") \in SUBSET Nodes(doc)
         /\ Nodes(doc) \subseteq Nat
         /\ \A a \in attrs : doc[a].tag = "Attribute" /\ a \in Nodes(doc)
         /\ vals # {} => owner \in Nodes(doc)
         /\ \A v \in vals : v \in ChildrenNamed(doc, owner, "AttributeValue")
         /\ \A v \in vals : v \in Nodes(doc) /\ doc[v].tag = "AttributeValue"
         /\ \A v \in vals : Parents(doc, v) = {owner}
<1>1. IsDocument(doc)
  BY DocumentsAssumption DEF IInv
<1>2. Nodes(doc) \subseteq Nat
  BY <1>1 DEF Nodes, IsDocument
<1>3. ASSUME NEW v \in vals
      PROVE  /\ v \in ChildrenNamed(doc, owner, "AttributeValue")
             /\ v \in Nodes(doc) /\ doc[v].tag = "AttributeValue"
             /\ Parents(doc, v) = {owner}
  <2>1. owner \in Nodes(doc) /\ v \in ChildrenNamed(doc, owner, "AttributeValue")
    BY <1>3 DEF IInv, Loops
  <2> QED BY <1>1, <2>1, ChildFollows
<1>4. \A a \in attrs : doc[a].tag = "Attribute" /\ a \in Nodes(doc)
  BY DEF IInv, TypeOK, Named
<1> QED BY <1>1, <1>2, <1>3, <1>4, NodeSets DEF IInv, Loops

(* Before attributes starts there is nothing to keep. *)
LEMMA BeforeAttributes ==
  ASSUME IInv', stage' \notin {"attributes", "done"}
  PROVE  Nesting' /\ Reported'
<1>1. stmts' = {} /\ attrs' = {} /\ vals' = {}
  BY DEF IInv, Loops
<1> QED BY <1>1 DEF Nesting, Reported

(* Starting an inner loop leaves the same slots. *)
LEMMA StartAttributesReports == RInv /\ StartAttributes => Nesting' /\ Reported'
<1> SUFFICES ASSUME RInv, StartAttributes PROVE Nesting' /\ Reported'
  OBVIOUS
<1>1. /\ stage = "assertions" /\ stage' = "attributes" /\ doc' = doc /\ rows' = rows
      /\ stmts' = Named(doc, "AttributeStatement") /\ attrs' = attrs /\ vals' = vals
  BY DEF StartAttributes
<1>2. IsDocument(doc) /\ attrs = {} /\ vals = {} /\ rows = <<>>
  BY <1>1, DocumentsAssumption DEF RInv, IInv, Loops
<1>3. Nesting'
  BY <1>1, <1>2 DEF Nesting, Begun
<1>4. \A q \in Slots(doc) : q[1] \in stmts'
  BY <1>1, <1>2, SlotParts
<1>5. Left' = Slots(doc)
  BY <1>1, <1>4 DEF Left
<1>6. Slots(doc) \ Slots(doc) = {} /\ Len(rows') = 0
  BY <1>1, <1>2
<1>7. Reported'
  BY <1>1, <1>5, <1>6, FS_EmptySet DEF Reported
<1> QED BY <1>3, <1>7

LEMMA NextStatementReports == RInv /\ NextStatement => Nesting' /\ Reported'
<1> SUFFICES ASSUME RInv, NextStatement PROVE Nesting' /\ Reported'
  OBVIOUS
<1> DEFINE s == First(stmts)
<1>1. /\ stage = "attributes" /\ stage' = stage /\ doc' = doc /\ rows' = rows
      /\ vals = {} /\ attrs = {} /\ stmts # {} /\ vals' = vals
      /\ attrs' = ChildrenNamed(doc, s, "Attribute") /\ stmts' = stmts \ {s}
  BY DEF NextStatement
<1>2. /\ IsDocument(doc) /\ stmts \subseteq Named(doc, "AttributeStatement")
      /\ stmts \in SUBSET Nat
  BY LeftSlots DEF RInv
<1>3. s \in stmts /\ s \in Nat /\ \A t \in stmts : s <= t
  BY <1>1, <1>2, FirstIsLeast
<1> HIDE DEF s
<1>4. Begun' = Begun \cup {s}
  BY <1>1, <1>2, <1>3 DEF Begun
<1>5. Nesting'
  <2>1. \A x \in Begun \cup {s}, t \in stmts' : x < t
    <3>1. \A x \in Begun, t \in stmts' : x < t
      BY <1>1 DEF RInv, Nesting
    <3>2. \A t \in stmts' : s < t
      BY <1>1, <1>2, <1>3
    <3> QED BY <3>1, <3>2
  <2>2. \A t \in Begun \cup {s} : t <= s
    <3>1. \A t \in Begun : t < s
      BY <1>3 DEF RInv, Nesting
    <3>2. \A t \in Begun : t \in Nat
      BY LeftSlots DEF RInv, Begun
    <3> QED BY <1>3, <3>1, <3>2
  <2>3. \A a \in attrs' : InLatest(a)'
    BY <1>1, <1>4, <2>2 DEF InLatest
  <2> QED BY <1>1, <1>4, <2>1, <2>3 DEF Nesting
<1>6. Left' = Left
  <2>1. ASSUME NEW q \in Slots(doc)
        PROVE  q[2] \in ChildrenNamed(doc, s, "Attribute") <=> q[1] = s
    <3>1. q[2] \in ChildrenNamed(doc, q[1], "Attribute") /\ Parents(doc, q[2]) = {q[1]}
      BY <1>2, SlotParts
    <3>2. q[2] \in ChildrenNamed(doc, s, "Attribute") => Parents(doc, q[2]) = {s}
      BY DEF ChildrenNamed, Children
    <3> QED BY <3>1, <3>2
  <2> QED BY <1>1, <1>3, <2>1 DEF Left
<1>7. Reported'
  BY <1>1, <1>6 DEF RInv, Reported
<1> QED BY <1>5, <1>7

LEMMA NextAttributeReports == RInv /\ NextAttribute => Nesting' /\ Reported'
<1> SUFFICES ASSUME RInv, NextAttribute PROVE Nesting' /\ Reported'
  OBVIOUS
<1> DEFINE o == First(attrs)
<1>1. /\ stage = "attributes" /\ stage' = stage /\ doc' = doc /\ rows' = rows
      /\ vals = {} /\ attrs # {} /\ stmts' = stmts
      /\ owner' = o /\ vals' = ChildrenNamed(doc, o, "AttributeValue") /\ vals' # {}
      /\ attrs' = attrs \ {o}
  BY DEF NextAttribute
<1>2. IsDocument(doc) /\ attrs \in SUBSET Nat
  BY LeftSlots DEF RInv
<1>3. o \in attrs /\ \A a \in attrs : o <= a
  BY <1>1, <1>2, FirstIsLeast
<1> HIDE DEF o
<1>4. Nesting'
  <2>1. \A a \in attrs : InLatest(a)'
    BY <1>1 DEF RInv, Nesting, InLatest, Begun
  <2>2. \A a \in attrs' : o < a
    BY <1>1, <1>2, <1>3
  <2>3. \A x \in Begun', t \in stmts' : x < t
    BY <1>1 DEF RInv, Nesting, Begun
  <2>4. InLatest(owner)'
    BY <1>1, <1>3 DEF RInv, Nesting, InLatest, Begun
  <2> QED BY <1>1, <2>1, <2>2, <2>3, <2>4 DEF Nesting
<1>5. Left' = Left
  <2>1. ASSUME NEW q \in Slots(doc)
        PROVE  q[3] \in ChildrenNamed(doc, o, "AttributeValue") <=> q[2] = o
    <3>1. \/ q[3] = q[2] /\ ChildrenNamed(doc, q[2], "AttributeValue") = {}
             /\ doc[q[2]].tag = "Attribute"
          \/ /\ q[3] \in ChildrenNamed(doc, q[2], "AttributeValue")
             /\ Parents(doc, q[3]) = {q[2]}
      BY <1>2, SlotParts
    <3>2. q[3] \in ChildrenNamed(doc, o, "AttributeValue") =>
            Parents(doc, q[3]) = {o} /\ doc[q[3]].tag = "AttributeValue"
      BY DEF ChildrenNamed, Children
    <3>3. ChildrenNamed(doc, o, "AttributeValue") # {}
      BY <1>1
    <3> QED BY <3>1, <3>2, <3>3
  <2> QED BY <1>1, <1>3, <2>1 DEF Left
<1>6. Reported'
  BY <1>1, <1>5 DEF RInv, Reported
<1> QED BY <1>4, <1>6

(* The slot a step takes: of the statement begun last, before all others    *)
(* left, and no longer left afterwards.                                     *)
Takes(q) ==
  /\ q[1] \in Begun
  /\ \A t \in Begun : t <= q[1]
  /\ \A r \in Left \ {q} : Precedes(q, r)
  /\ Left' = Left \ {q}

(* There is one statement begun last, and its attributes have it as parent. *)
LEMMA Latest ==
  ASSUME IInv, NEW s \in Begun, \A t \in Begun : t <= s
  PROVE  /\ IsDocument(doc) /\ s \in Nodes(doc)
         /\ \A b : InLatest(b) =>
              b \in ChildrenNamed(doc, s, "Attribute") /\ Parents(doc, b) = {s}
<1>1. IsDocument(doc) /\ Begun \in SUBSET Nodes(doc) /\ Begun \in SUBSET Nat
  BY LeftSlots DEF Begun
<1>2. ASSUME NEW b, InLatest(b) PROVE b \in ChildrenNamed(doc, s, "Attribute")
  <2>1. PICK u \in Begun : (\A t \in Begun : t <= u) /\ b \in ChildrenNamed(doc, u, "Attribute")
    BY <1>2 DEF InLatest
  <2>2. u <= s /\ s <= u /\ u \in Nat /\ s \in Nat
    BY <1>1, <2>1
  <2>3. u = s
    BY <2>2
  <2> QED BY <2>1, <2>3
<1> QED BY <1>1, <1>2, ChildFollows

(* Each of the two actions that publish takes the least slot left. *)
LEMMA EmptyAttributeTakes ==
  ASSUME RInv, EmptyAttribute
  PROVE  \E q \in Left : Takes(q) /\ q[2] = First(attrs) /\ q[3] = q[2]
<1> DEFINE a == First(attrs)
<1>1. /\ vals = {} /\ vals' = vals /\ attrs # {} /\ stmts' = stmts /\ doc' = doc
      /\ ChildrenNamed(doc, a, "AttributeValue") = {} /\ attrs' = attrs \ {a}
  BY DEF EmptyAttribute
<1>2. IInv /\ Nesting
  BY DEF RInv
<1>3. IsDocument(doc) /\ attrs \in SUBSET Nat
  BY <1>2, LeftSlots
<1>4. a \in attrs /\ \A b \in attrs : a <= b
  BY <1>1, <1>3, FirstIsLeast
<1>5. PICK s \in Begun :
        (\A t \in Begun : t <= s) /\ a \in ChildrenNamed(doc, s, "Attribute")
  BY <1>2, <1>4 DEF Nesting, InLatest
<1>6. /\ s \in Nodes(doc) /\ s \in Named(doc, "AttributeStatement")
      /\ \A b \in attrs :
           b \in ChildrenNamed(doc, s, "Attribute") /\ Parents(doc, b) = {s}
  BY <1>2, <1>5, Latest DEF Nesting, Begun
<1> DEFINE q == <<s, a, a>>
<1>7. a \in ValuesOf(doc, a)
  BY <1>1 DEF ValuesOf
<1>8. q \in Slots(doc)
  BY <1>5, <1>6, <1>7, SlotIs
<1>9. q \in Left
  BY <1>4, <1>8 DEF Left
<1>10. ASSUME NEW r \in Slots(doc), r[2] = a PROVE r = q
  <2>1. r[3] = a
    BY <1>1, <1>3, <1>10, SlotParts
  <2> QED BY <1>3, <1>8, <2>1, SlotsApart
<1>11. ASSUME NEW r \in Left \ {q} PROVE Precedes(q, r)
  <2>1. r \in Slots(doc) /\ (r[1] \in stmts \/ r[2] \in attrs)
    BY <1>1 DEF Left
  <2>2. CASE r[1] \in stmts
    BY <1>2, <1>5, <2>2 DEF Nesting, Precedes
  <2>3. CASE r[2] \in attrs
    <3>1. /\ r[2] \in ChildrenNamed(doc, s, "Attribute") /\ Parents(doc, r[2]) = {s}
          /\ a < r[2]
      <4>1. r[2] # a /\ a <= r[2] /\ a \in Nat /\ r[2] \in Nat
        BY <1>3, <1>4, <1>10, <1>11, <2>1, <2>3
      <4> QED BY <1>6, <2>3, <4>1
    <3>2. r[3] \in ValuesOf(doc, r[2]) /\ Parents(doc, r[2]) = {r[1]}
      BY <1>3, <2>1, SlotParts
    <3>3. a < r[3]
      BY <1>3, <1>5, <1>6, <1>7, <3>1, <3>2, SiblingsApart
    <3>4. r[1] = s
      BY <3>1, <3>2
    <3> QED BY <3>3, <3>4 DEF Precedes
  <2> QED BY <2>1, <2>2, <2>3
<1>12. Left' = Left \ {q}
  <2>1. s \notin stmts
    BY <1>5 DEF Begun
  <2>2. \A r \in Slots(doc) : r[2] = a <=> r = q
    BY <1>10
  <2>3. Left' = {r \in Slots(doc) : r[1] \in stmts \/ r[2] \in attrs \ {a}}
    BY <1>1 DEF Left
  <2>4. Left = {r \in Slots(doc) : r[1] \in stmts \/ r[2] \in attrs}
    BY <1>1 DEF Left
  <2>5. q[1] \notin stmts
    BY <2>1
  <2> HIDE DEF q, a
  <2> QED BY <2>2, <2>3, <2>4, <2>5
<1> QED BY <1>5, <1>9, <1>11, <1>12 DEF Takes

LEMMA ValueRowTakes ==
  ASSUME RInv, ValueRow
  PROVE  \E q \in Left : Takes(q) /\ q[2] = owner /\ q[3] = First(vals) /\ q[3] # q[2]
<1> DEFINE v == First(vals)
<1>1. /\ vals # {} /\ vals' = vals \ {v} /\ attrs' = attrs /\ stmts' = stmts /\ doc' = doc
  BY DEF ValueRow
<1>2. IInv /\ Nesting
  BY DEF RInv
<1>3. /\ IsDocument(doc) /\ vals \in SUBSET Nat /\ owner \in Nodes(doc) /\ owner \in Nat
      /\ \A w \in vals : /\ w \in ChildrenNamed(doc, owner, "AttributeValue")
                         /\ doc[w].tag = "AttributeValue" /\ Parents(doc, w) = {owner}
  BY <1>1, <1>2, LeftSlots
<1>4. v \in vals /\ \A w \in vals : v <= w
  BY <1>1, <1>3, FirstIsLeast
<1>5. PICK s \in Begun :
        (\A t \in Begun : t <= s) /\ owner \in ChildrenNamed(doc, s, "Attribute")
  BY <1>1, <1>2 DEF Nesting, InLatest
<1>6. /\ s \in Nodes(doc) /\ s \in Named(doc, "AttributeStatement")
      /\ \A b \in attrs :
           b \in ChildrenNamed(doc, s, "Attribute") /\ Parents(doc, b) = {s}
  BY <1>2, <1>5, Latest DEF Nesting, Begun
<1>7. Parents(doc, owner) = {s} /\ \A b \in attrs : owner < b
  <2>1. Parents(doc, owner) = {s}
    BY <1>5 DEF ChildrenNamed, Children
  <2>2. \A b \in attrs : owner < b
    BY <1>1, <1>2 DEF Nesting
  <2> QED BY <2>1, <2>2
<1> DEFINE q == <<s, owner, v>>
<1> HIDE DEF v
<1>8. v \in ValuesOf(doc, owner)
  BY <1>3, <1>4 DEF ValuesOf
<1>9. q \in Slots(doc)
  BY <1>5, <1>6, <1>8, SlotIs
<1>10. q \in Left
  BY <1>4, <1>9 DEF Left
<1>11. v # owner
  <2>1. owner < v
    BY <1>3, <1>4, ChildFollows
  <2> QED BY <1>3, <1>4, <2>1
<1>12. ASSUME NEW r \in Slots(doc), r[3] \in vals
       PROVE  r[2] = owner /\ r[1] = s /\ (r[3] = v => r = q)
  <2>1. doc[r[3]].tag = "AttributeValue" /\ Parents(doc, r[3]) = {owner}
    BY <1>3, <1>12
  <2>2. \/ r[3] = r[2] /\ doc[r[2]].tag = "Attribute"
        \/ Parents(doc, r[3]) = {r[2]}
    BY <1>3, SlotParts
  <2>3. r[2] = owner
    BY <2>1, <2>2
  <2>4. Parents(doc, r[2]) = {r[1]}
    BY <1>3, SlotParts
  <2>5. r[3] = v => r = q
    <3>1. q[3] = v
      OBVIOUS
    <3> HIDE DEF q
    <3> QED BY <1>3, <1>9, <3>1, SlotsApart
  <2> QED BY <1>7, <2>3, <2>4, <2>5
<1>13. ASSUME NEW r \in Left \ {q} PROVE Precedes(q, r)
  <2>1. r \in Slots(doc) /\ (r[1] \in stmts \/ r[2] \in attrs \/ r[3] \in vals)
    BY DEF Left
  <2>2. CASE r[1] \in stmts
    BY <1>2, <1>5, <2>2 DEF Nesting, Precedes
  <2>3. CASE r[2] \in attrs
    <3>1. /\ r[2] \in ChildrenNamed(doc, s, "Attribute") /\ Parents(doc, r[2]) = {s}
          /\ owner < r[2]
      BY <1>6, <1>7, <2>3
    <3>2. r[3] \in ValuesOf(doc, r[2]) /\ Parents(doc, r[2]) = {r[1]}
      BY <1>3, <2>1, SlotParts
    <3>3. v < r[3]
      BY <1>3, <1>5, <1>6, <1>8, <3>1, <3>2, SiblingsApart
    <3>4. r[1] = s
      BY <3>1, <3>2
    <3> QED BY <3>3, <3>4 DEF Precedes
  <2>4. CASE r[3] \in vals
    <3>1. r[1] = s /\ r[3] # v
      BY <1>12, <1>13, <2>1, <2>4
    <3>2. v <= r[3] /\ v \in Nat /\ r[3] \in Nat
      BY <1>3, <1>4, <2>4
    <3>3. v < r[3]
      BY <3>1, <3>2
    <3> QED BY <3>1, <3>3 DEF Precedes
  <2> QED BY <2>1, <2>2, <2>3, <2>4
<1>14. Left' = Left \ {q}
  <2>1. s \notin stmts /\ owner \notin attrs
    BY <1>3, <1>5, <1>7 DEF Begun
  <2>2. \A r \in Slots(doc) : r[3] \in vals => (r[3] = v <=> r = q)
    BY <1>12
  <2>3. Left' = {r \in Slots(doc) : r[1] \in stmts \/ r[2] \in attrs \/ r[3] \in vals \ {v}}
    BY <1>1 DEF Left, v
  <2>4. q[1] \notin stmts /\ q[2] \notin attrs /\ q[3] = v
    BY <2>1
  <2> HIDE DEF q
  <2> QED BY <2>2, <2>3, <2>4 DEF Left
<1> QED BY <1>5, <1>10, <1>11, <1>13, <1>14 DEF Takes, v

(* A row for the slot taken leaves the report as far as it is owed. *)
LEMMA TakingReports ==
  ASSUME RInv, stage = "attributes", stage' = stage, doc' = doc,
         NEW q \in Left, Takes(q), NEW row, rows' = Append(rows, row)
  PROVE  Reported'
<1>1. IsDocument(doc) /\ Left \in SUBSET Slots(doc)
  BY DocumentsAssumption DEF RInv, IInv, Left
<1>2. /\ Len(rows) = Cardinality(Slots(doc) \ Left)
      /\ \A p \in Slots(doc) \ Left, r \in Left : Precedes(p, r)
  BY DEF RInv, Reported
<1>3. Left' = Left \ {q} /\ \A r \in Left \ {q} : Precedes(q, r)
  BY DEF Takes
<1> DEFINE L == Left
           M == Left'
<1>4. M = L \ {q}
  BY <1>3
<1>5. /\ Cardinality(Slots(doc) \ M) = Cardinality(Slots(doc) \ L) + 1
      /\ \A p \in Slots(doc) \ M, r \in M : Precedes(p, r)
  <2> HIDE DEF L
  <2>1. L \in SUBSET Slots(doc) /\ q \in L
    BY <1>1 DEF L
  <2>2. /\ \A p \in Slots(doc) \ L, r \in L : Precedes(p, r)
        /\ \A r \in L \ {q} : Precedes(q, r)
    BY <1>2, <1>3 DEF L
  <2> QED BY <1>1, <1>4, <2>1, <2>2, TakeLeast
<1>6. Len(rows') = Len(rows) + 1
  BY DEF RInv, IInv, Loops
<1> QED BY <1>2, <1>5, <1>6 DEF Reported

LEMMA EmptyAttributeReports == RInv /\ EmptyAttribute => Nesting' /\ Reported'
<1> SUFFICES ASSUME RInv, EmptyAttribute PROVE Nesting' /\ Reported'
  OBVIOUS
<1>1. /\ stage = "attributes" /\ stage' = stage /\ doc' = doc /\ stmts' = stmts
      /\ vals = {} /\ vals' = vals /\ attrs' = attrs \ {First(attrs)}
      /\ rows' = Append(rows, AttributeRow(First(attrs), {}))
  BY DEF EmptyAttribute
<1>2. Nesting'
  BY <1>1 DEF RInv, Nesting, InLatest, Begun
<1>3. PICK q \in Left : Takes(q)
  BY EmptyAttributeTakes
<1>4. Reported'
  BY <1>1, <1>3, TakingReports
<1> QED BY <1>2, <1>4

LEMMA ValueRowReports == RInv /\ ValueRow => Nesting' /\ Reported'
<1> SUFFICES ASSUME RInv, ValueRow PROVE Nesting' /\ Reported'
  OBVIOUS
<1>1. /\ stage = "attributes" /\ stage' = stage /\ doc' = doc /\ stmts' = stmts
      /\ vals # {} /\ vals' = vals \ {First(vals)} /\ attrs' = attrs /\ owner' = owner
      /\ rows' = Append(rows, AttributeRow(owner, TextAt({First(vals)})))
  BY DEF ValueRow
<1>2. Nesting'
  BY <1>1 DEF RInv, Nesting, InLatest, Begun
<1>3. PICK q \in Left : Takes(q)
  BY ValueRowTakes
<1>4. Reported'
  BY <1>1, <1>3, TakingReports
<1> QED BY <1>2, <1>4

LEMMA ReadViewsReports == RInv /\ ReadViews => Nesting' /\ Reported'
<1> SUFFICES ASSUME RInv, ReadViews PROVE Nesting' /\ Reported'
  OBVIOUS
<1>1. /\ stage = "attributes" /\ doc' = doc /\ rows' = rows
      /\ vals = {} /\ attrs = {} /\ stmts = {}
      /\ vals' = vals /\ attrs' = attrs /\ stmts' = stmts /\ owner' = owner
  BY DEF ReadViews, loops
<1>2. Nesting'
  BY <1>1 DEF RInv, Nesting
<1>3. Left' = Left
  BY <1>1 DEF Left
<1>4. Reported'
  BY <1>1, <1>3 DEF RInv, Reported
<1> QED BY <1>2, <1>4

LEMMA StutterReports == RInv /\ UNCHANGED vars => Nesting' /\ Reported'
<1> SUFFICES ASSUME RInv, UNCHANGED vars PROVE Nesting' /\ Reported'
  OBVIOUS
<1>1. /\ doc' = doc /\ stage' = stage /\ rows' = rows /\ stmts' = stmts /\ attrs' = attrs
      /\ vals' = vals /\ owner' = owner
  BY DEF vars, loops
<1>2. Nesting'
  BY <1>1 DEF RInv, Nesting, InLatest, Begun
<1>3. Left' = Left
  BY <1>1 DEF Left
<1>4. Reported'
  BY <1>1, <1>3 DEF RInv, Reported
<1> QED BY <1>2, <1>4

(* The invariant of the report. *)
LEMMA ReportInvariant ==
  /\ Init => RInv
  /\ RInv /\ [Next]_vars => RInv'
<1>1. Init => RInv
  BY InitEstablishes DEF Init, RInv, Nesting, Reported
<1>2. ASSUME RInv, [Next]_vars PROVE RInv'
  <2>1. IInv'
    BY <1>2, NextPreserves DEF RInv
  <2>2. CASE Decoding \/ AssertionRow
    <3>1. stage' \notin {"attributes", "done"}
      BY <2>2 DEF Decoding, ReadRoot, ReadAssertion, ReadBare, ReadSubject,
                  ReadConditions, ReadAuthn, Count, AssertionRow, Fill
    <3> QED BY <2>1, <3>1, BeforeAttributes DEF RInv
  <2>3. CASE StartAttributes \/ NextStatement \/ NextAttribute \/ ReadViews
    BY <1>2, <2>1, <2>3, StartAttributesReports, NextStatementReports,
       NextAttributeReports, ReadViewsReports DEF RInv
  <2>4. CASE EmptyAttribute \/ ValueRow \/ UNCHANGED vars
    BY <1>2, <2>1, <2>4, EmptyAttributeReports, ValueRowReports, StutterReports DEF RInv
  <2> QED BY <1>2, <2>2, <2>3, <2>4 DEF Next, Listing
<1> QED BY <1>1, <1>2

(* A step publishes the row that is owed, or none. *)
LEMMA StepReports == RInv /\ [Next]_vars => [Abstract!Next]_(Abstract!vars)
<1> SUFFICES ASSUME RInv, [Next]_vars PROVE [Abstract!Next]_(Abstract!vars)
  OBVIOUS
<1>1. CASE EmptyAttribute
  <2>1. /\ stage = "attributes" /\ doc' = doc
        /\ rows' = Append(rows, AttributeRow(First(attrs), {}))
    BY <1>1 DEF EmptyAttribute
  <2>2. PICK q \in Left : Takes(q) /\ q[2] = First(attrs) /\ q[3] = q[2]
    BY <1>1, EmptyAttributeTakes
  <2>3. /\ Len(rows) < Total(doc)
        /\ Entry(doc, Len(rows) + 1) = AttributeRow(First(attrs), {})
    BY <2>1, <2>2, RowIsNext DEF Takes, Begun
  <2> QED BY <2>1, <2>3 DEF Abstract!Next, Abstract!Publish
<1>2. CASE ValueRow
  <2>1. /\ stage = "attributes" /\ doc' = doc
        /\ rows' = Append(rows, AttributeRow(owner, TextAt({First(vals)})))
    BY <1>2 DEF ValueRow
  <2>2. PICK q \in Left :
          Takes(q) /\ q[2] = owner /\ q[3] = First(vals) /\ q[3] # q[2]
    BY <1>2, ValueRowTakes
  <2>3. /\ Len(rows) < Total(doc)
        /\ Entry(doc, Len(rows) + 1) = AttributeRow(owner, TextAt({First(vals)}))
    BY <2>1, <2>2, RowIsNext DEF Takes, Begun
  <2> QED BY <2>1, <2>3 DEF Abstract!Next, Abstract!Publish
<1>3. CASE \/ Decoding \/ AssertionRow \/ StartAttributes \/ NextStatement
           \/ NextAttribute \/ ReadViews \/ UNCHANGED vars
  <2>1. doc' = doc /\ rows' = rows
    BY <1>3 DEF Decoding, ReadRoot, ReadAssertion, ReadBare, ReadSubject, ReadConditions,
                ReadAuthn, Count, Fill, AssertionRow, StartAttributes, NextStatement,
                NextAttribute, ReadViews, vars
  <2> QED BY <2>1 DEF Abstract!vars
<1> QED BY <1>1, <1>2, <1>3 DEF Next, Listing

(* At the end no slot is left. *)
LEMMA NoneMissing == RInv => (done => Len(rows) = Total(doc))
<1> SUFFICES ASSUME RInv, done PROVE Len(rows) = Total(doc)
  OBVIOUS
<1>1. stage = "done" /\ stmts = {} /\ attrs = {} /\ vals = {}
  BY DEF RInv, Nesting, done
<1>2. Left = {}
  BY <1>1 DEF Left
<1>3. Slots(doc) \ Left = Slots(doc)
  BY <1>2
<1>4. Len(rows) = Cardinality(Slots(doc) \ Left)
  BY <1>1 DEF RInv, Reported
<1> QED BY <1>3, <1>4 DEF Total

-----------------------------------------------------------------------------
(* Every reachable state of the reading of any document satisfies the        *)
(* inductive invariant: each field of decode's struct has, once its stage    *)
(* is past, exactly the value message.rs reads for it.                       *)
THEOREM Invariant == Spec => []IInv
BY InitEstablishes, NextPreserves, PTL DEF Spec

(* The loops of attributes (attributes.rs:9-50) are nested and number every  *)
(* statement once, whatever the document.                                    *)
THEOREM TypeCorrect == Spec => []TypeOK
<1>1. IInv => TypeOK
  BY DEF IInv
<1> QED BY <1>1, Invariant, PTL

(* What decode has read it does not read again (message.rs:51-113).          *)
THEOREM FieldsAreSettled == Spec => FieldsSettle
<1>1. IInv /\ [Next]_vars =>
        [\A field \in DOMAIN d : d[field] # Default[field] => d'[field] = d[field]]_vars
  BY EveryFieldStays
<1> QED BY <1>1, Invariant, PTL DEF Spec, FieldsSettle

(* The first row of assertion_rows is the assertion decode() shows, in every *)
(* document (message.rs:60-127, attributes.rs:54-88).                        *)
THEOREM FirstRowDecoded == Spec => []FirstRowIsDecoded
BY Invariant, FirstRowAgrees, PTL

(* conditions() and authn() show what decode() shows whenever the first      *)
(* assertion has the first such element and assertions own them all          *)
(* (conditions.rs:12-28, authn.rs:11-27, message.rs:92-113).                 *)
THEOREM ViewsAlwaysAgree == Spec => []ViewsAgree
BY Invariant, ViewsAgreeWithDecode, PTL

(* attributes() reports every AttributeValue of every Attribute of every    *)
(* statement, and every Attribute without values, exactly once and in       *)
(* order, each under the number of its own statement and its own name; and  *)
(* when the views are done none is missing (attributes.rs:9-50).            *)
THEOREM Implements == Spec => ImplementsReport
<1>1. Init => Abstract!Init
  BY DEF Init, Abstract!Init
<1> QED BY <1>1, ReportInvariant, StepReports, NoneMissing, PTL
        DEF Spec, ImplementsReport, Abstract!Safety
=============================================================================
