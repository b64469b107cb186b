-------------------------------- MODULE Api ---------------------------------
(***************************************************************************)
(* api.rs: each catalog function normalizes a message, parses it under the *)
(* hardened loader and analyzes it, or answers with its own default.       *)
(*                                                                         *)
(* A message is abstracted to how far it gets and what is found in it:     *)
(*   name        which message it is                                       *)
(*   normalized  "ok", or the kind transport::normalize reports            *)
(*   xml         "ok", or the roxmltree error of the parser                *)
(*   root        the local name of the root element                        *)
(*   parts       which of Conditions and AuthnStatement it contains        *)
(*   items       how many entries each list about it has                   *)
(*   codecs      the transport functions that yield bytes for it           *)
(*   utf8        whether the bytes that inflate yields are text            *)
(*   size        the length of the text it contributes to a column         *)
(***************************************************************************)
EXTENDS Naturals, Sequences

Null == "NULL"

(* message.rs: the recognized roots. *)
KnownRoots ==
  {"Response", "AuthnRequest", "LogoutRequest", "LogoutResponse", "Assertion",
   "EncryptedAssertion", "ArtifactResolve", "ArtifactResponse",
   "AttributeQuery", "ManageNameIDRequest"}

MessageTypeOf(m) == IF m.root \in KnownRoots THEN m.root ELSE "unknown"

(* xml.rs: what a parse error is reported as. *)
classify(e) ==
  CASE e = "DtdDetected" -> "dtd-present"
    [] e \in {"UnknownEntityReference", "MalformedEntityReference",
              "EntityReferenceLoop", "UnexpectedEntityCloseTag"} -> "entity-blocked"
    [] e \in {"UnexpectedEndOfStream", "UnclosedRootNode", "NoRootNode"} -> "truncated"
    [] e \in {"NonXmlChar", "InvalidChar"} -> "encoding-error"
    [] OTHER -> "not-xml"

(* transport.rs: the kinds normalize reports. *)
TransportErrors == {"bad-base64", "bad-deflate", "encoding-error", "not-xml"}

(* load and parse, as every function chains them. *)
Parsed(m) == m.normalized = "ok" /\ m.xml = "ok"

-----------------------------------------------------------------------------
(* Defect: a document that parses is taken for a SAML message. *)
well_formed_AnyRoot(m) ==
  IF m.normalized # "ok" THEN m.normalized
  ELSE IF m.xml # "ok" THEN classify(m.xml)
  ELSE "ok"

(* The kind of the triage verdict. *)
well_formed(m) ==
  IF m.normalized # "ok" THEN m.normalized
  ELSE IF m.xml # "ok" THEN classify(m.xml)
  ELSE IF MessageTypeOf(m) = "unknown" THEN "not-saml"
  ELSE "ok"

message_type(m) == IF Parsed(m) THEN MessageTypeOf(m) ELSE "unknown"

(* The entries of a list about a message: attributes, signatures,           *)
(* assertions, anomalies, audiences, references.                            *)
Entries(m) == [n \in 1 .. m.items |-> <<m.name, n>>]

(* attributes, signatures, assertions and anomalies: empty on failure. *)
RowsOf(m) == IF Parsed(m) THEN Entries(m) ELSE <<>>

(* The audiences, which are below Conditions. *)
AudiencesOf(m) == IF "Conditions" \in m.parts THEN Entries(m) ELSE <<>>

(* decode: the default struct on failure, whose fields are null. *)
decode(m) ==
  IF Parsed(m)
  THEN [message_type |-> MessageTypeOf(m), audiences |-> AudiencesOf(m)]
  ELSE [message_type |-> Null, audiences |-> <<>>]

(* signature: the default struct, unsigned, on failure. *)
signature(m) ==
  IF Parsed(m)
  THEN [signed |-> IF m.items > 0 THEN "signed" ELSE "unsigned",
        references |-> Entries(m)]
  ELSE [signed |-> "unsigned", references |-> <<>>]

(* conditions and authn: an answer only when the document parses, and the   *)
(* default struct, its first field null, when it lacks the element.         *)
Answered(m) == Parsed(m)

conditions(m) ==
  [not_before |-> IF "Conditions" \in m.parts THEN m.name ELSE Null,
   audiences |-> AudiencesOf(m)]

authn(m) ==
  [authn_instant |-> IF "AuthnStatement" \in m.parts THEN m.name ELSE Null]
=============================================================================
