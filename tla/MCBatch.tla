------------------------------ MODULE MCBatch -------------------------------
(* Columns of up to three cells over messages that fail at every stage, or  *)
(* hold lists of no, one and two entries, with both, one and none of the    *)
(* elements that conditions and authn look for.  Two long ones do not fit   *)
(* into a column.                                                           *)
EXTENDS Batch

Message(name, normalized, xml, root, parts, items, codecs, utf8, size) ==
  [name |-> name, normalized |-> normalized, xml |-> xml, root |-> root,
   parts |-> parts, items |-> items, codecs |-> codecs, utf8 |-> utf8, size |-> size]

(* As they arrive: raw XML, base64, or base64 over DEFLATE. *)
Messages ==
  {Message("garbage", "bad-base64", "-", "-", {}, 0, {}, FALSE, 1),
   Message("blob", "bad-base64", "-", "-", {}, 0, {"inflate"}, FALSE, 1),
   Message("stream", "bad-base64", "-", "-", {}, 0, {"inflate"}, TRUE, 1),
   Message("junk64", "bad-deflate", "-", "-", {}, 0, {"b64decode"}, FALSE, 1),
   Message("dtd", "ok", "DtdDetected", "-", {}, 0, {"unwrap"}, FALSE, 1),
   Message("cut", "ok", "UnclosedRootNode", "-", {}, 0, {"unwrap"}, FALSE, 1),
   Message("html", "ok", "ok", "html", {}, 1, {"unwrap"}, FALSE, 1),
   Message("request", "ok", "ok", "AuthnRequest", {}, 0, {"unwrap"}, FALSE, 1),
   Message("response", "ok", "ok", "Response", {"Conditions"}, 1, {"b64decode", "unwrap"}, FALSE, 1),
   Message("long", "ok", "ok", "Response", {"Conditions", "AuthnStatement"}, 2, {"unwrap"}, FALSE, 2)}

Cells == {{}} \cup {{m} : m \in Messages}

Columns ==
  [type : {"Utf8"}, cells : UNION {[1 .. n -> Cells] : n \in 0 .. 3}]
    \cup [type : {"Int64"}, cells : UNION {[1 .. n -> Cells] : n \in 0 .. 2}]

AllFunctions ==
  <<"well_formed", "message_type", "decode", "conditions", "authn", "signature",
    "signatures", "anomalies", "attributes", "assertions", "b64decode",
    "inflate", "unwrap">>
=============================================================================
