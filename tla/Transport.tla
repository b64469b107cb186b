----------------------------- MODULE Transport ------------------------------
(***************************************************************************)
(* transport.rs: from any wire shape of a SAML message to XML text.        *)
(*                                                                         *)
(* Bytes are modelled by how they were made.  A wire value is              *)
(*   layers   the encodings around the payload, the outermost first:       *)
(*            "pct" (URL-encoding), "b64", "raw" (raw DEFLATE), "zlib",     *)
(*            "cut" (a DEFLATE stream that breaks off)                     *)
(*   payload  "xml", "bom-xml" (XML after a byte-order mark), "latin-xml"  *)
(*            (starts with '<' but is not UTF-8) or "junk"                 *)
(*   size     the length of the payload, in blocks of the read buffer      *)
(*   plus     the base64 text holds a '+'                                  *)
(* The decoders (base64, flate2, percent_encoding) undo the layer they are *)
(* for and refuse the others; a DEFLATE decoder given other bytes may give *)
(* out blocks before it fails.                                             *)
(***************************************************************************)
EXTENDS Naturals, Sequences

CONSTANTS
  Inputs,         \* the wire values a call can get
  MAX_INFLATED    \* cap on the inflated size, in blocks

WireValue ==
  [layers : Seq({"pct", "b64", "raw", "zlib", "cut"}),
   payload : {"xml", "bom-xml", "latin-xml", "junk"},
   size : Nat,
   plus : BOOLEAN]

ASSUME TransportAssumption ==
  /\ MAX_INFLATED \in Nat
  /\ \A v \in Inputs : v \in WireValue

VARIABLES
  input,          \* the argument
  entry,          \* "normalize" or "unwrap"
  pc,
  bytes,          \* the value under inspection
  attempt,        \* 1: as given; 2: after URL-decoding
  decoder,        \* "raw" or "zlib", while inflating
  taken,          \* blocks the decoder has given
  out,            \* blocks in the output buffer
  b64_err,        \* the error of attempt 1
  result          \* the XML payload, or the error

vars == <<input, entry, pc, bytes, attempt, decoder, taken, out, b64_err, result>>

-----------------------------------------------------------------------------
Outer(v) == IF v.layers = <<>> THEN "none" ELSE Head(v.layers)
Inner(v) == [v EXCEPT !.layers = Tail(@)]

LooksLikeXml(v) == v.layers = <<>> /\ v.payload # "junk"

(* percent_decode: text without escapes is left as it is. *)
PercentDecode(v) == IF Outer(v) = "pct" THEN Inner(v) ELSE v

(* Defect: the test overlooks '%'. *)
MayBeUrlEncoded_PlusOnly(v) == Outer(v) = "b64" /\ v.plus

(* The test for '%' or '+' that admits the second attempt. *)
MayBeUrlEncoded(v) == Outer(v) = "pct" \/ (Outer(v) = "b64" /\ v.plus)

(* decode_utf8(strip_bom(..)) of bytes that look like XML. *)
DecodeUtf8(v) ==
  IF v.payload = "latin-xml" THEN [ok |-> FALSE, kind |-> "encoding-error"]
                             ELSE [ok |-> TRUE, kind |-> "xml"]

Err(kind) == [ok |-> FALSE, kind |-> kind]
NoResult == Err("none")

(* The stream a decoder sees in bytes: does it understand the layer, and    *)
(* how many blocks does it give before it ends.                             *)
Readable(v, d) == Outer(v) = d

-----------------------------------------------------------------------------
Init ==
  /\ input \in Inputs
  /\ entry \in {"normalize", "unwrap"}
  /\ pc = "call"
  /\ bytes = input
  /\ attempt = 1
  /\ decoder = "raw"
  /\ taken = 0
  /\ out = 0
  /\ b64_err = NoResult
  /\ result = NoResult

(* unwrap() URL-decodes first; both then run normalize(). *)
Call ==
  /\ pc = "call"
  /\ bytes' = IF entry = "unwrap" THEN PercentDecode(input) ELSE input
  /\ input' = bytes'
  /\ pc' = "sniff"
  /\ UNCHANGED <<entry, attempt, decoder, taken, out, b64_err, result>>

Return(r) ==
  /\ pc' = "done"
  /\ result' = r
  /\ UNCHANGED <<input, entry, bytes, attempt, decoder, taken, out, b64_err>>

(* An attempt failed: the first error is kept, and the second attempt made  *)
(* only when the input may be URL-encoded.                                  *)
Fail(kind) ==
  IF attempt = 1 /\ MayBeUrlEncoded(input)
    THEN /\ b64_err' = Err(kind)
         /\ bytes' = PercentDecode(input)
         /\ attempt' = 2
         /\ pc' = "sniff"
         /\ UNCHANGED <<input, entry, decoder, taken, out, result>>
    ELSE Return(IF attempt = 1 THEN Err(kind) ELSE b64_err)

(* Already XML: its UTF-8 verdict is final in either attempt. *)
SniffXml ==
  /\ pc = "sniff"
  /\ LooksLikeXml(bytes)
  /\ Return(DecodeUtf8(bytes))

Base64 ==
  /\ pc = "sniff"
  /\ ~ LooksLikeXml(bytes)
  /\ Outer(bytes) = "b64"
  /\ bytes' = Inner(bytes)
  /\ pc' = "sniff-decoded"
  /\ UNCHANGED <<input, entry, attempt, decoder, taken, out, b64_err, result>>

NotBase64 ==
  /\ pc = "sniff"
  /\ ~ LooksLikeXml(bytes)
  /\ Outer(bytes) # "b64"
  /\ Fail("bad-base64")

(* sniff_decoded on the decoded bytes, and on the inflated ones. *)
SniffDecoded ==
  /\ pc = "sniff-decoded"
  /\ LooksLikeXml(bytes)
  /\ IF DecodeUtf8(bytes).ok THEN Return(DecodeUtf8(bytes))
                             ELSE Fail(DecodeUtf8(bytes).kind)

StartInflate ==
  /\ pc = "sniff-decoded"
  /\ ~ LooksLikeXml(bytes)
  /\ pc' = "inflate"
  /\ decoder' = "raw"
  /\ taken' = 0
  /\ out' = 0
  /\ UNCHANGED <<input, entry, bytes, attempt, b64_err, result>>

(* Defect: the fallback appends to the buffer of the failed decoder. *)
InflateError_KeepsBuffer ==
  IF decoder = "raw"
    THEN /\ decoder' = "zlib"
         /\ taken' = 0
         /\ UNCHANGED <<input, entry, pc, bytes, attempt, out, b64_err, result>>
    ELSE Fail("bad-deflate")

(* Defect: the decoders fall back to each other. *)
InflateError_Alternates ==
  /\ decoder' = IF decoder = "raw" THEN "zlib" ELSE "raw"
  /\ taken' = 0
  /\ out' = 0
  /\ UNCHANGED <<input, entry, pc, bytes, attempt, b64_err, result>>

(* The decoder gives up: raw DEFLATE falls back to zlib from the start. *)
InflateError ==
  IF decoder = "raw"
    THEN /\ decoder' = "zlib"
         /\ taken' = 0
         /\ out' = 0
         /\ UNCHANGED <<input, entry, pc, bytes, attempt, b64_err, result>>
    ELSE Fail("bad-deflate")

(* The decoder has bytes to give, right ones or wrong ones. *)
CanRead ==
  pc = "inflate" /\ (Readable(bytes, decoder) => taken < bytes.size)

(* Defect: the cap is tested on the buffer as it was. *)
ReadBlock_LateTest ==
  /\ CanRead
  /\ out <= MAX_INFLATED
  /\ taken' = taken + 1
  /\ out' = out + 1
  /\ UNCHANGED <<input, entry, pc, bytes, attempt, decoder, b64_err, result>>

(* Ok(n): one more block, as long as it does not pass the cap. *)
ReadBlock ==
  /\ CanRead
  /\ out + 1 <= MAX_INFLATED
  /\ taken' = taken + 1
  /\ out' = out + 1
  /\ UNCHANGED <<input, entry, pc, bytes, attempt, decoder, b64_err, result>>

ReadPastCap ==
  /\ CanRead
  /\ out + 1 > MAX_INFLATED
  /\ InflateError

(* Err(_): the bytes are not the decoder's, or the stream breaks off. *)
ReadError ==
  /\ pc = "inflate"
  /\ ~ Readable(bytes, decoder)
  /\ InflateError

(* Ok(0): the end of the stream; empty output is an error. *)
EndOfStream ==
  /\ pc = "inflate"
  /\ Readable(bytes, decoder)
  /\ taken = bytes.size
  /\ IF out = 0 THEN InflateError
     ELSE /\ bytes' = Inner(bytes)
          /\ pc' = "inflated"
          /\ UNCHANGED <<input, entry, attempt, decoder, taken, out, b64_err, result>>

Inflated ==
  /\ pc = "inflated"
  /\ IF LooksLikeXml(bytes) /\ DecodeUtf8(bytes).ok THEN Return(DecodeUtf8(bytes))
     ELSE IF LooksLikeXml(bytes) THEN Fail(DecodeUtf8(bytes).kind)
     ELSE Fail("not-xml")

Next ==
  \/ Call \/ SniffXml \/ Base64 \/ NotBase64 \/ SniffDecoded \/ StartInflate
  \/ ReadBlock \/ ReadPastCap \/ ReadError \/ EndOfStream \/ Inflated

Spec == Init /\ [][Next]_vars /\ WF_vars(Next)

-----------------------------------------------------------------------------
Kinds == {"none", "bad-base64", "bad-deflate", "not-xml", "encoding-error"}

(* Type invariant; the inflated output never passes the cap. *)
TypeOK ==
  /\ attempt \in {1, 2}
  /\ decoder \in {"raw", "zlib"}
  /\ taken \in Nat
  /\ out \in 0 .. MAX_INFLATED
  /\ result.ok \in BOOLEAN
  /\ ~ result.ok => result.kind \in Kinds
  /\ pc = "done" => result # NoResult

(* The shapes the module's header promises: raw XML, base64, base64 over    *)
(* raw DEFLATE or zlib, any of them URL-encoded once, nothing larger than   *)
(* the cap and nothing that is not UTF-8.                                   *)
Supported(v) ==
  LET w == PercentDecode(v) IN
  /\ w.payload \in {"xml", "bom-xml"}
  /\ \/ w.layers \in {<<>>, <<"b64">>}
     \/ /\ w.layers \in {<<"b64", "raw">>, <<"b64", "zlib">>}
        /\ w.size \in 1 .. MAX_INFLATED

(* The chain of sniffs, attempts and fallbacks accepts those shapes and no  *)
(* other, whatever the wrong decoder put out before it failed.              *)
AcceptsExactlyTheSupportedShapes ==
  pc = "done" => (result.ok <=> Supported(input))

(* What is sniffed after inflation is one decoder's whole output and nothing *)
(* else: what raw DEFLATE gave before it failed never reaches the caller    *)
(* through the zlib fallback.                                               *)
InflatedOutputIsWhole == pc = "inflated" => out = bytes.size

(* The two attempts, the fallback and the read loop end. *)
Terminates == <>(pc = "done")
=============================================================================
