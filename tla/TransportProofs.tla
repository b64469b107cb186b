--------------------------- MODULE TransportProofs --------------------------
(***************************************************************************)
(* transport.rs, for every set of wire values and every cap: the type      *)
(* invariant, that what leaves the inflater is one decoder's whole output, *)
(* and that exactly the supported shapes are accepted.                     *)
(*                                                                         *)
(* The inductive invariant says, at each stage, which layers of the input  *)
(* have come off; that the zlib fallback runs only after raw DEFLATE could *)
(* not have succeeded; and that the second attempt is made only after the  *)
(* first was bound to fail.                                                *)
(***************************************************************************)
EXTENDS Transport, SequenceTheorems, TLAPS

(* The value an attempt starts from. *)
Attempted == IF attempt = 1 THEN input ELSE PercentDecode(input)

(* A value that is accepted as it is, without URL-decoding. *)
Direct(v) ==
  /\ v.payload \in {"xml", "bom-xml"}
  /\ \/ v.layers \in {<<>>, <<"b64">>}
     \/ /\ v.layers \in {<<"b64", "raw">>, <<"b64", "zlib">>}
        /\ v.size \in 1 .. MAX_INFLATED

Failures == {Err(kind) : kind \in Kinds \ {"none"}}

Types ==
  /\ input \in WireValue
  /\ bytes \in WireValue
  /\ attempt \in {1, 2}
  /\ decoder \in {"raw", "zlib"}
  /\ taken \in Nat
  /\ out \in 0 .. MAX_INFLATED
  /\ pc \in {"call", "sniff", "sniff-decoded", "inflate", "inflated", "done"}

(* The second attempt follows a first that could not succeed. *)
Attempts ==
  /\ pc = "call" => attempt = 1
  /\ attempt = 2 => ~ Direct(input) /\ b64_err \in Failures

(* What has come off the value an attempt started from. *)
Unwrapped ==
  /\ pc = "sniff" => bytes = Attempted
  /\ pc \in {"sniff-decoded", "inflate", "inflated"} =>
       ~ LooksLikeXml(Attempted) /\ Outer(Attempted) = "b64"
  /\ pc \in {"sniff-decoded", "inflate"} => bytes = Inner(Attempted)
  /\ pc \in {"inflate", "inflated"} => ~ LooksLikeXml(Inner(Attempted))
  /\ pc = "inflated" =>
       /\ bytes = Inner(Inner(Attempted))
       /\ Readable(Inner(Attempted), decoder)

(* The buffer holds what the present decoder gave, and nothing else. *)
Buffered ==
  /\ pc = "inflate" =>
       /\ out = taken
       /\ Readable(bytes, decoder) => taken <= bytes.size
       /\ decoder = "zlib" /\ Readable(bytes, "raw") =>
            bytes.size \notin 1 .. MAX_INFLATED
  /\ pc = "inflated" => out = bytes.size /\ out # 0

Answered ==
  /\ pc # "done" => result = NoResult
  /\ pc = "done" =>
       /\ result.ok <=> Supported(input)
       /\ result \in Failures \cup {[ok |-> TRUE, kind |-> "xml"]}

IInv == Types /\ Attempts /\ Unwrapped /\ Buffered /\ Answered

-----------------------------------------------------------------------------
(* Sequences of one and of two elements, taken apart. *)
LEMMA Singles ==
  ASSUME NEW S, NEW s \in Seq(S), s # <<>>
  PROVE  \A a : s = <<a>> <=> (Head(s) = a /\ Tail(s) = <<>>)
<1>1. /\ Tail(s) \in Seq(S) /\ Len(s) \in Nat \ {0}
      /\ Len(Tail(s)) = Len(s) - 1 /\ Head(s) = s[1]
  BY HeadTailProperties, EmptySeq
<1>2. Tail(s) = <<>> <=> Len(Tail(s)) = 0
  BY <1>1, EmptySeq
<1>3. \A a : s = <<a>> <=> (Len(s) = 1 /\ s[1] = a)
  BY <1>1
<1> QED BY <1>1, <1>2, <1>3

LEMMA Pairs ==
  ASSUME NEW S, NEW s \in Seq(S), s # <<>>
  PROVE  \A a, b : s = <<a, b>> <=>
           (/\ Head(s) = a /\ Tail(s) # <<>>
            /\ Head(Tail(s)) = b /\ Tail(Tail(s)) = <<>>)
<1>1. /\ Tail(s) \in Seq(S) /\ Len(s) \in Nat \ {0}
      /\ Len(Tail(s)) = Len(s) - 1
      /\ Head(s) = s[1] /\ \A i \in 1 .. Len(Tail(s)) : Tail(s)[i] = s[i + 1]
  BY HeadTailProperties, EmptySeq
<1>2. Tail(s) = <<>> <=> Len(Tail(s)) = 0
  BY <1>1, EmptySeq
<1>3. \A a, b : s = <<a, b>> <=> (Len(s) = 2 /\ s[1] = a /\ s[2] = b)
  BY <1>1
<1>4. CASE Tail(s) = <<>>
  BY <1>1, <1>2, <1>3, <1>4
<1>5. CASE Tail(s) # <<>>
  <2>1. /\ Tail(Tail(s)) \in Seq(S) /\ Len(Tail(s)) \in Nat \ {0}
        /\ Len(Tail(Tail(s))) = Len(Tail(s)) - 1
        /\ Head(Tail(s)) = Tail(s)[1]
    BY <1>1, <1>5, HeadTailProperties, EmptySeq
  <2>2. Tail(Tail(s)) = <<>> <=> Len(Tail(Tail(s))) = 0
    BY <2>1, EmptySeq
  <2> QED BY <1>1, <1>3, <1>5, <2>1, <2>2
<1> QED BY <1>4, <1>5

(* Taking a layer off a wire value. *)
LEMMA Layers ==
  ASSUME NEW v \in WireValue, Outer(v) # "none"
  PROVE  /\ v.layers # <<>> /\ Outer(v) = Head(v.layers)
         /\ Inner(v) \in WireValue
         /\ Inner(v).layers = Tail(v.layers)
         /\ Inner(v).payload = v.payload /\ Inner(v).size = v.size
<1>1. v.layers # <<>> /\ Outer(v) = Head(v.layers)
  BY DEF Outer
<1>2. Tail(v.layers) \in Seq({"pct", "b64", "raw", "zlib", "cut"})
  BY <1>1, HeadTailProperties DEF WireValue
<1> QED BY <1>1, <1>2 DEF Inner, WireValue

LEMMA PercentDecoded ==
  ASSUME NEW v \in WireValue
  PROVE  PercentDecode(v) \in WireValue
BY Layers DEF PercentDecode

(* A value has no outer layer exactly when it has none at all. *)
LEMMA NoLayers ==
  ASSUME NEW v \in WireValue
  PROVE  Outer(v) = "none" <=> v.layers = <<>>
<1>1. v.layers # <<>> => Head(v.layers) \in {"pct", "b64", "raw", "zlib", "cut"}
  BY HeadTailProperties DEF WireValue
<1> QED BY <1>1 DEF Outer

(* What is accepted directly, layer by layer. *)
LEMMA DirectByLayers ==
  ASSUME NEW v \in WireValue
  PROVE  Direct(v) <=>
           /\ v.payload \in {"xml", "bom-xml"}
           /\ \/ v.layers = <<>>
              \/ /\ Outer(v) = "b64"
                 /\ \/ Inner(v).layers = <<>>
                    \/ /\ Outer(Inner(v)) \in {"raw", "zlib"}
                       /\ Inner(Inner(v)).layers = <<>>
                       /\ v.size \in 1 .. MAX_INFLATED
<1>1. CASE v.layers = <<>>
  BY <1>1 DEF Direct
<1>2. CASE v.layers # <<>>
  <2>1. Outer(v) = Head(v.layers) /\ Inner(v) \in WireValue
        /\ Inner(v).layers = Tail(v.layers)
    BY <1>2, NoLayers, Layers
  <2>2. v.layers = <<"b64">> <=> Outer(v) = "b64" /\ Inner(v).layers = <<>>
    BY <1>2, <2>1, Singles DEF WireValue
  <2>3. ASSUME NEW x \in {"raw", "zlib"}
        PROVE  v.layers = <<"b64", x>> <=>
                 /\ Outer(v) = "b64"
                 /\ Outer(Inner(v)) = x /\ Inner(Inner(v)).layers = <<>>
    <3>1. v.layers = <<"b64", x>> <=>
            /\ Outer(v) = "b64" /\ Inner(v).layers # <<>>
            /\ Head(Inner(v).layers) = x /\ Tail(Inner(v).layers) = <<>>
      <4>1. v.layers \in Seq({"pct", "b64", "raw", "zlib", "cut"})
        BY DEF WireValue
      <4>2. v.layers = <<"b64", x>> <=>
              /\ Head(v.layers) = "b64" /\ Tail(v.layers) # <<>>
              /\ Head(Tail(v.layers)) = x /\ Tail(Tail(v.layers)) = <<>>
        BY <1>2, <4>1, Pairs
      <4> QED BY <2>1, <4>2
    <3>2. Inner(v).layers = <<>> => Outer(Inner(v)) # x
      BY DEF Outer
    <3>3. Inner(v).layers # <<>> =>
            /\ Outer(Inner(v)) = Head(Inner(v).layers)
            /\ Inner(Inner(v)).layers = Tail(Inner(v).layers)
      BY <2>1, NoLayers, Layers
    <3> QED BY <3>1, <3>2, <3>3
  <2> QED BY <1>2, <2>2, <2>3 DEF Direct
<1> QED BY <1>1, <1>2

(* What is supported is accepted directly, or may be URL-encoded. *)
LEMMA SupportedByAttempts ==
  ASSUME NEW v \in WireValue
  PROVE  /\ Supported(v) <=> Direct(PercentDecode(v))
         /\ Direct(v) => Supported(v)
         /\ Supported(v) /\ ~ MayBeUrlEncoded(v) => Direct(v)
<1>1. Supported(v) <=> Direct(PercentDecode(v))
  BY DEF Supported, Direct
<1>2. Outer(v) # "pct" => PercentDecode(v) = v
  BY DEF PercentDecode
<1>3. Direct(v) => Outer(v) # "pct"
  BY DirectByLayers, NoLayers
<1> QED BY <1>1, <1>2, <1>3 DEF MayBeUrlEncoded

-----------------------------------------------------------------------------
(* The value an attempt starts from is a wire value. *)
LEMMA AttemptedValue ==
  ASSUME IInv
  PROVE  Attempted \in WireValue /\ (Outer(Attempted) = "b64" =>
           /\ Inner(Attempted) \in WireValue
           /\ Inner(Attempted).payload = Attempted.payload
           /\ Inner(Attempted).size = Attempted.size)
<1>1. Attempted \in WireValue
  BY PercentDecoded DEF IInv, Types, Attempted
<1> QED BY <1>1, Layers

(* An answer that is right ends the call. *)
LEMMA ReturnPreserves ==
  ASSUME IInv, NEW r \in Failures \cup {[ok |-> TRUE, kind |-> "xml"]},
         r.ok <=> Supported(input), Return(r), pc # "call"
  PROVE  IInv'
<1>1. /\ pc' = "done" /\ result' = r
      /\ UNCHANGED <<input, entry, bytes, attempt, decoder, taken, out, b64_err>>
  BY DEF Return
<1>2. Types' /\ Attempts'
  BY <1>1 DEF IInv, Types, Attempts
<1>3. Unwrapped' /\ Buffered' /\ Answered'
  BY <1>1 DEF Unwrapped, Buffered, Answered
<1> QED BY <1>2, <1>3 DEF IInv

(* An attempt that was bound to fail may fail: the second one follows, or   *)
(* the value is not supported.                                              *)
LEMMA FailPreserves ==
  ASSUME IInv, NEW kind \in Kinds \ {"none"}, Fail(kind), pc \notin {"call", "done"},
         ~ Direct(Attempted)
  PROVE  IInv'
<1>1. input \in WireValue /\ attempt \in {1, 2}
  BY DEF IInv, Types
<1>2. CASE attempt = 1 /\ MayBeUrlEncoded(input)
  <2>1. /\ b64_err' = Err(kind) /\ bytes' = PercentDecode(input)
        /\ attempt' = 2 /\ pc' = "sniff"
        /\ UNCHANGED <<input, entry, decoder, taken, out, result>>
    BY <1>2 DEF Fail
  <2>2. ~ Direct(input) /\ Err(kind) \in Failures
    BY <1>2 DEF Attempted, Failures
  <2>3. Types'
    BY <1>1, <2>1, PercentDecoded DEF IInv, Types
  <2>4. Attempts'
    BY <2>1, <2>2 DEF Attempts
  <2>5. Unwrapped'
    BY <2>1 DEF Unwrapped, Attempted
  <2>6. Buffered' /\ Answered'
    <3>1. result = NoResult
      BY DEF IInv, Answered
    <3> QED BY <2>1, <3>1 DEF Buffered, Answered
  <2> QED BY <2>3, <2>4, <2>5, <2>6 DEF IInv
<1>3. CASE ~ (attempt = 1 /\ MayBeUrlEncoded(input))
  <2> DEFINE r == IF attempt = 1 THEN Err(kind) ELSE b64_err
  <2>1. Return(r)
    BY <1>3 DEF Fail
  <2>2. r \in Failures
    BY <1>1 DEF IInv, Attempts, Failures
  <2>3. ~ r.ok
    BY <2>2 DEF Failures, Err
  <2>4. ~ Supported(input)
    BY <1>1, <1>3, SupportedByAttempts DEF Attempted
  <2> HIDE DEF r
  <2> QED BY <2>1, <2>2, <2>3, <2>4, ReturnPreserves
<1> QED BY <1>2, <1>3

(* A decoder gives up only on a value that it does not decode. *)
LEMMA InflateErrorPreserves ==
  ASSUME IInv, pc = "inflate", InflateError,
         Readable(bytes, decoder) => bytes.size \notin 1 .. MAX_INFLATED
  PROVE  IInv'
<1>1. CASE decoder = "raw"
  <2>1. /\ decoder' = "zlib" /\ taken' = 0 /\ out' = 0
        /\ UNCHANGED <<input, entry, pc, bytes, attempt, b64_err, result>>
    BY <1>1 DEF InflateError
  <2>2. bytes.size \in Nat /\ MAX_INFLATED \in Nat
    BY TransportAssumption DEF IInv, Types, WireValue
  <2>3. Types'
    BY <2>1, <2>2 DEF IInv, Types
  <2>4. Buffered'
    BY <1>1, <2>1, <2>2 DEF Buffered, Readable
  <2>5. Attempts' /\ Answered'
    BY <2>1 DEF IInv, Attempts, Answered
  <2>6. Unwrapped'
    BY <2>1 DEF IInv, Unwrapped, Attempted
  <2> QED BY <2>3, <2>4, <2>5, <2>6 DEF IInv
<1>2. CASE decoder # "raw"
  <2> DEFINE w == Inner(Attempted)
  <2>1. /\ bytes = w /\ ~ LooksLikeXml(w) /\ Outer(Attempted) = "b64"
        /\ w.payload = Attempted.payload /\ w.size = Attempted.size
        /\ Attempted \in WireValue
    BY AttemptedValue DEF IInv, Unwrapped
  <2>2. Outer(w) \in {"raw", "zlib"} => w.size \notin 1 .. MAX_INFLATED
    BY <1>2, <2>1 DEF IInv, Types, Buffered, Readable
  <2>3. w.layers # <<>> \/ w.payload = "junk"
    BY <2>1 DEF LooksLikeXml
  <2> HIDE DEF w
  <2>4. Attempted.layers # <<>>
    BY <2>1, NoLayers
  <2>5. ~ Direct(Attempted)
    BY <2>1, <2>2, <2>3, <2>4, DirectByLayers DEF w
  <2>6. "bad-deflate" \in Kinds \ {"none"} /\ Fail("bad-deflate")
    BY <1>2 DEF InflateError, Kinds
  <2> QED BY <2>5, <2>6, FailPreserves
<1> QED BY <1>1, <1>2

-----------------------------------------------------------------------------
LEMMA InitEstablishes == Init => IInv
<1> SUFFICES ASSUME Init PROVE IInv
  OBVIOUS
<1>1. input \in WireValue /\ MAX_INFLATED \in Nat
  BY TransportAssumption DEF Init
<1>2. Types
  BY <1>1 DEF Init, Types
<1> QED BY <1>2 DEF Init, IInv, Attempts, Unwrapped, Buffered, Answered

LEMMA CallPreserves == IInv /\ Call => IInv'
<1> SUFFICES ASSUME IInv, Call PROVE IInv'
  OBVIOUS
<1>1. /\ bytes' \in {input, PercentDecode(input)} /\ input' = bytes'
      /\ pc = "call" /\ pc' = "sniff"
      /\ UNCHANGED <<entry, attempt, decoder, taken, out, b64_err, result>>
  BY DEF Call
<1>2. Types'
  BY <1>1, PercentDecoded DEF IInv, Types
<1>3. attempt = 1 /\ Attempts'
  BY <1>1 DEF IInv, Attempts
<1>4. Unwrapped'
  BY <1>1, <1>3 DEF Unwrapped, Attempted
<1>5. Buffered' /\ Answered'
  BY <1>1 DEF IInv, Buffered, Answered
<1> QED BY <1>2, <1>3, <1>4, <1>5 DEF IInv

(* XML as it stands is accepted, unless it is not UTF-8. *)
LEMMA SniffXmlPreserves == IInv /\ SniffXml => IInv'
<1> SUFFICES ASSUME IInv, SniffXml PROVE IInv'
  OBVIOUS
<1> DEFINE r == DecodeUtf8(bytes)
<1>1. /\ pc = "sniff" /\ LooksLikeXml(bytes) /\ Return(r)
      /\ bytes = Attempted /\ bytes \in WireValue
      /\ input \in WireValue /\ attempt \in {1, 2}
  BY DEF SniffXml, IInv, Unwrapped, Types
<1>2. r \in Failures \cup {[ok |-> TRUE, kind |-> "xml"]}
  BY DEF DecodeUtf8, Failures, Err, Kinds
<1>3. r.ok <=> Direct(bytes)
  <2>1. bytes.layers = <<>> /\ bytes.payload \in {"xml", "bom-xml", "latin-xml"}
    BY <1>1 DEF LooksLikeXml, WireValue
  <2> QED BY <2>1 DEF DecodeUtf8, Direct
<1>4. Direct(bytes) <=> Supported(input)
  <2>1. CASE attempt = 1
    <3>1. bytes = input /\ Outer(input) = "none"
      BY <1>1, <2>1 DEF Attempted, LooksLikeXml, Outer
    <3> QED BY <1>1, <3>1, SupportedByAttempts DEF MayBeUrlEncoded
  <2>2. CASE attempt = 2
    BY <1>1, <2>2, SupportedByAttempts DEF Attempted
  <2> QED BY <1>1, <2>1, <2>2
<1> HIDE DEF r
<1> QED BY <1>1, <1>2, <1>3, <1>4, ReturnPreserves

LEMMA Base64Preserves == IInv /\ Base64 => IInv'
<1> SUFFICES ASSUME IInv, Base64 PROVE IInv'
  OBVIOUS
<1>1. /\ pc = "sniff" /\ pc' = "sniff-decoded" /\ bytes' = Inner(bytes)
      /\ ~ LooksLikeXml(bytes) /\ Outer(bytes) = "b64"
      /\ UNCHANGED <<input, entry, attempt, decoder, taken, out, b64_err, result>>
  BY DEF Base64
<1>2. bytes = Attempted /\ Attempted' = Attempted
  BY <1>1 DEF IInv, Unwrapped, Attempted
<1>3. Types'
  BY <1>1, Layers DEF IInv, Types
<1>4. Unwrapped'
  BY <1>1, <1>2 DEF Unwrapped
<1> QED BY <1>1, <1>3, <1>4 DEF IInv, Attempts, Buffered, Answered

LEMMA NotBase64Preserves == IInv /\ NotBase64 => IInv'
<1> SUFFICES ASSUME IInv, NotBase64 PROVE IInv'
  OBVIOUS
<1>1. /\ pc = "sniff" /\ ~ LooksLikeXml(bytes) /\ Outer(bytes) # "b64"
      /\ Fail("bad-base64") /\ bytes = Attempted /\ bytes \in WireValue
  BY DEF NotBase64, IInv, Unwrapped, Types
<1>2. ~ Direct(Attempted)
  <2>1. bytes.layers # <<>> \/ bytes.payload = "junk"
    BY <1>1 DEF LooksLikeXml
  <2> QED BY <1>1, <2>1, DirectByLayers
<1>3. "bad-base64" \in Kinds \ {"none"}
  BY DEF Kinds
<1> QED BY <1>1, <1>2, <1>3, FailPreserves

(* XML under one layer of base64. *)
LEMMA SniffDecodedPreserves == IInv /\ SniffDecoded => IInv'
<1> SUFFICES ASSUME IInv, SniffDecoded PROVE IInv'
  OBVIOUS
<1> DEFINE r == DecodeUtf8(bytes)
<1>1. /\ pc = "sniff-decoded" /\ LooksLikeXml(bytes)
      /\ bytes = Inner(Attempted) /\ bytes \in WireValue
      /\ Outer(Attempted) = "b64"
      /\ Attempted \in WireValue /\ bytes.payload = Attempted.payload
      /\ input \in WireValue /\ attempt \in {1, 2}
  BY AttemptedValue DEF SniffDecoded, IInv, Unwrapped, Types
<1>2. bytes.layers = <<>> /\ bytes.payload \in {"xml", "bom-xml", "latin-xml"}
  BY <1>1 DEF LooksLikeXml, WireValue
<1>3. r.ok <=> Direct(Attempted)
  <2>1. Attempted.layers # <<>>
    BY <1>1, NoLayers
  <2>2. Direct(Attempted) <=> Attempted.payload \in {"xml", "bom-xml"}
    BY <1>1, <1>2, <2>1, DirectByLayers
  <2> QED BY <1>1, <1>2, <2>2 DEF DecodeUtf8
<1>4. CASE r.ok
  <2>1. Return(r) /\ r = [ok |-> TRUE, kind |-> "xml"]
    BY <1>4 DEF SniffDecoded, DecodeUtf8
  <2>2. Supported(input)
    BY <1>1, <1>3, <1>4, SupportedByAttempts DEF Attempted
  <2> HIDE DEF r
  <2> QED BY <1>1, <1>4, <2>1, <2>2, ReturnPreserves
<1>5. CASE ~ r.ok
  <2>1. Fail(r.kind) /\ r.kind \in Kinds \ {"none"}
    BY <1>5 DEF SniffDecoded, DecodeUtf8, Kinds
  <2> HIDE DEF r
  <2> QED BY <1>1, <1>3, <1>5, <2>1, FailPreserves
<1> QED BY <1>4, <1>5

LEMMA StartInflatePreserves == IInv /\ StartInflate => IInv'
<1> SUFFICES ASSUME IInv, StartInflate PROVE IInv'
  OBVIOUS
<1>1. /\ pc = "sniff-decoded" /\ pc' = "inflate" /\ ~ LooksLikeXml(bytes)
      /\ decoder' = "raw" /\ taken' = 0 /\ out' = 0
      /\ UNCHANGED <<input, entry, bytes, attempt, b64_err, result>>
  BY DEF StartInflate
<1>2. bytes.size \in Nat /\ MAX_INFLATED \in Nat
  BY TransportAssumption DEF IInv, Types, WireValue
<1>3. Types'
  BY <1>1, <1>2 DEF IInv, Types
<1>4. Buffered'
  BY <1>1, <1>2 DEF Buffered
<1>5. Unwrapped'
  BY <1>1 DEF IInv, Unwrapped, Attempted
<1> QED BY <1>1, <1>3, <1>4, <1>5 DEF IInv, Attempts, Answered

-----------------------------------------------------------------------------
(* The read loop. *)
LEMMA ReadBlockPreserves == IInv /\ ReadBlock => IInv'
<1> SUFFICES ASSUME IInv, ReadBlock PROVE IInv'
  OBVIOUS
<1>1. /\ pc = "inflate"
      /\ Readable(bytes, decoder) => taken < bytes.size
      /\ out + 1 <= MAX_INFLATED /\ taken' = taken + 1 /\ out' = out + 1
      /\ UNCHANGED <<input, entry, pc, bytes, attempt, decoder, b64_err, result>>
  BY DEF ReadBlock, CanRead
<1>2. bytes.size \in Nat /\ MAX_INFLATED \in Nat /\ taken \in Nat /\ out \in Nat
  BY TransportAssumption DEF IInv, Types, WireValue
<1>3. Types'
  BY <1>1, <1>2 DEF IInv, Types
<1>4. Buffered'
  BY <1>1, <1>2 DEF IInv, Buffered, Readable
<1>5. Unwrapped'
  BY <1>1 DEF IInv, Unwrapped, Attempted
<1> QED BY <1>1, <1>3, <1>4, <1>5 DEF IInv, Attempts, Answered

LEMMA ReadPastCapPreserves == IInv /\ ReadPastCap => IInv'
<1> SUFFICES ASSUME IInv, ReadPastCap PROVE IInv'
  OBVIOUS
<1>1. /\ pc = "inflate"
      /\ Readable(bytes, decoder) => taken < bytes.size
      /\ out + 1 > MAX_INFLATED /\ InflateError
  BY DEF ReadPastCap, CanRead
<1>2. bytes.size \in Nat /\ MAX_INFLATED \in Nat /\ out \in Nat /\ out = taken
  BY <1>1, TransportAssumption DEF IInv, Types, WireValue, Buffered
<1>3. Readable(bytes, decoder) => bytes.size \notin 1 .. MAX_INFLATED
  BY <1>1, <1>2
<1> QED BY <1>1, <1>3, InflateErrorPreserves

LEMMA ReadErrorPreserves == IInv /\ ReadError => IInv'
BY InflateErrorPreserves DEF ReadError

LEMMA EndOfStreamPreserves == IInv /\ EndOfStream => IInv'
<1> SUFFICES ASSUME IInv, EndOfStream PROVE IInv'
  OBVIOUS
<1>1. /\ pc = "inflate" /\ Readable(bytes, decoder) /\ taken = bytes.size
      /\ out = taken /\ bytes \in WireValue /\ decoder \in {"raw", "zlib"}
      /\ bytes = Inner(Attempted)
  BY DEF EndOfStream, IInv, Types, Unwrapped, Buffered
<1>2. CASE out = 0
  <2>1. bytes.size \notin 1 .. MAX_INFLATED
    BY <1>1, <1>2
  <2> QED BY <1>1, <1>2, <2>1, InflateErrorPreserves DEF EndOfStream
<1>3. CASE out # 0
  <2>1. /\ bytes' = Inner(bytes) /\ pc' = "inflated"
        /\ UNCHANGED <<input, entry, attempt, decoder, taken, out, b64_err, result>>
    BY <1>3 DEF EndOfStream
  <2>2. Inner(bytes) \in WireValue /\ Inner(bytes).size = bytes.size
    BY <1>1, Layers DEF Readable
  <2>3. Types'
    BY <2>1, <2>2 DEF IInv, Types
  <2>4. Unwrapped'
    BY <1>1, <2>1 DEF IInv, Unwrapped, Attempted
  <2>5. Buffered'
    BY <1>1, <1>3, <2>1, <2>2 DEF Buffered
  <2> QED BY <1>1, <2>1, <2>3, <2>4, <2>5 DEF IInv, Attempts, Answered
<1> QED BY <1>2, <1>3

(* What is left after base64 and DEFLATE. *)
LEMMA InflatedPreserves == IInv /\ Inflated => IInv'
<1> SUFFICES ASSUME IInv, Inflated PROVE IInv'
  OBVIOUS
<1> DEFINE w == Inner(Attempted)
           r == DecodeUtf8(bytes)
<1>1. /\ pc = "inflated" /\ bytes = Inner(w) /\ bytes \in WireValue
      /\ decoder \in {"raw", "zlib"} /\ Outer(w) = decoder
      /\ ~ LooksLikeXml(w) /\ Outer(Attempted) = "b64"
      /\ out = bytes.size /\ out # 0 /\ out \in 0 .. MAX_INFLATED
      /\ input \in WireValue /\ attempt \in {1, 2}
  BY DEF Inflated, IInv, Types, Unwrapped, Buffered, Readable
<1>2. /\ Attempted \in WireValue /\ w \in WireValue
      /\ w.payload = Attempted.payload /\ w.size = Attempted.size
  BY <1>1, AttemptedValue
<1> HIDE DEF w
<1>3. /\ bytes.payload = w.payload /\ bytes.size = w.size /\ w.layers # <<>>
  BY <1>1, <1>2, Layers
<1>4. Direct(Attempted) <=> LooksLikeXml(bytes) /\ r.ok
  <2>1. Attempted.layers # <<>> /\ Attempted.size \in 1 .. MAX_INFLATED
    BY <1>1, <1>2, <1>3, NoLayers
  <2>2. Direct(Attempted) <=>
          Attempted.payload \in {"xml", "bom-xml"} /\ bytes.layers = <<>>
    BY <1>1, <1>2, <1>3, <2>1, DirectByLayers DEF w
  <2>3. r.ok <=> bytes.payload # "latin-xml"
    BY DEF DecodeUtf8
  <2>4. bytes.payload \in {"xml", "bom-xml", "latin-xml", "junk"}
    BY <1>1 DEF WireValue
  <2> QED BY <1>2, <1>3, <2>2, <2>3, <2>4 DEF LooksLikeXml
<1>5. CASE LooksLikeXml(bytes) /\ r.ok
  <2>1. Return(r) /\ r = [ok |-> TRUE, kind |-> "xml"]
    BY <1>5 DEF Inflated, DecodeUtf8
  <2>2. Supported(input)
    BY <1>1, <1>4, <1>5, SupportedByAttempts DEF Attempted
  <2> HIDE DEF r
  <2> QED BY <1>1, <1>5, <2>1, <2>2, ReturnPreserves
<1>6. CASE ~ (LooksLikeXml(bytes) /\ r.ok)
  <2>1. \E kind \in Kinds \ {"none"} : Fail(kind)
    BY <1>6 DEF Inflated, DecodeUtf8, Kinds
  <2> QED BY <1>1, <1>4, <1>6, <2>1, FailPreserves
<1> QED BY <1>5, <1>6

-----------------------------------------------------------------------------
(* The stages keep the inductive invariant. *)
THEOREM StageInvariant == Spec => []IInv
<1>1. IInv /\ UNCHANGED vars => IInv'
  BY DEF vars, IInv, Types, Attempts, Unwrapped, Buffered, Answered, Attempted
<1>2. IInv /\ [Next]_vars => IInv'
  BY <1>1, CallPreserves, SniffXmlPreserves, Base64Preserves, NotBase64Preserves,
     SniffDecodedPreserves, StartInflatePreserves, ReadBlockPreserves,
     ReadPastCapPreserves, ReadErrorPreserves, EndOfStreamPreserves,
     InflatedPreserves
     DEF Next
<1> QED BY <1>2, InitEstablishes, PTL DEF Spec

(* transport.rs never inflates past the cap, and ends with an answer or an  *)
(* error of its own.                                                        *)
THEOREM TypeCorrect == Spec => []TypeOK
<1>1. IInv => TypeOK
  <2> SUFFICES ASSUME IInv PROVE TypeOK
    OBVIOUS
  <2>1. result \in {NoResult, [ok |-> TRUE, kind |-> "xml"]} \cup Failures
    BY DEF IInv, Answered
  <2>2. result.ok \in BOOLEAN /\ (~ result.ok => result.kind \in Kinds)
    <3>1. CASE result = NoResult \/ result \in Failures
      <4>1. PICK kind \in Kinds : result = Err(kind)
        BY <3>1 DEF Failures, NoResult, Kinds
      <4> QED BY <4>1 DEF Err
    <3>2. CASE result = [ok |-> TRUE, kind |-> "xml"]
      BY <3>2
    <3> QED BY <2>1, <3>1, <3>2
  <2>3. pc = "done" => result # NoResult
    BY DEF IInv, Answered, Failures, NoResult, Err
  <2> QED BY <2>2, <2>3 DEF IInv, Types, TypeOK
<1> QED BY <1>1, StageInvariant, PTL

(* What is sniffed after inflation is one decoder's whole output. *)
THEOREM InflatesWhole == Spec => []InflatedOutputIsWhole
<1>1. IInv => InflatedOutputIsWhole
  BY DEF IInv, Buffered, InflatedOutputIsWhole
<1> QED BY <1>1, StageInvariant, PTL

(* Every supported shape is accepted and nothing else is, through any order *)
(* of sniffs, attempts and fallbacks.                                       *)
THEOREM AcceptsExactly == Spec => []AcceptsExactlyTheSupportedShapes
<1>1. IInv => AcceptsExactlyTheSupportedShapes
  BY DEF IInv, Answered, AcceptsExactlyTheSupportedShapes
<1> QED BY <1>1, StageInvariant, PTL
=============================================================================
