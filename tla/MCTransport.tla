----------------------------- MODULE MCTransport ----------------------------
(* Every nesting of encodings the callers use, around every payload, with   *)
(* sizes on both sides of the cap.                                          *)
EXTENDS Transport

Encodings ==
  {<<>>, <<"b64">>, <<"raw">>, <<"b64", "b64">>}
    \cup {<<"b64", d>> : d \in {"raw", "zlib", "cut"}}

Layers ==
  Encodings \cup {<<"pct">> \o e : e \in Encodings}
            \cup {<<"pct", "pct">> \o e : e \in Encodings}

(* An empty payload only inside a DEFLATE stream. *)
WireValues ==
  {v \in [layers : Layers, payload : {"xml", "bom-xml", "latin-xml", "junk"},
          size : 0 .. MAX_INFLATED + 1, plus : BOOLEAN] :
     v.size = 0 => \E n \in DOMAIN v.layers : v.layers[n] \in {"raw", "zlib"}}
=============================================================================
