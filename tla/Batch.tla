------------------------------- MODULE Batch --------------------------------
(***************************************************************************)
(* saml-worker: process() of the thirteen scalars.  A call walks the input *)
(* column row by row and appends to column builders; the columns are       *)
(* published when all rows are done, or not at all.  A builder keeps       *)
(* neither rows nor their boundaries but values, ends and null bits, which *)
(* the reader puts together again.                                         *)
(***************************************************************************)
EXTENDS Api

CONSTANTS
  Batches,       \* input columns: [type, cells], a cell is Null or a message
  Calls,         \* the functions called on the column, one after the other
  MaxOffset      \* the largest offset an Arrow column can hold (i32)

Codecs == {"b64decode", "inflate", "unwrap"}
Fanout == {"attributes", "signatures", "assertions"}
Functions ==
  Codecs \cup Fanout
    \cup {"anomalies", "decode", "signature", "well_formed", "message_type",
          "conditions", "authn"}

(* What a function shows in its first field when it has nothing to tell. *)
Defaults == {Null, "unsigned", "unknown"}

ASSUME BatchAssumption ==
  /\ MaxOffset \in Nat
  /\ Calls \in Seq(Functions)
  /\ \A b \in Batches :
       /\ Len(b.cells) \in Nat /\ DOMAIN b.cells = 1 .. Len(b.cells)
       /\ \A i \in DOMAIN b.cells : \A m \in b.cells[i] :
            /\ b.cells[i] = {m}
            /\ m.items \in Nat /\ m.size \in Nat
            /\ m.normalized \in {"ok"} \cup TransportErrors

VARIABLES
  batch,         \* the input column
  results,       \* the outcomes of the calls that have returned
  running,       \* whether a call is in its row loop
  row,           \* the row that comes next
  heads,         \* builder of the fields: one per row
  values, ends,  \* ListBuilder: child values, where each row's part ends
  valid,         \* null bits: one per row
  written        \* bytes in the longest string builder

builders == <<heads, values, ends, valid, written>>
vars == <<batch, results, running, row, builders>>

call == Calls[Len(results) + 1]

-----------------------------------------------------------------------------
(* What a function appends for a message: nothing but a null bit, or its    *)
(* fields and list entries.                                                 *)
NullRow == [valid |-> FALSE, head |-> Null, list |-> <<>>]

RowOf(head, list) == [valid |-> TRUE, head |-> head, list |-> list]

AttributesRow(m) == RowOf(Null, RowsOf(m))

SignaturesRow(m) == RowOf(Null, RowsOf(m))

AssertionsRow(m) == RowOf(Null, RowsOf(m))

AnomaliesRow(m) == RowOf(Null, RowsOf(m))

DecodeRow(m) == RowOf(decode(m).message_type, decode(m).audiences)

SignatureRow(m) == RowOf(signature(m).signed, signature(m).references)

WellFormedRow(m) == RowOf(well_formed(m), <<>>)

MessageTypeRow(m) == RowOf(message_type(m), <<>>)

ConditionsRow(m) ==
  IF Answered(m) THEN RowOf(conditions(m).not_before, conditions(m).audiences)
  ELSE NullRow

AuthnRow(m) ==
  IF Answered(m) THEN RowOf(authn(m).authn_instant, <<>>) ELSE NullRow

(* The transport functions: an error is a NULL. *)
B64DecodeRow(m) == IF "b64decode" \in m.codecs THEN RowOf(m.name, <<>>) ELSE NullRow

UnwrapRow(m) == IF "unwrap" \in m.codecs THEN RowOf(m.name, <<>>) ELSE NullRow

(* So are inflated bytes that are not text. *)
InflateRow(m) ==
  IF "inflate" \in m.codecs /\ m.utf8 THEN RowOf(m.name, <<>>) ELSE NullRow

RowFor(f, m) ==
  CASE f = "attributes" -> AttributesRow(m)
    [] f = "signatures" -> SignaturesRow(m)
    [] f = "assertions" -> AssertionsRow(m)
    [] f = "anomalies" -> AnomaliesRow(m)
    [] f = "decode" -> DecodeRow(m)
    [] f = "signature" -> SignatureRow(m)
    [] f = "well_formed" -> WellFormedRow(m)
    [] f = "message_type" -> MessageTypeRow(m)
    [] f = "conditions" -> ConditionsRow(m)
    [] f = "authn" -> AuthnRow(m)
    [] f = "inflate" -> InflateRow(m)
    [] f = "b64decode" -> B64DecodeRow(m)
    [] f = "unwrap" -> UnwrapRow(m)

(* What an answer adds to the longest string builder of its columns. *)
Weight(f, m) ==
  IF /\ RowFor(f, m).valid
     /\ f \in Codecs \/ Parsed(m)
     /\ f \notin {"well_formed", "message_type"}
     /\ f = "conditions" => "Conditions" \in m.parts
     /\ f = "authn" => "AuthnStatement" \in m.parts
  THEN m.size ELSE 0

(* input_bytes: the column types whose cells can be read. *)
Readable == {"Binary", "LargeBinary", "Utf8", "LargeUtf8"}

-----------------------------------------------------------------------------
Init ==
  /\ batch \in Batches
  /\ results = <<>>
  /\ running = FALSE
  /\ row = 1
  /\ heads = <<>> /\ values = <<>> /\ ends = <<>> /\ valid = <<>>
  /\ written = 0

(* process() is called: fresh builders. *)
Start ==
  /\ ~ running
  /\ Len(results) < Len(Calls)
  /\ running' = TRUE
  /\ row' = 1
  /\ heads' = <<>> /\ values' = <<>> /\ ends' = <<>> /\ valid' = <<>>
  /\ written' = 0
  /\ UNCHANGED <<batch, results>>

InLoop == running /\ row <= Len(batch.cells)

(* One row into every builder; a list ends where the child builder is. *)
Push(r) ==
  /\ heads' = Append(heads, r.head)
  /\ values' = values \o r.list
  /\ ends' = Append(ends, Len(values) + Len(r.list))
  /\ valid' = Append(valid, r.valid)
  /\ row' = row + 1

(* Defect: a NULL row is not fed to the list builder. *)
AppendNull_ForgetsList ==
  /\ InLoop
  /\ batch.cells[row] = {}
  /\ heads' = Append(heads, Null)
  /\ valid' = Append(valid, FALSE)
  /\ row' = row + 1
  /\ UNCHANGED <<batch, results, running, values, ends, written>>

(* A NULL cell, whatever the column type. *)
AppendNull ==
  /\ InLoop
  /\ batch.cells[row] = {}
  /\ Push(NullRow)
  /\ UNCHANGED <<batch, results, running, written>>

(* Defect: rows without entries are skipped. *)
AppendAnswer_SkipsEmpty ==
  /\ InLoop
  /\ batch.type \in Readable
  /\ \E m \in batch.cells[row] :
       /\ written + Weight(call, m) <= MaxOffset
       /\ IF call \in Fanout /\ RowFor(call, m).list = <<>>
          THEN row' = row + 1 /\ UNCHANGED <<heads, values, ends, valid>>
          ELSE Push(RowFor(call, m))
       /\ written' = written + Weight(call, m)
  /\ UNCHANGED <<batch, results, running>>

(* A cell that can be read, and an answer that fits. *)
AppendAnswer ==
  /\ InLoop
  /\ batch.type \in Readable
  /\ \E m \in batch.cells[row] :
       /\ written + Weight(call, m) <= MaxOffset
       /\ Push(RowFor(call, m))
       /\ written' = written + Weight(call, m)
  /\ UNCHANGED <<batch, results, running>>

Return(status, rows) ==
  /\ results' = Append(results, [status |-> status, rows |-> rows])
  /\ running' = FALSE
  /\ UNCHANGED <<batch, row, builders>>

(* input_bytes fails: the `?` leaves the loop, the builders are dropped. *)
WrongType ==
  /\ InLoop
  /\ batch.type \notin Readable
  /\ batch.cells[row] # {}
  /\ Return("error", <<>>)

(* A builder cannot hold the next answer: append_value panics. *)
Overflow ==
  /\ InLoop
  /\ batch.type \in Readable
  /\ \E m \in batch.cells[row] : written + Weight(call, m) > MaxOffset
  /\ Return("panic", <<>>)

(* What the reader sees of row n: NULL, or its fields and its list. *)
RowAt(n) ==
  LET first == IF n = 1 THEN 1 ELSE ends[n - 1] + 1
  IN  IF valid[n]
      THEN {[head |-> heads[n], list |-> SubSeq(values, first, ends[n])]}
      ELSE {}

(* After the last row the columns are finished and published. *)
Publish ==
  /\ running
  /\ row > Len(batch.cells)
  /\ Return("ok", [n \in DOMAIN valid |-> RowAt(n)])

Next ==
  Start \/ AppendNull \/ AppendAnswer \/ WrongType \/ Overflow \/ Publish

Spec == Init /\ [][Next]_vars /\ WF_vars(Next)

-----------------------------------------------------------------------------
(* Type invariant: in the row loop, every builder has taken one entry per   *)
(* row done, list boundaries lie in the child values and never go back, and *)
(* no builder is past its largest offset.                                   *)
TypeOK ==
  /\ row \in 1 .. Len(batch.cells) + 1
  /\ running => /\ Len(heads) = row - 1
                /\ Len(ends) = row - 1
                /\ Len(valid) = row - 1
  /\ \A n \in DOMAIN ends :
       /\ ends[n] <= Len(values)
       /\ n > 1 => ends[n - 1] <= ends[n]
  /\ written <= MaxOffset
  /\ Len(results) <= Len(Calls)

(* The answer to a message and to a cell: what a reader is to see. *)
Answer(r) == IF r.valid THEN {[head |-> r.head, list |-> r.list]} ELSE {}
Answers(f, cell) == UNION {Answer(RowFor(f, m)) : m \in cell}

(* The text that the answers to the first n cells add up to. *)
CellWeight(f, cell) == IF cell = {} THEN 0 ELSE Weight(f, CHOOSE m \in cell : TRUE)

Lengths(f, b) ==
  LET upto[n \in 0 .. Len(b.cells)] ==
        IF n = 0 THEN 0 ELSE upto[n - 1] + CellWeight(f, b.cells[n])
  IN  upto

(* What the nth call owes: an error when a cell that is not NULL has a type *)
(* nobody can read, nothing when the answers are too long for a column, and *)
(* else for every row the answer to its own cell, NULL for NULL.            *)
Due(b, n) ==
  LET f == Calls[n]
  IN  IF b.type \notin Readable /\ \E i \in DOMAIN b.cells : b.cells[i] # {}
      THEN [status |-> "error", rows |-> <<>>]
      ELSE IF Lengths(f, b)[Len(b.cells)] > MaxOffset
      THEN [status |-> "panic", rows |-> <<>>]
      ELSE [status |-> "ok",
            rows |-> [i \in DOMAIN b.cells |-> Answers(f, b.cells[i])]]

(* Every call returns, in order, and its columns read back as the answers   *)
(* to the cells of its own rows: nothing shifts across a NULL, an empty     *)
(* list or a message that cannot be read, and a call that fails publishes   *)
(* no row (process() of every scalar; decode.rs 158-256).                   *)
TotalCalls(b) == Len(Calls)

Abstract == INSTANCE Report WITH doc <- batch, rows <- results,
                                 Entry <- Due, Total <- TotalCalls

ImplementsReport == Abstract!Spec

(* The verdict of well_formed tells how to read what the other functions    *)
(* show of the same message, across calls that each load it anew:           *)
(*   - "ok" goes with a recognized type, in decode and in message_type, and *)
(*     no other kind does;                                                  *)
(*   - conditions and authn are a NULL struct when the message could not be *)
(*     loaded, and only then: a message without the element gives a struct  *)
(*     of defaults (authn.rs 11-16, conditions.rs 12-17), though the text   *)
(*     of authn promises NULL for it as well (scalar/authn.rs:53);          *)
(*   - a kind other than "ok" and "not-saml" goes with defaults and empty   *)
(*     lists everywhere.                                                    *)
(* And decode and message_type name the same type (api.rs).                 *)
Explains(kind, f, r) ==
  /\ f \in {"decode", "message_type"}
       => (kind = "ok" <=> \E x \in r : x.head \notin Defaults)
  /\ f \in {"conditions", "authn"} => (r = {} <=> kind \notin {"ok", "not-saml"})
  /\ (kind \notin {"ok", "not-saml"} /\ f \notin Codecs \cup {"well_formed"})
       => \A x \in r : x.head \in Defaults /\ x.list = <<>>

ViewsAgree ==
  \A p, q \in DOMAIN results :
    results[p].status = "ok" /\ results[q].status = "ok" =>
      \A n \in DOMAIN batch.cells :
        \A x \in results[p].rows[n] :
          /\ Calls[p] = "well_formed"
               => Explains(x.head, Calls[q], results[q].rows[n])
          /\ Calls[p] = "message_type" /\ Calls[q] = "decode"
               => \A y \in results[q].rows[n] : y.head \in {Null, x.head}
=============================================================================
