----------------------------- MODULE BatchProofs -----------------------------
(***************************************************************************)
(* The worker's scalars, for every column and every list of calls: what a  *)
(* call publishes are the answers to the cells of its own rows, and the    *)
(* verdict of well_formed tells defaults from findings.                    *)
(*                                                                         *)
(* The inductive invariant reads the builders while they are filled: each  *)
(* of the rows done shows its own answer already, and no later row changes *)
(* that.  DueInv adds what has been written so far, for the refinement of  *)
(* Report.                                                                 *)
(***************************************************************************)
EXTENDS Batch, SequenceTheorems, WellFoundedInduction, TLAPS

IsSeq(s) == \E S : s \in Seq(S)

(* The builders hold one entry per row done, and each row its answer. *)
Filled ==
  /\ IsSeq(heads) /\ IsSeq(values) /\ IsSeq(ends) /\ IsSeq(valid)
  /\ \A n \in 1 .. Len(ends) : ends[n] \in 0 .. Len(values)
  /\ \A n \in 1 .. Len(ends) : n > 1 => ends[n - 1] <= ends[n]
  /\ running =>
       /\ Len(results) < Len(Calls)
       /\ Len(heads) = row - 1 /\ Len(ends) = row - 1 /\ Len(valid) = row - 1
       /\ row > 1 => ends[row - 1] = Len(values)
       /\ row = 1 => values = <<>>
       /\ \A n \in 1 .. row - 1 : RowAt(n) = Answers(call, batch.cells[n])
       /\ batch.type \notin Readable => \A n \in 1 .. row - 1 : batch.cells[n] = {}

(* What a call that has returned owed its caller. *)
Owed(f, result) ==
  \/ /\ result.status = "ok"
     /\ result.rows = [n \in DOMAIN batch.cells |-> Answers(f, batch.cells[n])]
     /\ batch.type \in Readable \/ \A n \in DOMAIN batch.cells : batch.cells[n] = {}
  \/ /\ result.status = "error" /\ result.rows = <<>>
     /\ batch.type \notin Readable /\ \E n \in DOMAIN batch.cells : batch.cells[n] # {}
  \/ /\ result.status = "panic" /\ result.rows = <<>>
     /\ batch.type \in Readable

Returned ==
  /\ IsSeq(results)
  /\ Len(results) <= Len(Calls)
  /\ \A p \in 1 .. Len(results) : Owed(Calls[p], results[p])

IInv ==
  /\ batch \in Batches
  /\ running \in BOOLEAN
  /\ row \in 1 .. Len(batch.cells) + 1
  /\ written \in 0 .. MaxOffset
  /\ Filled
  /\ Returned

-----------------------------------------------------------------------------
(* Sequences whatever they are of. *)
LEMMA SeqFacts ==
  ASSUME NEW s, IsSeq(s)
  PROVE  Len(s) \in Nat /\ DOMAIN s = 1 .. Len(s) /\ (Len(s) = 0 <=> s = <<>>)
<1>1. PICK S : s \in Seq(S)
  BY DEF IsSeq
<1>2. Len(s) \in Nat /\ DOMAIN s = 1 .. Len(s)
  BY <1>1, LenProperties
<1>3. Len(s) = 0 <=> s = <<>>
  BY <1>1, EmptySeq
<1> QED BY <1>2, <1>3

LEMMA Appended ==
  ASSUME NEW s, IsSeq(s), NEW x
  PROVE  /\ IsSeq(Append(s, x)) /\ Len(Append(s, x)) = Len(s) + 1
         /\ \A i \in 1 .. Len(s) : Append(s, x)[i] = s[i]
         /\ Append(s, x)[Len(s) + 1] = x
<1>1. PICK S : s \in Seq(S)
  BY DEF IsSeq
<1> DEFINE T == S \cup {x}
<1>2. s \in Seq(T) /\ x \in T
  <2>1. S \subseteq T /\ x \in T
    OBVIOUS
  <2> HIDE DEF T
  <2> QED BY <1>1, <2>1, SeqMonotonic
<1> HIDE DEF T
<1>3. /\ Append(s, x) \in Seq(T) /\ Len(Append(s, x)) = Len(s) + 1
      /\ \A i \in 1 .. Len(s) : Append(s, x)[i] = s[i]
      /\ Append(s, x)[Len(s) + 1] = x
  BY <1>2, AppendProperties
<1> QED BY <1>3 DEF IsSeq

(* A part of a sequence is the same part of a longer one, and what is added *)
(* is the part behind it.                                                   *)
LEMMA Extended ==
  ASSUME NEW s, IsSeq(s), NEW t, IsSeq(t)
  PROVE  /\ IsSeq(s \o t) /\ Len(s \o t) = Len(s) + Len(t)
         /\ \A m \in 1 .. Len(s) + 1, n \in 0 .. Len(s) :
              SubSeq(s \o t, m, n) = SubSeq(s, m, n)
         /\ SubSeq(s \o t, Len(s) + 1, Len(s) + Len(t)) = t
<1>1. PICK S1 : s \in Seq(S1)
  BY DEF IsSeq
<1>2. PICK S2 : t \in Seq(S2)
  BY DEF IsSeq
<1> DEFINE S == S1 \cup S2
<1>3. s \in Seq(S) /\ t \in Seq(S)
  <2>1. S1 \subseteq S /\ S2 \subseteq S
    OBVIOUS
  <2> HIDE DEF S
  <2> QED BY <1>1, <1>2, <2>1, SeqMonotonic
<1> HIDE DEF S
<1>4. Len(s) \in Nat /\ Len(t) \in Nat
  BY <1>3, LenProperties
<1>5. s \o t \in Seq(S) /\ Len(s \o t) = Len(s) + Len(t)
  BY <1>3, ConcatProperties
<1>6. ASSUME NEW m \in 1 .. Len(s) + 1, NEW n \in 0 .. Len(s)
      PROVE  SubSeq(s \o t, m, n) = SubSeq(s, m, n)
  <2>1. CASE n < m
    <3>1. m \in Int /\ n \in Int
      BY <1>4
    <3> QED BY <2>1, <3>1, SubSeqEmpty
  <2>2. CASE m <= n
    <3>1. m \in 1 .. Len(s) /\ n \in 1 .. Len(s)
      BY <1>4, <2>2
    <3> QED BY <1>3, <3>1, SubSeqOfConcat1
  <2>3. n < m \/ m <= n
    BY <1>4
  <2> QED BY <2>1, <2>2, <2>3
<1>7. SubSeq(s \o t, Len(s) + 1, Len(s) + Len(t)) = t
  <2> DEFINE m == Len(s) + 1
             n == Len(s) + Len(t)
  <2>1. CASE Len(t) = 0
    <3>1. m \in Int /\ n \in Int /\ n < m
      BY <1>4, <2>1
    <3>2. t = <<>>
      BY <1>3, <2>1, EmptySeq
    <3> QED BY <3>1, <3>2, SubSeqEmpty
  <2>2. CASE Len(t) # 0
    <3>1. m \in Len(s) + 1 .. Len(s) + Len(t) /\ n \in Len(s) + 1 .. Len(s) + Len(t)
      BY <1>4, <2>2
    <3>2. m - Len(s) = 1 /\ n - Len(s) = Len(t)
      BY <1>4
    <3> HIDE DEF m, n
    <3>3. SubSeq(s \o t, m, n) = SubSeq(t, m - Len(s), n - Len(s))
      BY <1>3, <3>1, SubSeqOfConcat2
    <3>4. SubSeq(t, 1, Len(t)) = t
      BY <1>3, SubSeqFull
    <3> QED BY <3>2, <3>3, <3>4 DEF m, n
  <2> QED BY <2>1, <2>2
<1> QED BY <1>5, <1>6, <1>7 DEF IsSeq

-----------------------------------------------------------------------------
(* A row is a null bit, or fields and list entries. *)
LEMMA EntriesAreSeq ==
  ASSUME NEW m, m.items \in Nat
  PROVE  IsSeq(Entries(m)) /\ Len(Entries(m)) = m.items /\ IsSeq(<<>>)
<1> DEFINE S == {<<m.name, n>> : n \in 1 .. m.items}
           e == Entries(m)
<1>1. e = [n \in 1 .. m.items |-> <<m.name, n>>]
  BY DEF Entries
<1>2. e \in [1 .. m.items -> S]
  BY <1>1
<1> HIDE DEF S, e
<1>3. e \in Seq(S) /\ Len(e) = m.items
  BY <1>2, SeqDef
<1>4. <<>> \in Seq({})
  BY EmptySeq
<1> QED BY <1>3, <1>4 DEF IsSeq, e

LEMMA RowsAreRows ==
  ASSUME NEW f \in Functions, NEW m, m.items \in Nat
  PROVE  \/ RowFor(f, m) = NullRow
         \/ \E head, list : RowFor(f, m) = RowOf(head, list) /\ IsSeq(list)
<1>1. IsSeq(Entries(m)) /\ IsSeq(<<>>)
  BY EntriesAreSeq
<1>2. /\ IsSeq(RowsOf(m)) /\ IsSeq(decode(m).audiences)
      /\ IsSeq(signature(m).references) /\ IsSeq(conditions(m).audiences)
  BY <1>1 DEF RowsOf, decode, signature, conditions, AudiencesOf
<1> DEFINE Fine(r) == r = NullRow \/ \E head, list : r = RowOf(head, list) /\ IsSeq(list)
<1>3. \A head, list : IsSeq(list) => Fine(RowOf(head, list))
  OBVIOUS
<1>4. Fine(NullRow)
  OBVIOUS
<1> HIDE DEF Fine
<1>5. /\ Fine(AttributesRow(m)) /\ Fine(SignaturesRow(m)) /\ Fine(AssertionsRow(m))
      /\ Fine(AnomaliesRow(m)) /\ Fine(DecodeRow(m)) /\ Fine(SignatureRow(m))
      /\ Fine(WellFormedRow(m)) /\ Fine(MessageTypeRow(m))
  BY <1>1, <1>2, <1>3, Zenon
     DEF AttributesRow, SignaturesRow, AssertionsRow, AnomaliesRow, DecodeRow,
         SignatureRow, WellFormedRow, MessageTypeRow
<1>6. /\ Fine(ConditionsRow(m)) /\ Fine(AuthnRow(m)) /\ Fine(B64DecodeRow(m))
      /\ Fine(UnwrapRow(m)) /\ Fine(InflateRow(m))
  BY <1>1, <1>2, <1>3, <1>4, Zenon
     DEF ConditionsRow, AuthnRow, B64DecodeRow, UnwrapRow, InflateRow
<1>7. RowFor(f, m) \in
        {AttributesRow(m), SignaturesRow(m), AssertionsRow(m), AnomaliesRow(m),
         DecodeRow(m), SignatureRow(m), WellFormedRow(m), MessageTypeRow(m),
         ConditionsRow(m), AuthnRow(m), B64DecodeRow(m), UnwrapRow(m), InflateRow(m)}
  BY DEF RowFor, Functions, Codecs, Fanout
<1>8. Fine(RowFor(f, m))
  BY <1>5, <1>6, <1>7
<1> QED BY <1>8 DEF Fine

LEMMA BatchFacts ==
  ASSUME IInv
  PROVE  /\ Len(batch.cells) \in Nat /\ DOMAIN batch.cells = 1 .. Len(batch.cells)
         /\ \A i \in DOMAIN batch.cells : \A m \in batch.cells[i] :
              /\ batch.cells[i] = {m}
              /\ m.items \in Nat /\ m.size \in Nat
              /\ m.normalized \in {"ok"} \cup TransportErrors
         /\ MaxOffset \in Nat /\ Len(Calls) \in Nat /\ row \in Nat
         /\ \A n \in 1 .. Len(Calls) : Calls[n] \in Functions
         /\ Len(results) \in Nat /\ DOMAIN results = 1 .. Len(results)
<1>1. Len(Calls) \in Nat /\ \A n \in 1 .. Len(Calls) : Calls[n] \in Functions
  BY BatchAssumption, LenProperties
<1>2. Len(results) \in Nat /\ DOMAIN results = 1 .. Len(results)
  BY SeqFacts DEF IInv, Returned
<1> QED BY <1>1, <1>2, BatchAssumption DEF IInv

-----------------------------------------------------------------------------
(* A row that is pushed shows its answer and leaves the others theirs. *)
LEMMA Pushed ==
  ASSUME IInv, running, row <= Len(batch.cells), NEW r, IsSeq(r.list), Push(r),
         Answer(r) = Answers(call, batch.cells[row]),
         batch.type \in Readable \/ batch.cells[row] = {},
         UNCHANGED <<batch, results, running>>
  PROVE  Filled' /\ row' \in 1 .. Len(batch.cells) + 1
<1> DEFINE L == Len(values)
           c == Len(r.list)
           k == row - 1
<1>1. /\ row \in Nat /\ row >= 1 /\ L \in Nat /\ c \in Nat /\ k \in Nat
      /\ row = k + 1 /\ Len(batch.cells) \in Nat /\ (L = 0 <=> values = <<>>)
  BY BatchFacts, SeqFacts DEF IInv, Filled
<1>2. /\ Len(heads) = k /\ Len(ends) = k /\ Len(valid) = k
      /\ \A n \in 1 .. k : ends[n] \in 0 .. L
      /\ \A n \in 1 .. k : n > 1 => ends[n - 1] <= ends[n]
      /\ k > 0 => ends[k] = L
      /\ k = 0 => L = 0
      /\ \A n \in 1 .. k : RowAt(n) = Answers(call, batch.cells[n])
  BY <1>1 DEF IInv, Filled
<1>3. /\ heads' = Append(heads, r.head) /\ values' = values \o r.list
      /\ ends' = Append(ends, L + c) /\ valid' = Append(valid, r.valid)
      /\ row' = row + 1
  BY DEF Push
<1>4. /\ IsSeq(heads') /\ Len(heads') = k + 1 /\ heads'[k + 1] = r.head
      /\ \A i \in 1 .. k : heads'[i] = heads[i]
  <2>1. IsSeq(heads)
    BY DEF IInv, Filled
  <2> QED BY <1>2, <1>3, <2>1, Appended
<1>5. /\ IsSeq(valid') /\ Len(valid') = k + 1 /\ valid'[k + 1] = r.valid
      /\ \A i \in 1 .. k : valid'[i] = valid[i]
  <2>1. IsSeq(valid)
    BY DEF IInv, Filled
  <2> QED BY <1>2, <1>3, <2>1, Appended
<1>6. /\ IsSeq(ends') /\ Len(ends') = k + 1 /\ ends'[k + 1] = L + c
      /\ \A i \in 1 .. k : ends'[i] = ends[i]
  <2>1. IsSeq(ends)
    BY DEF IInv, Filled
  <2> QED BY <1>2, <1>3, <2>1, Appended
<1>7. /\ IsSeq(values') /\ Len(values') = L + c
      /\ \A m \in 1 .. L + 1, n \in 0 .. L : SubSeq(values', m, n) = SubSeq(values, m, n)
      /\ SubSeq(values', L + 1, L + c) = r.list
  <2>1. IsSeq(values)
    BY DEF IInv, Filled
  <2> QED BY <1>3, <2>1, Extended
<1> DEFINE from(x, n) == IF n = 1 THEN 1 ELSE x[n - 1] + 1
<1>8. ASSUME NEW n \in 1 .. k
      PROVE  RowAt(n)' = RowAt(n)
  <2> DEFINE first == from(ends, n)
  <2>1. n = 1 \/ (n > 1 /\ n - 1 \in 1 .. k)
    BY <1>1
  <2>2. from(ends', n) = first /\ first \in 1 .. L + 1
    BY <1>1, <1>2, <1>6, <2>1
  <2> HIDE DEF first
  <2>3. ends'[n] = ends[n] /\ ends[n] \in 0 .. L
    BY <1>2, <1>6
  <2>4. SubSeq(values', first, ends[n]) = SubSeq(values, first, ends[n])
    BY <1>7, <2>2, <2>3
  <2>5. valid'[n] = valid[n] /\ heads'[n] = heads[n]
    BY <1>4, <1>5
  <2>6. RowAt(n) = IF valid[n]
                   THEN {[head |-> heads[n], list |-> SubSeq(values, first, ends[n])]}
                   ELSE {}
    BY DEF RowAt, first
  <2>7. RowAt(n)' = IF valid'[n]
                    THEN {[head |-> heads'[n],
                           list |-> SubSeq(values', from(ends', n), ends'[n])]}
                    ELSE {}
    BY DEF RowAt
  <2> HIDE DEF from
  <2>8. SubSeq(values', from(ends', n), ends'[n]) = SubSeq(values, first, ends[n])
    BY <2>2, <2>3, <2>4
  <2> QED BY <2>5, <2>6, <2>7, <2>8, Zenon
<1>9. ASSUME NEW n \in 1 .. k + 1, n = k + 1 PROVE RowAt(n)' = Answer(r)
  <2>1. from(ends', n) = L + 1
    <3>1. CASE k = 0
      BY <1>2, <1>9, <3>1
    <3>2. CASE k > 0
      <4>1. n # 1 /\ n - 1 = k /\ k \in 1 .. k
        BY <1>1, <1>9, <3>2
      <4>2. ends'[n - 1] = L
        BY <1>2, <1>6, <3>2, <4>1
      <4> QED BY <4>1, <4>2
    <3> QED BY <1>1, <3>1, <3>2
  <2>2. RowAt(n)' = IF valid'[n]
                   THEN {[head |-> heads'[n],
                          list |-> SubSeq(values', from(ends', n), ends'[n])]}
                   ELSE {}
    BY DEF RowAt
  <2> HIDE DEF from
  <2>3. SubSeq(values', from(ends', n), ends'[n]) = r.list
    BY <1>6, <1>7, <1>9, <2>1
  <2>4. valid'[n] = r.valid /\ heads'[n] = r.head
    BY <1>4, <1>5, <1>9
  <2> QED BY <2>2, <2>3, <2>4, Zenon DEF Answer
<1>10. call' = call
  BY DEF call
<1>11. ASSUME NEW n \in 1 .. k + 1
       PROVE  RowAt(n)' = Answers(call', batch'.cells[n])
  <2>1. CASE n \in 1 .. k
    BY <1>2, <1>8, <1>10, <2>1
  <2>2. CASE n = k + 1
    <3>1. RowAt(n)' = Answers(call, batch.cells[row]) /\ n = row
      BY <1>1, <1>9, <2>2
    <3>2. Answers(call', batch'.cells[n]) = Answers(call, batch.cells[row])
      BY <1>10, <3>1
    <3> QED BY <3>1, <3>2
  <2> QED BY <1>1, <2>1, <2>2
<1>12. ASSUME NEW n \in 1 .. k + 1
       PROVE  /\ ends'[n] \in 0 .. L + c
              /\ n > 1 => ends'[n - 1] <= ends'[n]
  <2>1. CASE n \in 1 .. k
    <3>1. ends'[n] = ends[n] /\ ends[n] \in 0 .. L
      BY <1>2, <1>6, <2>1
    <3>2. n > 1 => ends'[n - 1] = ends[n - 1] /\ ends[n - 1] <= ends[n]
      BY <1>1, <1>2, <1>6, <2>1
    <3> QED BY <1>1, <3>1, <3>2
  <2>2. CASE n = k + 1
    <3>1. ends'[n] = L + c
      BY <1>6, <2>2
    <3>2. n > 1 => ends'[n - 1] = L
      <4> SUFFICES ASSUME n > 1 PROVE ends'[n - 1] = L
        OBVIOUS
      <4>1. n - 1 = k /\ k > 0 /\ k \in 1 .. k
        BY <1>1, <2>2
      <4> QED BY <1>2, <1>6, <4>1
    <3> QED BY <1>1, <3>1, <3>2
  <2> QED BY <1>1, <2>1, <2>2
<1>13. ASSUME batch.type \notin Readable, NEW n \in 1 .. k + 1
       PROVE  batch.cells[n] = {}
  <2>1. CASE n \in 1 .. k
    BY <1>13, <2>1 DEF IInv, Filled
  <2>2. CASE n = k + 1
    BY <1>1, <1>13, <2>2
  <2> QED BY <1>1, <2>1, <2>2
<1>14. row' = (k + 1) + 1 /\ row' - 1 = k + 1 /\ row' > 1 /\ row' # 1
  BY <1>1, <1>3
<1>15. Len(results) < Len(Calls)
  BY DEF IInv, Filled
<1> HIDE DEF L, c, k
<1>16. Filled'
  BY <1>4, <1>5, <1>6, <1>7, <1>11, <1>12, <1>13, <1>14, <1>15 DEF Filled
<1> QED BY <1>1, <1>3, <1>16

LEMMA CallIsFunction ==
  ASSUME IInv, running
  PROVE  call \in Functions /\ Len(results) < Len(Calls)
<1>1. Len(results) + 1 \in 1 .. Len(Calls)
  BY BatchFacts DEF IInv, Filled
<1> QED BY <1>1, BatchFacts DEF call, IInv, Filled

LEMMA NullPreserves == IInv /\ AppendNull => IInv'
<1> SUFFICES ASSUME IInv, AppendNull PROVE IInv'
  OBVIOUS
<1>1. /\ running /\ row <= Len(batch.cells) /\ batch.cells[row] = {} /\ Push(NullRow)
      /\ UNCHANGED <<batch, results, running, written>>
  BY DEF AppendNull, InLoop
<1>2. IsSeq(NullRow.list) /\ Answer(NullRow) = {}
  <2>1. <<>> \in Seq({})
    BY EmptySeq
  <2> QED BY <2>1 DEF NullRow, Answer, IsSeq
<1>3. Answers(call, batch.cells[row]) = {}
  BY <1>1 DEF Answers
<1>4. Filled' /\ row' \in 1 .. Len(batch.cells) + 1
  BY <1>1, <1>2, <1>3, Pushed
<1>5. Returned'
  BY <1>1 DEF IInv, Returned, Owed
<1> QED BY <1>1, <1>4, <1>5 DEF IInv

(* The only message of a cell is the one its answers are about. *)
LEMMA OneAnswer ==
  ASSUME NEW f, NEW m
  PROVE  Answers(f, {m}) = Answer(RowFor(f, m))
BY DEF Answers

LEMMA AnswerPreserves == IInv /\ AppendAnswer => IInv'
<1> SUFFICES ASSUME IInv, AppendAnswer PROVE IInv'
  OBVIOUS
<1>1. /\ running /\ row <= Len(batch.cells) /\ batch.type \in Readable
      /\ UNCHANGED <<batch, results, running>>
  BY DEF AppendAnswer, InLoop
<1>2. PICK m \in batch.cells[row] :
        /\ written + Weight(call, m) <= MaxOffset
        /\ Push(RowFor(call, m))
        /\ written' = written + Weight(call, m)
  BY DEF AppendAnswer
<1>3. row \in DOMAIN batch.cells
  BY <1>1, BatchFacts DEF IInv
<1>4. batch.cells[row] = {m} /\ m.items \in Nat /\ m.size \in Nat
  BY <1>2, <1>3, BatchFacts
<1>5. call \in Functions
  BY <1>1, CallIsFunction
<1> DEFINE r == RowFor(call, m)
<1>6. IsSeq(r.list)
  <2>1. CASE r = NullRow
    <3>1. <<>> \in Seq({})
      BY EmptySeq
    <3> HIDE DEF r
    <3> QED BY <2>1, <3>1 DEF NullRow, IsSeq
  <2>2. CASE \E head, list : r = RowOf(head, list) /\ IsSeq(list)
    <3>1. PICK head, list : r = RowOf(head, list) /\ IsSeq(list)
      BY <2>2
    <3> HIDE DEF r
    <3>2. r.list = list
      BY <3>1 DEF RowOf
    <3> QED BY <3>1, <3>2
  <2> QED BY <1>4, <1>5, <2>1, <2>2, RowsAreRows
<1>7. Answer(r) = Answers(call, batch.cells[row])
  BY <1>4, OneAnswer
<1>8. Push(r)
  BY <1>2
<1> HIDE DEF r
<1>9. Filled' /\ row' \in 1 .. Len(batch.cells) + 1
  BY <1>1, <1>6, <1>7, <1>8, Pushed
<1>10. written' \in 0 .. MaxOffset
  <2>1. Weight(call, m) \in Nat
    BY <1>4 DEF Weight
  <2> QED BY <1>2, <2>1, BatchFacts DEF IInv
<1>11. Returned'
  BY <1>1 DEF IInv, Returned, Owed
<1> QED BY <1>1, <1>9, <1>10, <1>11 DEF IInv

LEMMA StartPreserves == IInv /\ Start => IInv'
<1> SUFFICES ASSUME IInv, Start PROVE IInv'
  OBVIOUS
<1>1. /\ Len(results) < Len(Calls) /\ running' = TRUE /\ row' = 1
      /\ heads' = <<>> /\ values' = <<>> /\ ends' = <<>> /\ valid' = <<>>
      /\ written' = 0 /\ batch' = batch /\ results' = results
  BY DEF Start
<1>2. IsSeq(<<>>) /\ Len(<<>>) = 0
  BY EmptySeq DEF IsSeq
<1>3. /\ row' - 1 = 0 /\ Len(batch.cells) \in Nat /\ MaxOffset \in Nat
      /\ row' \in 1 .. Len(batch.cells) + 1
  BY <1>1, BatchFacts
<1>4. Filled'
  BY <1>1, <1>2, <1>3 DEF Filled
<1>5. Returned'
  BY <1>1 DEF IInv, Returned, Owed
<1> QED BY <1>1, <1>3, <1>4, <1>5 DEF IInv

(* A call returns what it owes. *)
LEMMA ReturnPreserves ==
  ASSUME IInv, running, NEW status, NEW rows, Return(status, rows),
         Owed(call, [status |-> status, rows |-> rows])
  PROVE  IInv'
<1> DEFINE result == [status |-> status, rows |-> rows]
<1>1. /\ results' = Append(results, result) /\ running' = FALSE
      /\ UNCHANGED <<batch, row, heads, values, ends, valid, written>>
  BY DEF Return, builders
<1>2. Owed(call, result)
  OBVIOUS
<1> HIDE DEF result
<1>3. /\ IsSeq(results) /\ Len(results) \in Nat /\ Len(results) < Len(Calls)
      /\ \A p \in 1 .. Len(results) : Owed(Calls[p], results[p])
      /\ Len(Calls) \in Nat
  BY CallIsFunction, BatchFacts DEF IInv, Returned
<1>4. /\ IsSeq(results') /\ Len(results') = Len(results) + 1
      /\ \A p \in 1 .. Len(results) : results'[p] = results[p]
      /\ results'[Len(results) + 1] = result
  BY <1>1, <1>3, Appended
<1>5. ASSUME NEW p \in 1 .. Len(results')
      PROVE  Owed(Calls[p], results'[p])
  <2>1. CASE p \in 1 .. Len(results)
    BY <1>3, <1>4, <2>1
  <2>2. CASE p = Len(results) + 1
    BY <1>2, <1>4, <2>2 DEF call
  <2> QED BY <1>3, <1>4, <2>1, <2>2
<1>6. Returned'
  BY <1>1, <1>3, <1>4, <1>5 DEF Returned, Owed
<1>7. Filled'
  BY <1>1 DEF IInv, Filled
<1> QED BY <1>1, <1>6, <1>7 DEF IInv

LEMMA WrongTypePreserves == IInv /\ WrongType => IInv'
<1> SUFFICES ASSUME IInv, WrongType PROVE IInv'
  OBVIOUS
<1>1. /\ running /\ row <= Len(batch.cells) /\ batch.type \notin Readable
      /\ batch.cells[row] # {} /\ Return("error", <<>>)
  BY DEF WrongType, InLoop
<1>2. row \in DOMAIN batch.cells
  BY <1>1, BatchFacts DEF IInv
<1>3. Owed(call, [status |-> "error", rows |-> <<>>])
  BY <1>1, <1>2 DEF Owed
<1> QED BY <1>1, <1>3, ReturnPreserves

LEMMA OverflowPreserves == IInv /\ Overflow => IInv'
<1> SUFFICES ASSUME IInv, Overflow PROVE IInv'
  OBVIOUS
<1>1. running /\ batch.type \in Readable /\ Return("panic", <<>>)
  BY DEF Overflow, InLoop
<1>2. Owed(call, [status |-> "panic", rows |-> <<>>])
  BY <1>1 DEF Owed
<1> QED BY <1>1, <1>2, ReturnPreserves

LEMMA PublishPreserves == IInv /\ Publish => IInv'
<1> SUFFICES ASSUME IInv, Publish PROVE IInv'
  OBVIOUS
<1> DEFINE rows == [n \in DOMAIN valid |-> RowAt(n)]
<1>1. running /\ row > Len(batch.cells) /\ Return("ok", rows)
  BY DEF Publish
<1>2. row - 1 = Len(batch.cells) /\ DOMAIN batch.cells = 1 .. row - 1
  BY <1>1, BatchFacts DEF IInv
<1>3. DOMAIN valid = 1 .. row - 1
  BY <1>1, SeqFacts DEF IInv, Filled
<1>4. \A n \in 1 .. row - 1 : RowAt(n) = Answers(call, batch.cells[n])
  BY <1>1 DEF IInv, Filled
<1>5. rows = [n \in DOMAIN batch.cells |-> Answers(call, batch.cells[n])]
  BY <1>2, <1>3, <1>4
<1>6. batch.type \in Readable \/ \A n \in DOMAIN batch.cells : batch.cells[n] = {}
  BY <1>1, <1>2 DEF IInv, Filled
<1> HIDE DEF rows
<1>7. Owed(call, [status |-> "ok", rows |-> rows])
  BY <1>5, <1>6 DEF Owed
<1> QED BY <1>1, <1>7, ReturnPreserves

LEMMA BatchInit == Init => IInv
<1> SUFFICES ASSUME Init PROVE IInv
  OBVIOUS
<1>1. /\ batch \in Batches /\ results = <<>> /\ running = FALSE /\ row = 1
      /\ heads = <<>> /\ values = <<>> /\ ends = <<>> /\ valid = <<>> /\ written = 0
  BY DEF Init
<1>2. IsSeq(<<>>) /\ Len(<<>>) = 0
  BY EmptySeq DEF IsSeq
<1>3. Len(Calls) \in Nat /\ Len(batch.cells) \in Nat /\ MaxOffset \in Nat
  BY <1>1, BatchAssumption, LenProperties
<1>4. Filled /\ Returned
  BY <1>1, <1>2, <1>3 DEF Filled, Returned
<1>5. row \in 1 .. Len(batch.cells) + 1 /\ written \in 0 .. MaxOffset
  BY <1>1, <1>3
<1> HIDE DEF Init
<1> QED BY <1>1, <1>4, <1>5, Zenon DEF IInv

LEMMA BatchNext == IInv /\ [Next]_vars => IInv'
<1>1. IInv /\ UNCHANGED vars => IInv'
  <2> SUFFICES ASSUME IInv, UNCHANGED vars PROVE IInv'
    OBVIOUS
  <2>1. /\ batch' = batch /\ results' = results /\ running' = running /\ row' = row
        /\ heads' = heads /\ values' = values /\ ends' = ends /\ valid' = valid
        /\ written' = written
    BY DEF vars, builders
  <2>2. Filled'
    BY <2>1, Zenon DEF IInv, Filled, RowAt, call
  <2>3. Returned'
    BY <2>1, Zenon DEF IInv, Returned, Owed
  <2> QED BY <2>1, <2>2, <2>3, Zenon DEF IInv
<1> QED
  BY <1>1, StartPreserves, NullPreserves, AnswerPreserves, WrongTypePreserves,
     OverflowPreserves, PublishPreserves DEF Next

-----------------------------------------------------------------------------
(* The verdict of well_formed on a message, and what the others make of it. *)
LEMMA ClassifiedIsNotOk ==
  ASSUME NEW e PROVE classify(e) # "ok" /\ classify(e) # "not-saml"
BY Zenon DEF classify

LEMMA KindTells ==
  ASSUME NEW m, m.normalized \in {"ok"} \cup TransportErrors
  PROVE  /\ well_formed(m) = "ok" <=> Parsed(m) /\ MessageTypeOf(m) # "unknown"
         /\ well_formed(m) \notin {"ok", "not-saml"} <=> ~ Parsed(m)
<1>1. ASSUME Parsed(m)
      PROVE  /\ well_formed(m) \in {"ok", "not-saml"}
             /\ well_formed(m) = "ok" <=> MessageTypeOf(m) # "unknown"
  BY <1>1 DEF well_formed, Parsed
<1>2. ASSUME ~ Parsed(m) PROVE well_formed(m) \notin {"ok", "not-saml"}
  BY <1>2, ClassifiedIsNotOk DEF well_formed, Parsed, TransportErrors
<1> QED BY <1>1, <1>2

LEMMA KindExplains ==
  ASSUME NEW f \in Functions, NEW m, m.normalized \in {"ok"} \cup TransportErrors
  PROVE  Explains(well_formed(m), f, Answer(RowFor(f, m)))
<1>1. ASSUME f \in {"decode", "message_type"}
      PROVE  well_formed(m) = "ok"
               <=> \E x \in Answer(RowFor(f, m)) : x.head \notin Defaults
  <2> DEFINE type == IF f = "decode" THEN decode(m).message_type ELSE message_type(m)
  <2>1. type \notin Defaults <=> Parsed(m) /\ MessageTypeOf(m) # "unknown"
    <3>1. MessageTypeOf(m) \in Defaults <=> MessageTypeOf(m) = "unknown"
      BY DEF MessageTypeOf, KnownRoots, Defaults, Null
    <3>2. CASE Parsed(m)
      <4>1. decode(m).message_type = MessageTypeOf(m) /\ message_type(m) = MessageTypeOf(m)
        BY <3>2 DEF decode, message_type
      <4> QED BY <3>1, <3>2, <4>1
    <3>3. CASE ~ Parsed(m)
      <4>1. decode(m).message_type = Null /\ message_type(m) = "unknown"
        BY <3>3 DEF decode, message_type
      <4> QED BY <3>3, <4>1 DEF Defaults
    <3> QED BY <3>2, <3>3
  <2>2. \E list : RowFor(f, m) = RowOf(type, list)
    <3>1. CASE f = "decode"
      BY <3>1 DEF RowFor, DecodeRow
    <3>2. CASE f = "message_type"
      BY <3>2 DEF RowFor, MessageTypeRow
    <3> QED BY <1>1, <3>1, <3>2
  <2> HIDE DEF type
  <2>3. PICK list : RowFor(f, m) = RowOf(type, list)
    BY <2>2
  <2>4. Answer(RowFor(f, m)) = {[head |-> type, list |-> list]}
    BY <2>3 DEF Answer, RowOf
  <2>5. (\E x \in Answer(RowFor(f, m)) : x.head \notin Defaults) <=> type \notin Defaults
    BY <2>4
  <2> QED BY <2>1, <2>5, KindTells
<1>2. ASSUME f \in {"conditions", "authn"}
      PROVE  Answer(RowFor(f, m)) = {} <=> well_formed(m) \notin {"ok", "not-saml"}
  <2>1. RowFor(f, m) = ConditionsRow(m) \/ RowFor(f, m) = AuthnRow(m)
    BY <1>2 DEF RowFor
  <2>2. CASE Parsed(m)
    <3>1. PICK head, list : RowFor(f, m) = RowOf(head, list)
      BY <2>1, <2>2 DEF ConditionsRow, AuthnRow, Answered
    <3>2. Answer(RowFor(f, m)) = {[head |-> head, list |-> list]}
      BY <3>1 DEF Answer, RowOf
    <3> QED BY <2>2, <3>2, KindTells
  <2>3. CASE ~ Parsed(m)
    <3>1. RowFor(f, m) = NullRow
      BY <2>1, <2>3 DEF ConditionsRow, AuthnRow, Answered
    <3>2. Answer(RowFor(f, m)) = {}
      BY <3>1 DEF Answer, NullRow
    <3> QED BY <2>3, <3>2, KindTells
  <2> QED BY <2>2, <2>3
<1>3. ASSUME well_formed(m) \notin {"ok", "not-saml"},
             f \notin Codecs \cup {"well_formed"}
      PROVE  \A x \in Answer(RowFor(f, m)) : x.head \in Defaults /\ x.list = <<>>
  <2>1. ~ Parsed(m)
    BY <1>3, KindTells
  <2>2. RowFor(f, m) = NullRow \/ \E head \in Defaults : RowFor(f, m) = RowOf(head, <<>>)
    <3>1. Null \in Defaults /\ "unsigned" \in Defaults /\ "unknown" \in Defaults
      BY DEF Defaults
    <3>2. /\ AttributesRow(m) = RowOf(Null, <<>>) /\ SignaturesRow(m) = RowOf(Null, <<>>)
          /\ AssertionsRow(m) = RowOf(Null, <<>>) /\ AnomaliesRow(m) = RowOf(Null, <<>>)
      BY <2>1 DEF AttributesRow, SignaturesRow, AssertionsRow, AnomaliesRow, RowsOf
    <3>3. DecodeRow(m) = RowOf(Null, <<>>)
      BY <2>1 DEF DecodeRow, decode
    <3>4. SignatureRow(m) = RowOf("unsigned", <<>>)
      BY <2>1 DEF SignatureRow, signature
    <3>5. MessageTypeRow(m) = RowOf("unknown", <<>>)
      BY <2>1 DEF MessageTypeRow, message_type
    <3>6. ConditionsRow(m) = NullRow /\ AuthnRow(m) = NullRow
      BY <2>1 DEF ConditionsRow, AuthnRow, Answered
    <3>7. RowFor(f, m) \in
            {AttributesRow(m), SignaturesRow(m), AssertionsRow(m), AnomaliesRow(m),
             DecodeRow(m), SignatureRow(m), MessageTypeRow(m), ConditionsRow(m), AuthnRow(m)}
      BY <1>3 DEF RowFor, Functions, Codecs, Fanout
    <3> QED BY <3>1, <3>2, <3>3, <3>4, <3>5, <3>6, <3>7
  <2>3. CASE RowFor(f, m) = NullRow
    BY <2>3 DEF Answer, NullRow
  <2>4. CASE \E head \in Defaults : RowFor(f, m) = RowOf(head, <<>>)
    <3>1. PICK head \in Defaults : RowFor(f, m) = RowOf(head, <<>>)
      BY <2>4
    <3>2. Answer(RowFor(f, m)) = {[head |-> head, list |-> <<>>]}
      BY <3>1 DEF Answer, RowOf
    <3> QED BY <3>2
  <2> QED BY <2>2, <2>3, <2>4
<1> QED BY <1>1, <1>2, <1>3, Zenon DEF Explains

LEMMA SameType ==
  ASSUME NEW m, NEW x \in Answer(RowFor("message_type", m)),
         NEW y \in Answer(RowFor("decode", m))
  PROVE  y.head \in {Null, x.head}
<1>1. x.head = message_type(m)
  BY DEF RowFor, MessageTypeRow, RowOf, Answer
<1>2. y.head = decode(m).message_type
  BY DEF RowFor, DecodeRow, RowOf, Answer
<1> QED BY <1>1, <1>2 DEF message_type, decode

LEMMA ViewsFromInvariant == IInv => ViewsAgree
<1> SUFFICES ASSUME IInv, NEW p \in DOMAIN results, NEW q \in DOMAIN results,
                    results[p].status = "ok", results[q].status = "ok",
                    NEW n \in DOMAIN batch.cells, NEW x \in results[p].rows[n]
             PROVE  /\ Calls[p] = "well_formed"
                         => Explains(x.head, Calls[q], results[q].rows[n])
                    /\ Calls[p] = "message_type" /\ Calls[q] = "decode"
                         => \A y \in results[q].rows[n] : y.head \in {Null, x.head}
  BY DEF ViewsAgree
<1>1. /\ p \in 1 .. Len(results) /\ q \in 1 .. Len(results)
      /\ Owed(Calls[p], results[p]) /\ Owed(Calls[q], results[q])
  BY BatchFacts DEF IInv, Returned
<1>2. /\ results[p].rows[n] = Answers(Calls[p], batch.cells[n])
      /\ results[q].rows[n] = Answers(Calls[q], batch.cells[n])
  BY <1>1 DEF Owed
<1>3. PICK m \in batch.cells[n] : TRUE
  BY <1>2 DEF Answers
<1>4. batch.cells[n] = {m} /\ m.normalized \in {"ok"} \cup TransportErrors
  BY <1>3, BatchFacts
<1>5. /\ results[p].rows[n] = Answer(RowFor(Calls[p], m))
      /\ results[q].rows[n] = Answer(RowFor(Calls[q], m))
  BY <1>2, <1>4, OneAnswer
<1>6. Calls[q] \in Functions
  BY <1>1, BatchFacts DEF IInv, Returned
<1>7. ASSUME Calls[p] = "well_formed"
      PROVE  Explains(x.head, Calls[q], results[q].rows[n])
  <2>1. x.head = well_formed(m)
    <3>1. RowFor("well_formed", m) = RowOf(well_formed(m), <<>>)
      BY DEF RowFor, WellFormedRow
    <3>2. Answer(RowFor("well_formed", m)) = {[head |-> well_formed(m), list |-> <<>>]}
      BY <3>1 DEF RowOf, Answer
    <3>3. results[p].rows[n] = Answer(RowFor("well_formed", m))
      BY <1>5, <1>7
    <3> QED BY <3>2, <3>3
  <2>2. Explains(well_formed(m), Calls[q], Answer(RowFor(Calls[q], m)))
    BY <1>4, <1>6, KindExplains
  <2> QED BY <1>5, <2>1, <2>2
<1>8. ASSUME Calls[p] = "message_type", Calls[q] = "decode"
      PROVE  \A y \in results[q].rows[n] : y.head \in {Null, x.head}
  BY <1>5, <1>8, SameType
<1> QED BY <1>7, <1>8

-----------------------------------------------------------------------------
(* A non-empty set of naturals has a least element. *)
LEMMA LeastOne ==
  ASSUME NEW S \in SUBSET Nat, S # {}
  PROVE  \E x \in S : \A y \in S : x <= y
<1> DEFINE R == OpToRel(<, Nat)
<1>1. IsWellFoundedOn(R, Nat)
  BY NatLessThanWellFounded
<1>2. PICK x \in S : \A y \in S : <<y, x>> \notin R
  <2> HIDE DEF R
  <2> QED BY <1>1, WFMin
<1>3. \A y \in S : ~ (y < x)
  BY <1>2 DEF R, OpToRel
<1> QED BY <1>3

(* The recursion of Lengths has a solution: were there a first index up to  *)
(* which there is none, the one below it could be continued.                *)
LEMMA LengthsAddUp ==
  ASSUME NEW f, NEW b, Len(b.cells) \in Nat
  PROVE  Lengths(f, b) = [n \in 0 .. Len(b.cells) |->
           IF n = 0 THEN 0 ELSE Lengths(f, b)[n - 1] + CellWeight(f, b.cells[n])]
<1> DEFINE L == Len(b.cells)
           w(n) == CellWeight(f, b.cells[n])
           Sums(u, n) == u = [i \in 0 .. n |-> IF i = 0 THEN 0 ELSE u[i - 1] + w(i)]
<1>1. Lengths(f, b) = CHOOSE u : Sums(u, L)
  BY DEF Lengths
<1> HIDE DEF w
<1>2. \A n \in 0 .. L : \E u : Sums(u, n)
  <2> DEFINE B == {n \in 0 .. L : ~ \E u : Sums(u, n)}
  <2> SUFFICES ASSUME B # {} PROVE FALSE
    OBVIOUS
  <2>1. PICK n \in B : \A k \in B : n <= k
    <3>1. B \in SUBSET Nat
      OBVIOUS
    <3> HIDE DEF B
    <3> QED BY <3>1, LeastOne
  <2>2. n # 0
    <3>1. Sums([i \in 0 .. 0 |-> 0], 0)
      OBVIOUS
    <3> HIDE DEF Sums
    <3> QED BY <2>1, <3>1
  <2>3. n - 1 \in 0 .. L /\ n - 1 \notin B
    BY <2>1, <2>2
  <2>4. PICK u : Sums(u, n - 1)
    BY <2>3
  <2> DEFINE v == [i \in 0 .. n |-> IF i < n THEN u[i] ELSE u[n - 1] + w(n)]
  <2>5. Sums(v, n)
    <3>1. n \in Nat /\ n >= 1
      BY <2>1, <2>2
    <3>2. \A i \in 0 .. n - 1 : u[i] = IF i = 0 THEN 0 ELSE u[i - 1] + w(i)
      BY <2>4
    <3>3. \A i \in 0 .. n : v[i] = IF i < n THEN u[i] ELSE u[n - 1] + w(n)
      OBVIOUS
    <3>4. ASSUME NEW i \in 0 .. n
          PROVE  v[i] = IF i = 0 THEN 0 ELSE v[i - 1] + w(i)
      <4> HIDE DEF v
      <4>1. CASE i = 0
        BY <3>1, <3>2, <3>3, <4>1
      <4>2. CASE i # 0 /\ i < n
        BY <3>1, <3>2, <3>3, <4>2
      <4>3. CASE i = n
        <5>1. v[i - 1] = u[n - 1]
          BY <3>1, <3>3, <4>3
        <5> QED BY <3>1, <3>3, <4>3, <5>1
      <4> QED BY <3>1, <4>1, <4>2, <4>3
    <3>5. v = [i \in 0 .. n |-> v[i]]
      OBVIOUS
    <3> HIDE DEF v
    <3> QED BY <3>4, <3>5
  <2> QED BY <2>1, <2>5
<1>3. L \in 0 .. L
  OBVIOUS
<1>4. \E u : Sums(u, L)
  BY <1>2, <1>3
<1>5. Sums(Lengths(f, b), L)
  <2> HIDE DEF Sums
  <2> QED BY <1>1, <1>4
<1> QED BY <1>5 DEF w

LEMMA LengthsGrow ==
  ASSUME NEW f, NEW b, Len(b.cells) \in Nat,
         \A n \in 1 .. Len(b.cells) : CellWeight(f, b.cells[n]) \in Nat
  PROVE  /\ \A n \in 0 .. Len(b.cells) : Lengths(f, b)[n] \in Nat
         /\ \A n \in 0 .. Len(b.cells) : Lengths(f, b)[n] <= Lengths(f, b)[Len(b.cells)]
<1> DEFINE L == Len(b.cells)
           u == Lengths(f, b)
           w(n) == CellWeight(f, b.cells[n])
<1>1. \A n \in 0 .. L : u[n] = IF n = 0 THEN 0 ELSE u[n - 1] + w(n)
  <2> DEFINE next(n) == IF n = 0 THEN 0 ELSE u[n - 1] + w(n)
  <2>1. u = [n \in 0 .. L |-> next(n)]
    BY LengthsAddUp
  <2> HIDE DEF u, next
  <2>2. \A n \in 0 .. L : u[n] = next(n)
    BY <2>1
  <2> QED BY <2>2 DEF next
<1>2. \A n \in 1 .. L : w(n) \in Nat
  OBVIOUS
<1> HIDE DEF u, w
<1>3. \A n \in 0 .. L : u[n] \in Nat
  <2> DEFINE B == {n \in 0 .. L : u[n] \notin Nat}
  <2> SUFFICES ASSUME B # {} PROVE FALSE
    OBVIOUS
  <2>1. PICK n \in B : \A k \in B : n <= k
    <3>1. B \in SUBSET Nat
      OBVIOUS
    <3> HIDE DEF B
    <3> QED BY <3>1, LeastOne
  <2>2. n # 0
    BY <1>1, <2>1
  <2>3. n - 1 \in 0 .. L /\ n - 1 \notin B /\ n \in 1 .. L
    BY <2>1, <2>2
  <2>4. u[n - 1] \in Nat /\ u[n] = u[n - 1] + w(n)
    BY <1>1, <2>1, <2>2, <2>3
  <2> QED BY <1>2, <2>1, <2>3, <2>4
<1>4. \A n \in 0 .. L : u[n] <= u[L]
  <2> DEFINE B == {k \in 0 .. L : ~ (u[L - k] <= u[L])}
  <2> SUFFICES ASSUME B # {} PROVE FALSE
    <3> SUFFICES ASSUME NEW n \in 0 .. L, ~ (u[n] <= u[L]) PROVE B # {}
      OBVIOUS
    <3>1. L - n \in 0 .. L /\ L - (L - n) = n
      OBVIOUS
    <3> QED BY <3>1
  <2>1. PICK k \in B : \A j \in B : k <= j
    <3>1. B \in SUBSET Nat
      OBVIOUS
    <3> HIDE DEF B
    <3> QED BY <3>1, LeastOne
  <2>2. k # 0
    <3>1. L - 0 = L /\ u[L] \in Nat
      BY <1>3
    <3> QED BY <2>1, <3>1
  <2>3. k - 1 \in 0 .. L /\ k - 1 \notin B /\ k \in 1 .. L
    <3>1. k \in 0 .. L
      BY <2>1
    <3> HIDE DEF B
    <3>2. k - 1 \in 0 .. L /\ k \in 1 .. L /\ ~ (k <= k - 1)
      BY <2>2, <3>1
    <3> QED BY <2>1, <3>2
  <2>4. u[L - (k - 1)] <= u[L]
    BY <2>3
  <2> DEFINE n == L - (k - 1)
  <2>5. n \in 1 .. L /\ n \in 0 .. L /\ n - 1 = L - k /\ n - 1 \in 0 .. L /\ n # 0
    BY <2>3
  <2>6. u[n] <= u[L]
    BY <2>4
  <2> HIDE DEF n
  <2>7. u[n] = u[n - 1] + w(n) /\ w(n) \in Nat /\ u[n - 1] \in Nat /\ u[L] \in Nat
    <3>1. u[n] = u[n - 1] + w(n)
      BY <1>1, <2>5
    <3>2. w(n) \in Nat
      BY <1>2, <2>5
    <3>3. u[n - 1] \in Nat /\ u[L] \in Nat
      BY <1>3, <2>5
    <3> QED BY <3>1, <3>2, <3>3
  <2>8. u[n - 1] <= u[L]
    BY <2>6, <2>7
  <2> QED BY <2>1, <2>5, <2>8
<1> QED BY <1>3, <1>4 DEF u

-----------------------------------------------------------------------------
(* Every call that has returned is what is due, and one that is under way   *)
(* has written the text of the answers so far.                              *)
DueInv ==
  /\ IInv
  /\ running => written = Lengths(call, batch)[row - 1]

LEMMA CellsWeigh ==
  ASSUME IInv, NEW f
  PROVE  \A n \in 1 .. Len(batch.cells) : CellWeight(f, batch.cells[n]) \in Nat
<1> SUFFICES ASSUME NEW n \in 1 .. Len(batch.cells), batch.cells[n] # {}
             PROVE  CellWeight(f, batch.cells[n]) \in Nat
  BY DEF CellWeight
<1>1. PICK m \in batch.cells[n] : TRUE
  OBVIOUS
<1>2. batch.cells[n] = {m} /\ m.size \in Nat
  BY <1>1, BatchFacts
<1>3. (CHOOSE x \in {m} : TRUE) = m
  OBVIOUS
<1>4. CellWeight(f, batch.cells[n]) = Weight(f, m)
  BY <1>2, <1>3 DEF CellWeight
<1> QED BY <1>2, <1>4 DEF Weight

LEMMA NextLength ==
  ASSUME IInv, row <= Len(batch.cells), NEW f
  PROVE  /\ Lengths(f, batch)[row] =
              Lengths(f, batch)[row - 1] + CellWeight(f, batch.cells[row])
         /\ \A m \in batch.cells[row] : CellWeight(f, batch.cells[row]) = Weight(f, m)
         /\ Lengths(f, batch)[row - 1] \in Nat /\ Lengths(f, batch)[row] \in Nat
         /\ Lengths(f, batch)[row] <= Lengths(f, batch)[Len(batch.cells)]
         /\ Lengths(f, batch)[Len(batch.cells)] \in Nat
<1>1. /\ Len(batch.cells) \in Nat /\ row \in 1 .. Len(batch.cells)
      /\ row \in 0 .. Len(batch.cells) /\ row - 1 \in 0 .. Len(batch.cells)
      /\ Len(batch.cells) \in 0 .. Len(batch.cells)
  BY BatchFacts DEF IInv
<1>2. Lengths(f, batch)[row] = Lengths(f, batch)[row - 1] + CellWeight(f, batch.cells[row])
  <2> DEFINE u == Lengths(f, batch)
             next(n) == IF n = 0 THEN 0 ELSE u[n - 1] + CellWeight(f, batch.cells[n])
  <2>1. u = [n \in 0 .. Len(batch.cells) |-> next(n)]
    BY <1>1, LengthsAddUp
  <2> HIDE DEF u, next
  <2>2. u[row] = next(row)
    BY <1>1, <2>1
  <2> QED BY <1>1, <2>2 DEF u, next
<1>3. ASSUME NEW m \in batch.cells[row]
      PROVE  CellWeight(f, batch.cells[row]) = Weight(f, m)
  <2>1. batch.cells[row] = {m}
    BY <1>1, BatchFacts
  <2>2. (CHOOSE x \in {m} : TRUE) = m
    OBVIOUS
  <2> QED BY <2>1, <2>2 DEF CellWeight
<1>4. \A n \in 1 .. Len(batch.cells) : CellWeight(f, batch.cells[n]) \in Nat
  BY CellsWeigh
<1>5. /\ \A n \in 0 .. Len(batch.cells) : Lengths(f, batch)[n] \in Nat
      /\ \A n \in 0 .. Len(batch.cells) :
           Lengths(f, batch)[n] <= Lengths(f, batch)[Len(batch.cells)]
  BY <1>1, <1>4, LengthsGrow
<1> QED BY <1>1, <1>2, <1>3, <1>5

LEMMA LengthsPreserved == DueInv /\ [Next]_vars => DueInv'
<1> SUFFICES ASSUME DueInv, [Next]_vars, running'
             PROVE  written' = Lengths(call', batch')[row' - 1]
  BY BatchNext DEF DueInv
<1>1. CASE Start
  <2>1. written' = 0 /\ row' - 1 = 0 /\ batch' = batch
    BY <1>1 DEF Start
  <2>2. Len(batch.cells) \in Nat
    BY BatchFacts DEF DueInv
  <2>3. \A f : Lengths(f, batch)[0] = 0
    <3> SUFFICES ASSUME NEW f PROVE Lengths(f, batch)[0] = 0
      OBVIOUS
    <3> DEFINE u == Lengths(f, batch)
               next(n) == IF n = 0 THEN 0 ELSE u[n - 1] + CellWeight(f, batch.cells[n])
    <3>1. u = [n \in 0 .. Len(batch.cells) |-> next(n)]
      BY <2>2, LengthsAddUp
    <3>2. next(0) = 0
      OBVIOUS
    <3> HIDE DEF u, next
    <3>3. u[0] = 0
      BY <2>2, <3>1, <3>2
    <3> QED BY <3>3 DEF u
  <2> QED BY <2>1, <2>3
<1>2. CASE AppendNull
  <2>1. /\ running /\ row <= Len(batch.cells) /\ batch.cells[row] = {}
        /\ written' = written /\ batch' = batch /\ results' = results /\ row' = row + 1
    BY <1>2 DEF AppendNull, InLoop, Push
  <2>2. call' = call /\ row' - 1 = row
    BY <2>1, BatchFacts DEF call, DueInv
  <2>3. CellWeight(call, batch.cells[row]) = 0
    BY <2>1 DEF CellWeight
  <2>4. Lengths(call, batch)[row] = Lengths(call, batch)[row - 1]
    BY <2>1, <2>3, NextLength DEF DueInv
  <2> QED BY <2>1, <2>2, <2>4 DEF DueInv
<1>3. CASE AppendAnswer
  <2>1. /\ running /\ row <= Len(batch.cells)
        /\ batch' = batch /\ results' = results /\ row' = row + 1
        /\ \E m \in batch.cells[row] : written' = written + Weight(call, m)
    BY <1>3 DEF AppendAnswer, InLoop, Push
  <2>2. call' = call /\ row' - 1 = row
    BY <2>1, BatchFacts DEF call, DueInv
  <2>3. Lengths(call, batch)[row] = written + CellWeight(call, batch.cells[row])
    BY <2>1, NextLength DEF DueInv
  <2>4. written' = written + CellWeight(call, batch.cells[row])
    BY <2>1, NextLength DEF DueInv
  <2> QED BY <2>1, <2>2, <2>3, <2>4
<1>4. CASE WrongType \/ Overflow \/ Publish
  BY <1>4 DEF WrongType, Overflow, Publish, Return
<1>5. CASE UNCHANGED vars
  <2>1. /\ batch' = batch /\ results' = results /\ running' = running /\ row' = row
        /\ written' = written
    BY <1>5 DEF vars, builders
  <2> QED BY <2>1 DEF DueInv, call
<1> QED BY <1>1, <1>2, <1>3, <1>4, <1>5 DEF Next

(* What a call returns is what is due. *)
LEMMA ReturnsDue ==
  ASSUME DueInv, WrongType \/ Overflow \/ Publish
  PROVE  /\ Len(results) < Len(Calls)
         /\ results' = Append(results, Due(batch, Len(results) + 1))
         /\ batch' = batch
<1> DEFINE cells == batch.cells
           blocked == batch.type \notin Readable /\ \E i \in DOMAIN cells : cells[i] # {}
           answers == [i \in DOMAIN cells |-> Answers(call, cells[i])]
           total == Lengths(call, batch)[Len(cells)]
           due == Due(batch, Len(results) + 1)
<1>1. IInv /\ running
  BY DEF DueInv, WrongType, Overflow, Publish, InLoop
<1>2. Len(results) < Len(Calls) /\ Len(cells) \in Nat /\ DOMAIN cells = 1 .. Len(cells)
  BY <1>1, CallIsFunction, BatchFacts
<1>3. due = IF blocked THEN [status |-> "error", rows |-> <<>>]
            ELSE IF total > MaxOffset THEN [status |-> "panic", rows |-> <<>>]
            ELSE [status |-> "ok", rows |-> answers]
  BY DEF Due, call
<1>4. CASE WrongType
  <2>1. row \in DOMAIN cells /\ cells[row] # {} /\ batch.type \notin Readable
    BY <1>1, <1>4, BatchFacts DEF WrongType, InLoop, IInv
  <2>2. due = [status |-> "error", rows |-> <<>>]
    BY <1>3, <2>1
  <2> HIDE DEF due
  <2> QED BY <1>2, <1>4, <2>2 DEF WrongType, Return, due
<1>5. CASE Overflow
  <2>1. /\ row <= Len(cells) /\ batch.type \in Readable
        /\ \E m \in cells[row] : written + Weight(call, m) > MaxOffset
    BY <1>5 DEF Overflow, InLoop
  <2>2. Lengths(call, batch)[row] > MaxOffset
    BY <1>1, <2>1, NextLength DEF DueInv
  <2>3. total > MaxOffset
    <3>1. /\ Lengths(call, batch)[row] \in Nat /\ total \in Nat
          /\ Lengths(call, batch)[row] <= total /\ MaxOffset \in Nat
      BY <1>1, <2>1, NextLength, BatchFacts
    <3> QED BY <2>2, <3>1
  <2>4. due = [status |-> "panic", rows |-> <<>>]
    BY <1>3, <2>1, <2>3
  <2> HIDE DEF due
  <2> QED BY <1>2, <1>5, <2>4 DEF Overflow, Return, due
<1>6. CASE Publish
  <2> DEFINE rows == [n \in DOMAIN valid |-> RowAt(n)]
  <2>1. row > Len(cells) /\ Return("ok", rows)
    BY <1>6 DEF Publish
  <2>2. row - 1 = Len(cells)
    BY <1>1, <2>1, BatchFacts DEF IInv
  <2>3. DOMAIN valid = DOMAIN cells
    <3>1. DOMAIN valid = 1 .. row - 1
      BY <1>1, SeqFacts DEF IInv, Filled
    <3> QED BY <1>2, <2>2, <3>1
  <2>4. \A n \in DOMAIN cells : RowAt(n) = Answers(call, cells[n])
    BY <1>1, <1>2, <2>2 DEF IInv, Filled
  <2>5. rows = answers
    BY <2>3, <2>4
  <2>6. ~ blocked
    BY <1>1, <1>2, <2>2 DEF IInv, Filled
  <2>7. ~ (total > MaxOffset)
    <3>1. written = total
      BY <1>1, <2>2 DEF DueInv
    <3>2. written \in Nat /\ written <= MaxOffset /\ MaxOffset \in Nat
      BY <1>1, BatchFacts DEF IInv
    <3> HIDE DEF total
    <3> QED BY <3>1, <3>2
  <2>8. due = [status |-> "ok", rows |-> rows]
    <3> HIDE DEF due, blocked, total, answers, rows
    <3> QED BY <1>3, <2>5, <2>6, <2>7
  <2> HIDE DEF due, rows
  <2> QED BY <1>2, <2>1, <2>8 DEF Return, due
<1> QED BY <1>4, <1>5, <1>6

-----------------------------------------------------------------------------
(* Whatever the column and the calls, the builders show every row its own    *)
(* answer while they are filled (process() of every scalar).                *)
THEOREM BuildersInvariant == Spec => []IInv
BY BatchInit, BatchNext, PTL DEF Spec

(* In particular its types: every builder has one entry per row done, list  *)
(* boundaries never go back, and no builder is past its largest offset.     *)
THEOREM TypeCorrect == Spec => []TypeOK
<1>1. IInv => TypeOK
  <2> SUFFICES ASSUME IInv PROVE TypeOK
    OBVIOUS
  <2>1. DOMAIN ends = 1 .. Len(ends)
    BY SeqFacts DEF IInv, Filled
  <2>2. \A n \in DOMAIN ends : /\ ends[n] <= Len(values)
                               /\ n > 1 => ends[n - 1] <= ends[n]
    BY <2>1 DEF IInv, Filled
  <2>3. written <= MaxOffset
    BY BatchFacts DEF IInv
  <2> QED BY <2>2, <2>3 DEF TypeOK, IInv, Filled, Returned
<1> QED BY <1>1, BuildersInvariant, PTL

(* A call that returns "ok" has published for every row the answer to that  *)
(* row's cell and to no other, NULL for NULL; a call that fails publishes   *)
(* no row, and "error" means exactly that a cell to be read has a type that *)
(* nobody can read (arrow_io.rs:31-51 and process() of every scalar).       *)
THEOREM RowsAreTheirOwn ==
  Spec => [](\A p \in 1 .. Len(results) : Owed(Calls[p], results[p]))
<1>1. IInv => \A p \in 1 .. Len(results) : Owed(Calls[p], results[p])
  BY DEF IInv, Returned
<1> QED BY <1>1, BuildersInvariant, PTL

(* On every row of every column, in whatever order the functions are        *)
(* called: a type is recognized exactly when the triage verdict is "ok",    *)
(* conditions and authn are NULL structs exactly when the message could not *)
(* be read, everything else shows defaults then, and decode and             *)
(* message_type name one type (api.rs against wellformed.rs).               *)
THEOREM ViewsAlwaysAgree == Spec => []ViewsAgree
BY BuildersInvariant, ViewsFromInvariant, PTL

(* Batch implements Report: every call returns, one after the other and once, *)
(* what is due to it, failures included: a call fails exactly when a cell    *)
(* cannot be read or when the answers are longer than a column can hold.     *)
THEOREM Implements == Spec => Abstract!Safety
<1>1. Init => Abstract!Init /\ DueInv
  BY BatchInit DEF Init, Abstract!Init, DueInv
<1>2. DueInv /\ [Next]_vars => [Abstract!Next]_(Abstract!vars)
  <2> SUFFICES ASSUME DueInv, [Next]_vars PROVE [Abstract!Next]_(Abstract!vars)
    OBVIOUS
  <2> USE DEF Abstract!vars
  <2>1. CASE WrongType \/ Overflow \/ Publish
    BY <2>1, ReturnsDue DEF Abstract!Next, Abstract!Publish, TotalCalls
  <2>2. CASE Start \/ AppendNull \/ AppendAnswer \/ UNCHANGED vars
    BY <2>2 DEF Start, AppendNull, AppendAnswer, vars
  <2> QED BY <2>1, <2>2 DEF Next
<1> QED BY <1>1, <1>2, LengthsPreserved, PTL DEF Spec, Abstract!Safety
=============================================================================
