# A TLA+ development of saml-core and saml-worker

This directory holds TLA+ models of the SAML forensic engine of this repository
(`crates/saml-core`) and of the worker around it, the TLC configurations that
check them on small instances, and TLAPS proofs about them for all instances.
File and line references below are to the sources under `crates/`.

The engine is sequential. Its difficulty is not concurrency but *agreement*:
several passes over one untrusted document resolve elements separately
(the verifier by Reference ids, the reader by "the first assertion"), each with
its own loop, accumulators and fallbacks, and the product is a set of flags
that a caller may act on. The models therefore follow the code's loops one turn
per step, keep its control (order, guards, early returns, accumulators), and
abstract its data: hashes and signatures are ideal, names come from small sets.

## Inventory

| Component (source) | State it keeps | Operations | What is hard | What makes it correct |
| --- | --- | --- | --- | --- |
| Document model (`xml.rs`, `xmlutil.rs`, roxmltree) | the parsed tree | parse, descendants, ancestors, children, IDs, text | nesting, duplicate IDs, comments inside text | navigation returns the first match in document order |
| Canonicalization (`c14n.rs`) | stack of rendered namespaces, output | `exclusive_c14n`, `write_node`, `write_element` | sibling state, omitted subtree, prefixes | octets depend on the kept subtree only; comments are dropped |
| Signature analysis (`signature.rs`) | per-signature accumulators, rows | `analyze`, `signature_info`, `signature_rows`, `scope_of` | first-wins values from different References, dangling ids | each row is the declarative analysis of its signature; a row that verifies names one element |
| Detection (`detect.rs`) | flag set, covered ids, response-signed | `anomalies` | facts gathered over all signatures, compared with the reader's choice | no flag depends on the loop or on the order of signatures; silence means verifier and reader agree |
| Certificates (`cert.rs`) | none | `parse_cert`, `SigAlgo`, `digest_by_uri`, `verify` | unsupported algorithms | an unsupported method never verifies |
| Transport (`transport.rs`) | attempt, decoder, output buffer | `normalize`, `unwrap`, `b64decode`, `inflate` | nested fallbacks, inflate cap, which error is reported | accepts exactly the documented shapes within the cap, and ends |
| Time (`time.rs`) | none | `parse_xsd_datetime`, `days_from_civil` | truncating division, leap rules, partial validation | the day number is the calendar's |
| Decoding (`message.rs`, `attributes.rs`, `conditions.rs`, `authn.rs`) | output record or rows | `decode`, `attributes`, `assertion_rows`, `conditions`, `authn` | fallback order of fields, first of several elements | the views agree with each other |
| Byte-level API (`api.rs`, `wellformed.rs`) | none | one total function per catalog function | error paths | failure gives the default, never an abort |
| Worker (`arrow_io.rs`, `scalar/*.rs`) | column builders | `process` of thirteen scalars | NULL cells, wrong column types, builder alignment | one output row per input row |
| Startup (`lib.rs`, `main.rs`, `meta.rs`) | environment variable, catalog | `catalog_name`, `build_worker` | set once before serving | constant registration |
| Test-vector generator (`tests/vectors/_generate.py`) | messages | sign, wrap, tamper, duplicate, splice | order of alterations | the environment of the detector |

Interactions are calls: worker `process` → `api` → `transport::normalize` →
`xml::parse` → one analysis; `detect` and `signature` share `analyze`, which
calls `c14n` and `cert`; `message::decode` reads the same document without
looking at signatures. Nothing is shared between two calls, and nothing is
persisted. The hazards are listed, each at its line, in `PROJECT.json`.

## Modules

| Module | Models | Kind |
| --- | --- | --- |
| `SamlDocument` | parsed documents as interval-encoded trees; navigation; what canonical octets contain; the subject `decode` shows | operators |
| `Dsig` | what `analyze` reports of one signature, declaratively | operators |
| `Promises` | the condition each flag of `anomalies` stands for and the rows of `signatures`, over the whole document | operators |
| `Verdict` | a judge: the document is judged once, with its meaning (a parameter) | abstract specification |
| `Detect` | `anomalies` as it runs: structure, loop over signatures, closing comparison | state machine, refines `Verdict` with the flags of `Promises` |
| `Report` | a report: rows in order, each published once (entries and their number are parameters) | abstract specification |
| `Signatures` | `signature_rows` and `analyze` as they run, Reference by Reference | state machine, refines `Report` with the rows of `Promises` |
| `Signing` | building, editing and signing documents | operators |
| `Forensics` | issuing, altering, then analyzing a message (composes `Signing`, `Detect` and the decoded subject) | state machine |
| `Transport` | `normalize`/`unwrap` with sniffs, two attempts, two decoders and the cap | state machine |
| `Api` | `api.rs`, the triage verdict and the classification of parse errors | operators |
| `Batch` | `process` of the thirteen scalars over a column: row loop, builders, failures | state machine, refines `Report` with one outcome per call |
| `C14n` | `exclusive_c14n` as it walks: namespace lookups, the stack of rendered declarations | state machine, refines `Verdict` with the octets of a stack-free definition |
| `Decode` | `decode`, `assertion_rows`, `attributes`, `conditions` and `authn` as they read one message | state machine, refines `Report` with the rows of `attributes` |
| `Calendar` | `days_from_civil` against the turning calendar | state machine |
| `XsdTime` | `parse_xsd_datetime`, on every page of `Calendar` | operators and properties of `Calendar` |
| `Corpus`, `MCDetect`, `MCSignatures`, `MCForensics`, `MCTransport`, `MCCalendar`, `MCBatch`, `MCC14n`, `MCDecode` | instances for TLC | model checking |
| `DocumentLemmas` | about documents: intervals, order, the digested octets, the decoded subject | lemmas |
| `ForensicsProofs`, `SignaturesProofs`, `DecodeProofs`, `TransportProofs`, `C14nProofs`, `CalendarProofs`, `BatchProofs` | each about the component it is named after (`ForensicsProofs` about `Detect` too, `CalendarProofs` about `XsdTime`) | theorems |

### How state and actions correspond to the code

*Documents.* Node `i` of a document is a record and its descendants are the
`size - 1` nodes after it, so ancestry is interval inclusion and "first in
document order" is the least index. Text is the concatenation of the direct
text children, which is what `xmlutil::text` returns whether or not a comment
splits it. A Signature carries the content of its SignedInfo, its certificate's
key and its SignatureValue as data rather than as nodes. `URI="#id"` is the
id, `URI=""` and `URI="#"` are `NoId`, as after `strip_prefix('#')`.

*Ideal cryptography.* A digest is the pair of its method and the octets; a
signature value is the pair of its key and the SignedInfo. Octets are the kept
nodes of a subtree in order, each with the number of kept nodes below it.

*Detect.* `pc` is where `anomalies()` is; `pending` is what the `for sig in
&sigs` loop has left; `flags`, `signed_assertion_ids` and `response_is_signed`
are the code's variables. `Structure` is everything before the loop,
`VisitSignature` one turn with the whole of `analyze` and every flag of the
turn, `Close` everything after it.

*Signatures.* `sig`, `k` and the four accumulators are the locals of
`analyze()`. `CheckReference` is one turn of the Reference loop, `Emit` is the
rest of `analyze()` together with the row that `signature_rows` builds.
`signed_element` keeps the node where the code keeps its local name; the scope
and the flags only use the name.

*Forensics.* `Wrap`, `Rewrite`, `Duplicate`, `Splice` and `Strip` are the
alterations of `_generate.py`, on any node; `Lift`, `Redigest` and `Resign` are
the environment's. They happen before the analysis starts, in any order.

*Transport.* A wire value is the list of encodings around a payload. A decoder
undoes the layer it is for; given other bytes it may put out any number of
blocks and then fail. `taken` is the decoder's position, `out` the length of
the buffer in `inflate_with`; both are new for the zlib fallback. `Fail` is the
path from a failed attempt to the URL-decoding attempt or to the returned error.

*Api.* A message is how far it gets (normalized, parsed, recognized) and how many
entries each list about it has; what the entries say is the business of the
other modules. Each function has its own default on failure, as in the code.

*Batch.* `heads` is the builder of a function's fields, `values` and `ends` are
its list builder, `valid` the null bits; `ends` holds where each row's part of
the values stops, as an Arrow list does, so a row that is not appended shifts
every later one. Several child lists of one struct are one here. `written` is
the length of the longest string builder. `AppendNull`, `AppendAnswer`,
`WrongType` and `Overflow` are the four ways through one turn of the row loop;
`Publish` finishes the columns and reads them back (`RowAt`). The calls are
independent, so they are made one after the other. That a builder panics when
it runs out of 32-bit offsets is arrow's documented behaviour, not code of this
repository; what the call then owes is stated in `Due`.

*C14n.* `at` is the node `write_node` is called with next; the recursion is the
stack `open`, whose entries are the frames of `write_element` with their
`base_len`; `rendered` and `out` are the code's. `OpenElement` is
`write_element` up to its children, `CloseElement` the rest, `Skip` and
`WriteContent` are `write_node` on everything else. An optional value is a set
of at most one. The declarations of one start tag and its attributes are sets:
the code sorts both, by keys that do not repeat, so the order carries nothing.
The lookups of roxmltree (`Namespaces`, `lookup_prefix`) are modelled from its
documented behaviour: own declarations first, then what the parent has and the
element does not override. A declaration is named by its place, `<<node, index>>`.
The definition it is compared with, `Octets`, has no walk: every tag is keyed by a
pair of numbers (node and 0 for what a node begins with, last node of the subtree
and size for an end tag), and `InOrder` lists tags by their keys.

*Decode.* Each action of `Decoding` is one block of `decode()`, each of `Listing`
one turn of a loop of `assertion_rows` or `attributes` (`stmts`, `attrs` and
`vals` are what the three nested loops have left); `conditions` and `authn` are
one step, they have no order to get wrong. One value, `attr`, stands for the
attributes of an element that are read alike and together. Names of roots that
end in "Response" are the three of `message_type`. The functions are called one
after the other on the same document; in the worker each parses it anew.

*Calendar.* The pages of the calendar are turned one day at a time and counted;
the formula is compared on every page.

*XsdTime.* A stamp is the string cut at the columns the parser cuts it at, with
the numbers that `str::parse` reads there (a sign is allowed, so `-1` is one).
An instant is day, second of the day and microsecond; the code's one `i64`
is that in mixed radix, and TLC's integers have 32 bits. `Shows` reads an
instant back without the parser's arithmetic: seconds since the midnight of the
turning calendar's page.

Operators whose names carry a suffix after an underscore (`Keep_Last`)
are defective variants of the operator that follows them. They belong to no
specification: each one replaces its operator to confirm that a property notices.

## Runs

| Run | Instance and bounds | Shows |
| --- | --- | --- |
| `detect` | `Corpus`: one or two assertions, bare or in a response, each with or without its own signature, times a second signature at each place (before, after, under Extensions, around the assertion, on an outer element with the same id), ten kinds of SignedInfo, one with a digest method that is not implemented; sealed, or altered after sealing | `TypeOK`; `ConsumerVerifierAgreement`; `OnlyGrows`; `ImplementsVerdict` |
| `signatures` | the same messages | `TypeOK`; `RowNamesOneElement`; `EverySignatureReported`; `ImplementsReport` |
| `forensics` | one vouched and one other name, four shapes of issued message, `MaxEdits = 4` | `TrustedSubject`; `SplitSubjectsAreFlagged`; `CommentsLeaveDigests` |
| `transport` | every list of at most four layers that callers produce (`Encodings` under at most two URL-encodings), four payloads, sizes 0 to cap + 1 with a cap of 3 blocks, both entry points | `TypeOK`; `AcceptsExactlyTheSupportedShapes`; `InflatedOutputIsWhole`; `Terminates` |
| `calendar` | 48000 days in both directions from 1970-01-01, 0000-01-01 and -0400-03-01; on the first and last day of every month, stamps of that day, the day before the first and the days up to 32 that the month lacks, in January and December of months 0 and 13 too, at eight times of day (hour 24, minute 60, second 60 and 61, negative numbers), with four fractions (one with a character that is no digit) and nine zones (hour 24, minute 60): each check has a value on either side | `FormulaCountsDays`; `StampsNameInstants`; `RefusedOrCarried` |
| `c14n` | one tree of nine nodes: an ancestor and a following sibling outside the subtree, a child with a child and a text, a comment, a processing instruction, a later sibling; four sets of declarations around it (two of them with a namespace under two names), every way of using, redeclaring and undeclaring the default namespace and a prefix on three levels; attributes with a prefix, without, and with `xml:`; whole, with an omitted grandchild, and with a PrefixList | `TypeOK`; `BindingsInForce`; `LiftInvariance`; `NamesSurvive`; `ImplementsVerdict` |
| `decode` | one assertion with and without each of its parts, bare or in a response with and without issuer, status and InResponseTo; another assertion after it, before it, in its Advice or inside an attribute value; attributes with no, one, two and empty values in one or two statements; messages without an assertion | `TypeOK`; `FirstRowIsDecoded`; `ViewsAgree`; `FieldsSettle`; `ImplementsReport` |
| `batch` | columns of up to three cells (two for a column of the wrong type) over NULL and ten messages: one per stage of failure, lists of 0, 1 and 2 entries, with both, one and none of the elements that `conditions` and `authn` look for, codecs that succeed and fail; all thirteen functions; two long messages exceed `MaxOffset = 3` | `TypeOK`; `ViewsAgree`; `ImplementsReport` |
| `detached`, `self_signed`, `outermost`, `unreal_dates` | as `detect`, `signatures`; 100 days in both directions from 1970-01-01, stamps at noon UTC | four statements of comments and of the README that the code does not keep (see Findings) |

Why the bounds are enough. A flag of `detect.rs` depends on at most two
assertions and two signatures at a time, and a Reference list longer than two
adds only repetitions of "first wins" and "all must hold"; the corpus holds
every relation between a signature, its target and the assertion that is read:
same, above, below, beside, duplicate, dangling. Four edits suffice to put an
unsigned copy before the assertion, rewrite it, re-digest and strip a
signature. The cap is compared with sizes on both sides, and the wrong decoder
may run into it. Three rows are enough for a row to be
shifted by one before it and to shift one after it. The three stretches of the calendar hold a change of era, both
signs of the shifted year, and leap, centennial and 400-year rules.
In `c14n`, a declaration can be left over from a closed child, from an omitted
element, or leak in from outside, and each has a later element that would
notice; two levels are the least at which "innermost" and "outermost" binding
differ, and the tree has three. `decode` has a second assertion on every side
of the first, so each "first" and "anywhere" has a wrong candidate.

`Detect`, `Signatures`, `Transport`, `Batch`, `C14n` and `Decode` end, so their
runs do not check deadlock; `ImplementsVerdict`, `ImplementsReport` (all but
`Decode`'s), `EverySignatureReported` and `Terminates` say that they end, and
end in the right place. `Forensics` stops at a bound (`MaxEdits`);
`Calendar` can always turn back.

Fairness. `Detect`, `Signatures`, `Transport`, `Batch` and `C14n` assume weak
fairness of their whole next-state relation: the code is a loop of one thread
that blocks on nothing, so it takes its next step. `ImplementsVerdict` of `C14n`
states the judge's fairness as `<>done`, the end of the walk. `Forensics`, `Calendar`
and `Decode` need none, since only safety is asked of them: that `attributes`
misses no row is asked of the state in which it has returned.

### The properties that matter most

* `ConsumerVerifierAgreement` (`Detect`): when `digest-mismatch`,
  `reference-uri-id-mismatch` and `signature-covers-other-element` are all
  silent and a Reference covers an assertion, then the assertion `decode` reads
  is the only element with the id of a verified Reference and lies, with its
  subject, inside the octets that were digested.
* `TrustedSubject` (`Forensics`): the same, end to end: no sequence of edits of
  an issued message leads past these flags to a subject the provider did not
  vouch for, as long as the caller also requires every signature to be the
  provider's valid one. Without the last condition the property fails, as the
  README's trust-table `JOIN` suggests it should.
* `ImplementsVerdict` (`Detect`), `ImplementsReport` (`Signatures`): the loops
  with their accumulators give what `Promises` states of the whole document, with
  no loop. For eight flags that is what the comments of `detect.rs` say. For
  `detached-signature` and `unsigned-assertion-in-signed-response` it is the
  condition the code tests (`SomeNotEnveloped`, `SomePayloadBare`), which is not
  the one its comments give: see `detached` and `self_signed` below.
* `AcceptsExactlyTheSupportedShapes` (`Transport`): which messages can be read
  at all, over the whole chain of fallbacks.
* `ImplementsVerdict` (`C14n`): the stack of rendered declarations, pushed and
  truncated along the walk, produces the octets of the definition of exclusive
  canonicalization, which looks at ancestors only.
* `BindingsInForce` (`C14n`): all along the walk, and not only in the octets it
  ends with, a utilized prefix is bound in the output as the source binds it, and
  no declaration outlives the elements that utilize its prefix.
* `LiftInvariance` (`C14n`): these octets are those of the subtree standing
  alone, which is why a lifted assertion keeps its signature.
* `NamesSurvive` (`C14n`): read back, the octets mean the elements and attributes
  of the document, also where an attribute's prefix had to be guessed.
* `FirstRowIsDecoded`, `ViewsAgree` (`Decode`): the five views of a message,
  which look for its parts in different ways, agree on the first assertion, and
  under which condition: `conditions()` and `authn()` search the whole document,
  so an assertion nested in Advice comes before the outer one's AuthnStatement.
* `StampsNameInstants`, `RefusedOrCarried` (`XsdTime`): a legal timestamp is
  accepted and names its instant; of the others, one with a field past its range is
  refused, and what is left (2026-02-30, hour `-1`) is carried over, never
  wrapped or clipped. That it should have been refused is the finding
  `unreal_dates`.
* `ImplementsReport` (`Batch`): a failure takes either its own row or the whole
  call, never a neighbour: columns read back as the answers to their own cells.
* `ViewsAgree` (`Batch`): how to tell a default from a finding. A type is
  recognized exactly when `well_formed` says `ok`; a NULL struct of `conditions` or
  `authn` means that the message could not be read, and a struct of defaults
  that it was read and has no such element; every other function shows its
  default when the kind is neither `ok` nor `not-saml`.

### Findings

* `detached`: `detect.rs:118-120` calls a signature detached when its target is
  neither an ancestor nor a descendant; lines 125-126 test the same relation
  twice, so an enveloping signature is flagged as well.
* `self_signed`: `detect.rs:160-161` asks for a Signature child that references
  the assertion; lines 162-168 accept any Signature child.
* `outermost`: README line 110 speaks of the outermost signature;
  `signature.rs:216` takes the first in document order.
* `unreal_dates`: `time.rs:8-9` promises `None` for what is no well-formed
  timestamp; line 31 accepts day 31 in every month, so 1969-11-31 and 2026-02-30
  are read, and line 34 has no lower bounds, so an hour of `-1` is too.

Observed while modelling, without a run:

* `c14n.rs:99` and `176` look an attribute's prefix up from its namespace URI,
  where the element's own prefix is read from the source. When two prefixes in
  scope have that URI the attribute is written under the one found first; when
  it is the default namespace too, possibly under none. The digest of such an
  element differs from the signer's. `Unambiguous` and `DefaultShadowsAttribute`
  delimit the inputs, and the `c14n` run contains both kinds.
* `attributes.rs:1` and README line 114 say one row per AttributeValue; an
  Attribute without values has a row too (lines 24-34), with a NULL value.
* `scalar/authn.rs:53` says that `authn` "Returns NULL when there is no
  AuthnStatement"; `authn.rs:11-16` returns the default struct, so the row is a
  struct whose fields are NULL (`conditions.rs:12-17` alike).
* `scalar/fanout.rs:92-95` and `scalar/well_formed.rs:38-40` give `not-saml` as the
  kind of `well_formed('not a saml message')`. That text is not XML and, without
  its blanks, not base64 either: `transport.rs` reports `bad-base64`.
  `not-saml` is the kind of XML with another root.
* `transport.rs:102` says `normalize` returns "the most specific `WfKind` on
  failure". Line 131 returns the first attempt's: of a URL-encoded wrapper whose
  base64 is right but whose content is not (no UTF-8, no DEFLATE, no XML), the
  kind is `bad-base64`, though the second attempt got past base64.
* `api.rs:4-5` says that `saml-core` never panics. `Batch`'s `Overflow` is a panic of
  the worker: a column builder of arrow that runs out of 32-bit offsets.
* `xmlutil.rs:39` says attributes are trimmed; the value is returned as it is.
* `message.rs:64-66` resets `response_id` under a root Assertion, where it was
  never set.
* Of `xs:dateTime`, `24:00:00` is refused; second 60, offsets past 14:00 and
  anything after the `Z` are accepted.

## Proofs

All theorems hold for every value of the constants: documents of any size,
any number of signatures, References, alterations, encodings, rows and calls,
dates of any year.

| Module | Theorem | Property | Establishes |
| --- | --- | --- | --- |
| `ForensicsProofs` | `TypeCorrect` | `TypeOK` | The detector's loop only ever waits on signatures of the document and inserts documented flags. |
| `ForensicsProofs` | `LoopInvariant` |  | The inductive invariant: the accumulators hold exactly the contributions of the signatures visited so far. |
| `ForensicsProofs` | `Agrees` | `ConsumerVerifierAgreement` | For every document: when the coverage flags are silent and an assertion is covered, the assertion and subject decode() shows lie in the octets of a verified, unambiguous Reference. |
| `ForensicsProofs` | `Grows` | `OnlyGrows` | No step of the pass takes back a flag, a covered id or the fact that a response is signed. |
| `ForensicsProofs` | `VerdictIsExact` |  | Whenever the pass has ended, on any document with any number of signatures in any order, its flags are those of the whole document judged at once: ten conditions without loop or accumulator. For eight flags the condition is the one detect.rs documents, for detached-signature and unsigned-assertion-in-signed-response the one it tests (the findings say where the comments differ). |
| `ForensicsProofs` | `Implements` |  | Detect implements the safety part of Verdict: a step of the pass judges the document, once, with the flags whose condition in Promises holds of it, or is a stutter of the judge. |
| `SignaturesProofs` | `LoopInvariant` |  | The inductive invariant of the References loop: its accumulators are those of the References already read, and the rows those of the signatures already taken. |
| `SignaturesProofs` | `TypeCorrect` | `TypeOK` | The loop index stays within the References of a signature of the document, whatever the documents are. |
| `SignaturesProofs` | `RowsNameOneElement` | `RowNamesOneElement` | For every document and any number of References: when digest_ok holds, the row's id resolves to the row's element. |
| `SignaturesProofs` | `Implements` |  | The loops implement the safety part of Report: every step publishes the next row of the declarative analysis or is a stutter. |
| `SignaturesProofs` | `ReportIsComplete` |  | When signature_rows returns it has published one row per signature. |
| `TransportProofs` | `StageInvariant` |  | The inductive invariant: what each stage of unwrap and normalize knows of the layers already taken off, and of the decoder's progress. |
| `TransportProofs` | `TypeCorrect` | `TypeOK` | Types and the cap on the output, for every wire value and every cap. |
| `TransportProofs` | `InflatesWhole` | `InflatedOutputIsWhole` | For wire values of any number of layers: what comes out inflated is a whole stream within the cap. |
| `TransportProofs` | `AcceptsExactly` | `AcceptsExactlyTheSupportedShapes` | For wire values of any number of layers: unwrap gives XML exactly for the supported shapes. |
| `CalendarProofs` | `FormulaIsExact` | `FormulaCountsDays` | On every day the odometer reaches, without a bound on the year, the closed formula is the day count, provided it is at the origins. |
| `CalendarProofs` | `LegalStampsNameInstants` | `StampsNameInstants` | Every legal timestamp, with any fraction and zone, is parsed to the instant it shows. |
| `CalendarProofs` | `OtherStampsAreCarried` | `RefusedOrCarried` | Whatever the year, zone and fraction: what is no legal timestamp is refused when a field is past its range, and is else the instant its fields add up to. |
| `DecodeProofs` | `Invariant` |  | The inductive invariant of decode and its sister functions: what each stage has read, the nesting of the attribute loops and what they have left. |
| `DecodeProofs` | `TypeCorrect` | `TypeOK` | The loops of attributes stay nested and count every statement, for every document. |
| `DecodeProofs` | `FieldsAreSettled` | `FieldsSettle` | No step of decode replaces a field an earlier step has found. |
| `DecodeProofs` | `FirstRowDecoded` | `FirstRowIsDecoded` | For every document the first row of assertions() is the assertion decode() shows. |
| `DecodeProofs` | `ViewsAlwaysAgree` | `ViewsAgree` | For every document in which the first assertion owns the first conditions and authn statement, conditions() and authn() show what decode() shows. |
| `DecodeProofs` | `Implements` | `ImplementsReport` | attributes() publishes, for every document, one row per AttributeValue and per empty Attribute, in order, each under its own statement and name, and none is missing when it returns. |
| `ForensicsProofs` | `AlterationsKeepInvariant` |  | Every alteration of a document, in any order and number, is a document, and Detect's invariant holds of its analysis. |
| `ForensicsProofs` | `AlteredTypesCorrect` | `TypeOK` | One root, nested subtrees, comments without children, after any number of alterations. |
| `ForensicsProofs` | `SplitSubjectsAlwaysFlagged` | `SplitSubjectsAreFlagged` | A decoded subject split by a comment is flagged, whatever was done to the message. |
| `ForensicsProofs` | `AlteredMessagesAgree` | `ConsumerVerifierAgreement` | What silence about coverage means for issued messages it means after any alterations. |
| `ForensicsProofs` | `CommentsNeverShow` | `CommentsLeaveDigests` | A comment put into any NameID of any message leaves the octets of every subtree, and so every digest and signature verdict, as they were. |
| `ForensicsProofs` | `OnlyIssuedSubjects` | `TrustedSubject` | For every document, in any number of alterations: silent coverage flags and signatures that are all the provider's mean that the decoded subject is one it signed. |
| `C14nProofs` | `Invariant` |  | The inductive invariant of the serializer: at every depth of the walk, not only the last, the declarations pushed up to that depth agree with the elements open up to it. |
| `C14nProofs` | `TypeCorrect` | `TypeOK` | For every document: open elements are nested, base_len is within the stack and grows with depth, and no start tag declares a prefix twice. |
| `C14nProofs` | `InForce` | `BindingsInForce` | For every document, omitted node and PrefixList: what is bound in the output is what the source binds at the innermost open user of the prefix, and nothing outlives its users. |
| `C14nProofs` | `WalkInvariant` |  | The second invariant, of what is written: at every moment the octets so far are the tags that precede the next one in the definition's order, and each start tag declares what follows from the source's elements around it. |
| `C14nProofs` | `Implements` |  | The serializer implements the safety part of Verdict: wherever no prefix is guessed, a walk that ends has written the octets of the definition of exclusive canonicalization, which knows neither stack nor walk, and every other step is a stutter. |
| `C14nProofs` | `Lifted` | `LiftInvariance` | For every document in which no prefix is guessed: the octets are those of the subtree as a document of its own, whatever else its context declares. |
| `C14nProofs` | `Names` | `NamesSurvive` | For every document: read back on their own, the octets give every kept element and attribute the namespace it has in the document, also where the prefix was guessed, unless an attribute's namespace is also the default. |
| `BatchProofs` | `BuildersInvariant` |  | The inductive invariant: the builders' rows are one to one with the cells done, the list builder holds their answers end to end, and no call that has returned or failed did so without cause. |
| `BatchProofs` | `TypeCorrect` | `TypeOK` | One builder row per cell done, ends in order, for every sequence of calls and columns of any length. |
| `BatchProofs` | `RowsAreTheirOwn` |  | Every call that returned rows returned, in each row, the answer to its own cell, and a call that failed had an unreadable column or too long a builder. |
| `BatchProofs` | `ViewsAlwaysAgree` | `ViewsAgree` | On every row of every column: a type is recognized exactly when the verdict is ok, conditions and authn are NULL structs exactly when the message could not be read, every other kind than ok and not-saml goes with defaults only, and decode and message_type name one type. |
| `BatchProofs` | `Implements` |  | The row loops implement the safety part of Report: each step reports the owed outcome of the next call or is a stutter. |

### Assumptions

They are named `ASSUME`s of the modules, so TLC evaluates them on every run.

* `Documents` of `Detect` and `Decode` hold documents (`IsDocument`: nested
  intervals with one root). In those of `Detect` and `Signatures` only a Signature
  node holds signature data (`SignaturesInPlace`), and for `Signatures` its list
  of References is a sequence.
* `ForensicsAssumption`: nodes have the fields of a node, and whatever an issued
  message holds that was signed with the provider's key decodes to a subject the
  provider vouches for (`HonestlySigned`). That is what "issued" means. That it
  stays true is not assumed but proved: an alteration cannot make a signature
  value of the provider's key, it can only move one.
* `TransportAssumption`: inputs are lists of encodings around a payload, of any
  length. `StampAssumption`: the parts of a stamp are integers.
  `CalendarAssumption`: the known dates are dates. That the formula is right at
  these dates (`OriginsAgree`) is a hypothesis of the theorems; `EpochAgrees`
  discharges it for 1970-01-01, from which every date is reached.
* `InputsAssumption` of `C14n`: what is serialized is a node of a parsed document
  (`IsInput`): subtrees are nested, only elements have children, attributes and
  PrefixList are finite, and the document has passed the parser, which refuses an
  element that declares a prefix twice, another `xml` prefix, and an attribute
  whose prefix nothing binds. That no prefix is undeclared (`PrefixesStay`;
  `xmlns:p=""` is not allowed in XML namespaces 1.0) is not assumed of inputs; it is a
  premise of `NamesSurvive` and part of `Unambiguous`.
* `BatchAssumption`: a cell holds at most one message, its counts and sizes are
  naturals, and `normalize` reports one of its four kinds (`TransportErrors`).

### The arguments

*Detect.* `ConsumerVerifierAgreement` is not inductive: it speaks of the
end of the pass only. The invariant `LoopInv` says that at any moment the
accumulators are exactly what the visited signatures contribute (`FlagsOf`,
`IdsOf`, `SignsResponse` over `Visited`). It is preserved because a turn adds
one signature to `Visited` and its contribution to each accumulator. At the end
everything is visited; from the silence of the flags, a covered id equal to the
first assertion's, and the uniqueness of that id, the verified Reference
resolves to that very assertion. That its subject is in the octets needs facts
about trees, in `DocumentLemmas`: subtrees are intervals, two nodes inside each
other are equal, what contains a child of a node contains the node, and so the
omitted Signature, a child's name apart from `Subject` and `NameID`, cannot
hold the subject. `Implements` uses the same invariant with everything visited.
What remains is about documents: the union of what single signatures
contribute, with the structural and the closing flags, is `Anomalies(doc)`, one
lemma per flag. That `Detached`, which tests ancestors and then descendants, is
the one condition `SomeNotEnveloped` is a lemma too (`DetachmentAsTested`).

*Signatures.* The invariant places the two loops: signatures begun precede those
pending, a row stands for each one finished, and the accumulators are those of
the first `k - 1` References, where "the element of the first Reference that
resolved" is stated without the loop. A signature is the nth because n - 1
precede it, which is how `Promises` numbers rows.

*Forensics.* First, every alteration makes a document of a document (`InsertKeeps`,
`DeleteKeeps`, `RelabelKeeps`: intervals above the change grow or shrink by as much as
was put in or taken out), so `Detect`'s invariant survives them and its
agreement theorem speaks of what arrives. Trying to prove it showed that `Strip`
must not strip a root: no document would be left.
`CommentsLeaveDigests` is an isomorphism: a spliced comment moves the nodes
behind it by one, and octets count kept nodes only. `TrustedSubject` adds to the
invariant that the document is `HonestlySigned`. Then the argument runs from the end:
silent flags give a verified Reference whose octets hold the decoded subject
(`SubjectsAreTrusted`); its digest is over the octets signed, the signature
is the provider's, so the signed octets decode to a vouched subject; and the
octets decode to what the document shows, because canonical octets determine
parents, first children and text (`DecodedAsRead`).

*Decode.* The invariant gives the value of every field already read and the
default of the others, stage by stage, and keeps the three attribute loops
nested. `ViewsAgree` then is about documents: the first element of a name, searched
anywhere, is the first assertion's own when assertions own them all. Its hypothesis
`OwnedByAssertions` asks for such an element of the first assertion: without that, a
document with none would satisfy it and prove nothing. For the refinement of
`Report`, `RInv` adds what the loops have left (`Left`): the rows still due are an
upper part of the order of all rows due, by statement and then value, and as many
as are published are below it. Starting an inner loop leaves the same rows due; each
of the two actions that publish takes the least of them, since the values of one
attribute lie in its subtree, before the next attribute. So the row published is
the one that has as many before it, and no row is left at the end.

*Transport.* For each stage the invariant says which layers are off, that the
zlib attempt is only made when raw DEFLATE could not have succeeded, and that
the second attempt follows a first that was bound to fail. "Exactly the
supported shapes" is the case distinction this leaves at each return.

*C14n.* `BindingsInForce` is about the whole stack, and truncation leaves only a
part of it: when an element closes, the property says nothing of what is
uncovered. So the invariant (`Frames`) says it at every depth: the first `Top` declarations
agree with the first `l` open elements, for each `l`, and `Top` grows with `l`.
Opening adds one depth: a start tag declares each prefix once (the sets of `ToRender`
hold at most one uri of a prefix), so its declarations are the last of their
prefixes, and where it declares nothing the binding was right already. Closing drops
the last depth. That `current_binding`, which reads the stack from its end, is
the uri of the last declaration of the prefix is a lemma.

*C14n, the octets.* A second invariant, `WInv`, follows the walk through the
definition's order: `open` is the chain of kept ancestors of the next node, the
octets so far are the tags that precede the next one (`Printed`, `Ahead`), and each
start tag already written declares what the elements around it in the source
determine (`RenderedFor`). The last is where `IInv` is used: the binding in force
is that of the innermost open user of the prefix, so a start tag declares exactly
what differs from the nearest user above (`ToRenderIs`). A step writes the tag that
has as many before it as were written, so `InOrder` can be carried along: what is
at rank n is the nth tag. No recursion over the tree is needed, because both sides
speak of positions. When the walk ends every tag precedes the end, and the octets
are `Octets` if the prefix looked up is the one of the source (`Unambiguous`).
For `LiftInvariance` the subtree standing alone is the subtree shifted to 1. It has the
same tags in the same order, and every lookup of a utilized prefix finds the same
uri in it: a declaration above the apex is either among those collected at the new root or
was overridden below it. For `NamesSurvive` the reader of the octets sees tags only,
so the elements around a start tag are found by counting: between it and an
ancestor's start tag there are more starts than ends. That the nearest tag among
these that declares the prefix gives it the uri of the source follows from `RenderedFor`
by a nearest ancestor, again without induction over the tree.

*Calendar, XsdTime.* The formula splits into the days of the years before, which
differ by a leap day where the calendar has one, and of the months before;
truncating division is floor division once the era is shifted. So a turned page
adds one to both counts. The stamp's instant is a division with remainder,
done twice, and `Shows` undoes it. A month outside 1 to 12 never gets that far:
`RefusedOutOfRange` says that the early returns are exactly the fields past
their range.

*Batch.* The invariant reads the builders while they are filled: row n of those
appended already reads back as the answer to cell n. An append keeps that,
because it changes no list boundary before its own. For the refinement,
`written` is the prefix sum of the answers' lengths (`LengthsAddUp`), and
prefix sums only grow, so a call panics exactly when the whole column is too
long. These two facts are proved by a least counterexample, for which the
well-foundedness of `<` on Nat suffices.

### Model-checked only

* Liveness: `Terminates`, `EverySignatureReported`, and the fairness in the
  refinements (the theorems `Implements` are about `Safety` of the abstract
  specifications). The proof system has no rule for `WF` or `ENABLED` here.
  In `C14n` the safety part of `ImplementsVerdict` is the theorem `Implements`; that
  the walk ends is checked.
* The four disagreements under Findings, which are counterexamples.

## Not modelled, and why

* The parser, the codecs, hash functions, signature mathematics and certificate
  parsing are libraries; they appear as ideal operations.
* Escaping in canonical octets, and attribute values: a value is copied and
  escaped by itself. Namespaces are modelled in `C14n`; the octets of
  `SamlDocument` leave them out, as the documents there do not differ in them.
* The depth of the recursion of `c14n.rs:189`: no model has a call stack of
  limited size.
* Strings that `parse_xsd_datetime` refuses for their length or separators
  before it reads a field.
* Worker startup: `catalog_name()` reads and sets one environment variable
  before anything is served, and `build_worker()` registers thirteen functions
  and their catalog texts; there is no later change of that state.
* A key read from any `X509Certificate` below a Signature (`signature.rs:205`)
  is the signature's `cert`; documents with several certificates in one
  Signature are not distinguished.
* XML text that itself contains `%` escapes, which `unwrap` decodes, and bytes
  that happen to be valid DEFLATE of another format.
* Catalog metadata, Arrow schemas, wasm entry point, CI and packaging: constants
  or scripts without the program's logic.

## Plan

Done: every component with logic of its own is modelled, and every invariant and
action property of the runs, and the safety part of every refinement, is proved for
all values of the constants.

What could be added, in this order:

1. The order inside a start tag, which `c14n.rs` sorts: declarations by prefix,
   attributes by namespace and local name. They are sets in `C14n`.
2. What `parse_xsd_datetime` makes of a string whose separators stand where it
   does not look for them, on strings and not on fields.
3. Liveness proofs, once the proof system has rules for fairness: each loop has an
   obvious variant (nodes, References, layers, cells or days left).
