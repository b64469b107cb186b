--------------------------- MODULE DocumentLemmas ---------------------------
(***************************************************************************)
(* Facts about the document operators that hold of every document.         *)
(***************************************************************************)
EXTENDS SamlDocument, FiniteSetTheorems, SequenceTheorems, WellFoundedInduction, TLAPS

(* A non-empty set of naturals has a first element, so find(..) and         *)
(* first() return an element whenever there is one.                         *)
LEMMA FirstIsLeast ==
  ASSUME NEW S \in SUBSET Nat, S # {}
  PROVE  First(S) \in S /\ \A j \in S : First(S) <= j
<1> DEFINE R == OpToRel(<, Nat)
<1>1. IsWellFoundedOn(R, Nat)
  BY NatLessThanWellFounded
<1>2. PICK x \in S : \A y \in S : <<y, x>> \notin R
  <2> HIDE DEF R
  <2> QED BY <1>1, WFMin
<1>3. \A y \in S : ~ (y < x)
  BY <1>2 DEF R, OpToRel
<1>4. \A y \in S : x <= y
  BY <1>3
<1> QED BY <1>4 DEF First

(* The first of a set of numbers, when it is known to be in it. *)
LEMMA FirstIs ==
  ASSUME NEW S \in SUBSET Nat, NEW i \in S, \A j \in S : i <= j
  PROVE  FirstOf(S) = {i}
<1>1. First(S) \in S /\ \A j \in S : First(S) <= j
  BY FirstIsLeast
<1>2. First(S) = i
  <2>1. First(S) \in Nat /\ i \in Nat /\ First(S) <= i /\ i <= First(S)
    BY <1>1
  <2> QED BY <2>1
<1> QED BY <1>2 DEF FirstOf

(* Nodes are naturals, and FirstOf is empty or the least of its argument. *)
LEMMA FirstOfNodes ==
  ASSUME NEW doc, IsDocument(doc), NEW S \in SUBSET Nodes(doc)
  PROVE  /\ S \in SUBSET Nat
         /\ IsFiniteSet(S)
         /\ \A i \in FirstOf(S) : i \in S /\ \A j \in S : i <= j
         /\ S # {} => FirstOf(S) = {First(S)} /\ First(S) \in S
         /\ FirstOf(S) \subseteq S
<1>1. S \in SUBSET Nat
  BY DEF Nodes, IsDocument
<1>2. IsFiniteSet(S)
  <2>1. IsFiniteSet(Nodes(doc))
    BY FS_Interval DEF Nodes, IsDocument
  <2> QED BY <2>1, FS_Subset
<1>3. S # {} => First(S) \in S /\ \A j \in S : First(S) <= j
  BY <1>1, FirstIsLeast
<1> QED BY <1>1, <1>2, <1>3 DEF FirstOf

(* The sets of nodes the analyses collect are sets of nodes. *)
LEMMA NodeSets ==
  ASSUME NEW doc, IsDocument(doc)
  PROVE  /\ \A tag : Named(doc, tag) \in SUBSET Nodes(doc)
         /\ \A id : ElementsById(doc, id) \in SUBSET Nodes(doc)
         /\ \A i \in Nodes(doc) : Subtree(doc, i) \subseteq Nodes(doc)
         /\ \A i \in Nodes(doc) : \A tag :
              ChildrenNamed(doc, i, tag) \in SUBSET Nodes(doc)
BY DEF Named, ElementsById, ChildrenNamed, Children, IsDocument

(* The nodes of a message are Node records. *)
IsNode(x) == x = Node(x.tag, x.size, x.id, x.text, x.sig)

LEMMA SequencesOfNodes ==
  ASSUME NEW S, \A x \in S : IsNode(x), NEW d \in Seq(S)
  PROVE  MadeOfNodes(d)
<1>1. Len(d) \in Nat /\ d \in [1 .. Len(d) -> S]
  BY LenProperties
<1>2. d = [i \in 1 .. Len(d) |-> d[i]]
  BY <1>1
<1>3. \A i \in 1 .. Len(d) : d[i] = Node(d[i].tag, d[i].size, d[i].id, d[i].text, d[i].sig)
  BY <1>1 DEF IsNode
<1> QED BY <1>2, <1>3 DEF MadeOfNodes, Nodes

LEMMA NodesOfSequences ==
  ASSUME NEW d, Len(d) \in Nat, MadeOfNodes(d)
  PROVE  /\ d \in Seq({d[i] : i \in 1 .. Len(d)})
         /\ \A i \in 1 .. Len(d) : IsNode(d[i])
<1>1. d = [i \in 1 .. Len(d) |-> Node(d[i].tag, d[i].size, d[i].id, d[i].text, d[i].sig)]
  BY DEF MadeOfNodes, Nodes
<1>2. \A i \in 1 .. Len(d) : IsNode(d[i])
  BY <1>1 DEF IsNode
<1>3. d \in [1 .. Len(d) -> {d[i] : i \in 1 .. Len(d)}]
  BY <1>1
<1> QED BY <1>2, <1>3, SeqDef

(* A node one field of which is changed keeps the others. *)
LEMMA NodeChanged ==
  ASSUME NEW x, IsNode(x), NEW new
  PROVE  /\ IsNode([x EXCEPT !.size = new])
         /\ [x EXCEPT !.size = new].size = new
         /\ [x EXCEPT !.size = new].tag = x.tag
         /\ [x EXCEPT !.size = new].sig = x.sig
         /\ [x EXCEPT !.size = new].text = x.text
         /\ IsNode([x EXCEPT !.text = new])
         /\ [x EXCEPT !.text = new].size = x.size
         /\ [x EXCEPT !.text = new].tag = x.tag
         /\ [x EXCEPT !.text = new].sig = x.sig
         /\ IsNode([x EXCEPT !.id = new])
         /\ [x EXCEPT !.id = new].size = x.size
         /\ [x EXCEPT !.id = new].tag = x.tag
         /\ [x EXCEPT !.id = new].sig = x.sig
         /\ IsNode([x EXCEPT !.sig = new])
         /\ [x EXCEPT !.sig = new].size = x.size
         /\ [x EXCEPT !.sig = new].tag = x.tag
         /\ [x EXCEPT !.sig = new].sig = new
BY DEF IsNode, Node

(* Membership in a subtree, as the interval it is. *)
LEMMA SubtreeInterval ==
  ASSUME NEW doc, IsDocument(doc), NEW i \in Nodes(doc), NEW j \in Nodes(doc)
  PROVE  j \in Subtree(doc, i) <=> (i <= j /\ j <= i + doc[i].size - 1)
BY DEF Subtree, Nodes, IsDocument

(* Two nodes inside one another are the same node. *)
LEMMA SubtreeAntisymmetric ==
  ASSUME NEW doc, IsDocument(doc), NEW i \in Nodes(doc), NEW j \in Nodes(doc),
         i \in Subtree(doc, j), j \in Subtree(doc, i)
  PROVE  i = j
<1>1. i <= j /\ j <= i
  BY SubtreeInterval
<1> QED BY <1>1 DEF Nodes, IsDocument

(* Whatever is strictly above a node is above its parent. *)
LEMMA AboveTheParent ==
  ASSUME NEW doc, IsDocument(doc), NEW p \in Nodes(doc),
         NEW c \in Children(doc, p), NEW a \in Nodes(doc),
         c \in Subtree(doc, a), a # c
  PROVE  p \in Subtree(doc, a)
<1>1. c \in Nodes(doc) /\ c \in Subtree(doc, p) /\ Parents(doc, c) = {p}
  BY NodeSets DEF Children
<1>2. a \in Ancestors(doc, c) \ {c}
  BY DEF Ancestors
<1>3. p \in Parents(doc, c)
  BY <1>1
<1>4. a <= p
  BY <1>2, <1>3 DEF Parents
<1>5. p <= c
  BY <1>1, SubtreeInterval
<1>6. c <= a + doc[a].size - 1
  BY <1>1, SubtreeInterval
<1>7. p <= a + doc[a].size - 1
  BY <1>1, <1>5, <1>6 DEF Nodes, IsDocument
<1> QED BY <1>4, <1>7, SubtreeInterval

(* Every node but the root has one parent, a node that comes before it and  *)
(* holds it.                                                                *)
LEMMA HasParent ==
  ASSUME NEW doc, IsDocument(doc), NEW i \in Nodes(doc), i # Root
  PROVE  \E p \in Nodes(doc) : Parents(doc, i) = {p} /\ p < i /\ i \in Subtree(doc, p)
<1> DEFINE above == Ancestors(doc, i) \ {i}
           depths == {i - p : p \in above}
<1>1. Len(doc) \in Nat /\ Nodes(doc) = 1 .. Len(doc)
  BY DEF Nodes, IsDocument
<1>2. Root \in above
  <2>1. Root \in Nodes(doc) /\ i \in Subtree(doc, Root)
    BY <1>1 DEF Root, Subtree, IsDocument
  <2> QED BY <2>1 DEF Ancestors
<1>3. \A p \in above : p \in Nodes(doc) /\ i \in Subtree(doc, p) /\ p \in Nat /\ p < i
  BY <1>1, SubtreeInterval DEF Ancestors
<1>4. Parents(doc, i) = {p \in above : \A q \in above : q <= p}
  BY DEF Parents
<1>5. i \in Nat
  BY <1>1
<1> HIDE DEF above
<1>6. depths \in SUBSET Nat /\ depths # {}
  BY <1>2, <1>3, <1>5
<1>7. PICK p \in above : i - p = First(depths)
  BY <1>6, FirstIsLeast
<1>8. \A q \in above : i - p <= i - q
  BY <1>6, <1>7, FirstIsLeast
<1>9. \A q \in above : q <= p
  BY <1>3, <1>5, <1>8
<1>10. \A q \in Parents(doc, i) : q = p
  BY <1>3, <1>4, <1>7, <1>9
<1>11. p \in Parents(doc, i)
  BY <1>4, <1>9
<1> QED BY <1>3, <1>10, <1>11

(* A node and its children with a name, in document order. *)
LEMMA ChildFollows ==
  ASSUME NEW doc, IsDocument(doc), NEW p \in Nodes(doc), NEW tag,
         NEW c \in ChildrenNamed(doc, p, tag)
  PROVE  /\ c \in Nodes(doc) /\ doc[c].tag = tag
         /\ Parents(doc, c) = {p}
         /\ p < c
<1>1. /\ c \in Nodes(doc) /\ c \in Subtree(doc, p) /\ doc[c].tag = tag
      /\ Parents(doc, c) = {p}
  BY NodeSets DEF ChildrenNamed, Children
<1>2. p # c
  BY <1>1 DEF Parents
<1>3. p <= c
  BY <1>1, SubtreeInterval
<1> QED BY <1>1, <1>2, <1>3 DEF Nodes, IsDocument

(* FirstChild steps from nodes to children of theirs with the name. *)
LEMMA FirstChildIsChild ==
  ASSUME NEW doc, IsDocument(doc), NEW S \in SUBSET Nodes(doc), NEW tag,
         NEW c \in FirstChild(doc, S, tag)
  PROVE  \E p \in S : c \in Children(doc, p) /\ doc[c].tag = tag
<1>1. PICK p \in S : c \in FirstOf(ChildrenNamed(doc, p, tag))
  BY DEF FirstChild
<1>2. c \in ChildrenNamed(doc, p, tag)
  BY <1>1, NodeSets, FirstOfNodes
<1> QED BY <1>2 DEF ChildrenNamed

(* The subject decode() reads is a NameID under a Subject of the assertion. *)
LEMMA SubjectInsideAssertion ==
  ASSUME NEW doc, IsDocument(doc), NEW a \in Nodes(doc),
         NEW n \in FirstChild(doc, FirstChild(doc, {a}, "Subject"), "NameID")
  PROVE  \E u \in Nodes(doc) :
           /\ u \in Children(doc, a) /\ doc[u].tag = "Subject"
           /\ n \in Children(doc, u) /\ doc[n].tag = "NameID"
           /\ n \in Nodes(doc) /\ n \in Subtree(doc, a)
<1> DEFINE U == FirstChild(doc, {a}, "Subject")
<1>1. \A u \in U : u \in Children(doc, a) /\ doc[u].tag = "Subject"
  BY FirstChildIsChild
<1>2. U \in SUBSET Nodes(doc) /\ n \in FirstChild(doc, U, "NameID")
  BY <1>1, NodeSets DEF Children
<1> HIDE DEF U
<1>3. PICK u \in U : n \in Children(doc, u) /\ doc[n].tag = "NameID"
  BY <1>2, FirstChildIsChild
<1>4. u \in Nodes(doc) /\ u \in Subtree(doc, a) /\ n \in Subtree(doc, u)
  BY <1>1, <1>2, <1>3 DEF Children
<1>5. n \in Nodes(doc) /\ n \in Subtree(doc, a)
  BY <1>4, NodeSets DEF IsDocument
<1> QED BY <1>1, <1>3, <1>4, <1>5

(* The enveloped-signature transform never hides what decode() reads: the   *)
(* subject of an assertion is not inside a Signature below that assertion.  *)
LEMMA SubjectOutsideSignature ==
  ASSUME NEW doc, IsDocument(doc),
         NEW a \in Named(doc, "Assertion"),
         NEW s \in Named(doc, "Signature"), s \in Subtree(doc, a),
         NEW n \in FirstChild(doc, FirstChild(doc, {a}, "Subject"), "NameID")
  PROVE  n \notin Subtree(doc, s)
<1>1. a \in Nodes(doc) /\ s \in Nodes(doc)
  BY DEF Named
<1>2. PICK u \in Nodes(doc) :
        /\ u \in Children(doc, a) /\ doc[u].tag = "Subject"
        /\ n \in Children(doc, u) /\ doc[n].tag = "NameID"
        /\ n \in Nodes(doc)
  BY <1>1, SubjectInsideAssertion
<1> SUFFICES ASSUME n \in Subtree(doc, s) PROVE FALSE
  OBVIOUS
<1>3. s # n /\ s # u /\ s # a
  BY <1>2 DEF Named
<1>4. u \in Subtree(doc, s)
  BY <1>1, <1>2, <1>3, AboveTheParent
<1>5. a \in Subtree(doc, s)
  BY <1>1, <1>2, <1>3, <1>4, AboveTheParent
<1> QED BY <1>1, <1>3, <1>5, SubtreeAntisymmetric

-----------------------------------------------------------------------------
(* The elements of a finite set of numbers can be counted off in order: for *)
(* each m up to their number exactly one has m - 1 before it.               *)
Before(A, i) == {j \in A : j < i}

LEMMA BeforeFinite ==
  ASSUME NEW A \in SUBSET Nat, IsFiniteSet(A), NEW i
  PROVE  IsFiniteSet(Before(A, i)) /\ Cardinality(Before(A, i)) \in Nat
<1>1. Before(A, i) \in SUBSET A
  BY DEF Before
<1> QED BY <1>1, FS_Subset, FS_CardinalityType

LEMMA RankGrows ==
  ASSUME NEW A \in SUBSET Nat, IsFiniteSet(A), NEW i \in A, NEW j \in A, i < j
  PROVE  Cardinality(Before(A, i)) < Cardinality(Before(A, j))
<1> DEFINE B == Before(A, i)
           C == Before(A, j)
<1>1. i \notin B /\ B \cup {i} \in SUBSET C
  <2>1. i \notin B /\ i \in C
    BY DEF Before
  <2>2. \A x \in B : x \in C
    BY DEF Before
  <2> QED BY <2>1, <2>2
<1>2. IsFiniteSet(B) /\ Cardinality(B) \in Nat /\ IsFiniteSet(C) /\ Cardinality(C) \in Nat
  BY BeforeFinite
<1> HIDE DEF B, C
<1>3. Cardinality(B \cup {i}) = Cardinality(B) + 1
  BY <1>1, <1>2, FS_AddElement
<1>4. Cardinality(B \cup {i}) <= Cardinality(C)
  BY <1>1, <1>2, FS_Subset
<1> QED BY <1>2, <1>3, <1>4 DEF B, C

LEMMA RankUnique ==
  ASSUME NEW A \in SUBSET Nat, IsFiniteSet(A), NEW i \in A, NEW j \in A,
         Cardinality(Before(A, i)) = Cardinality(Before(A, j))
  PROVE  i = j
<1>1. i < j \/ j < i \/ i = j
  OBVIOUS
<1>2. Cardinality(Before(A, i)) \in Nat
  BY BeforeFinite
<1>3. ~ (i < j)
  BY <1>2, RankGrows
<1>4. ~ (j < i)
  BY <1>2, RankGrows
<1> QED BY <1>1, <1>3, <1>4

LEMMA RankExists ==
  ASSUME NEW A \in SUBSET Nat, IsFiniteSet(A), NEW m \in 1 .. Cardinality(A)
  PROVE  \E i \in A : Cardinality(Before(A, i)) = m - 1
<1> DEFINE Ranked(k) == \E i \in A : Cardinality(Before(A, i)) = k - 1
           missing == {k \in 1 .. Cardinality(A) : ~ Ranked(k)}
           k == First(missing)
<1> SUFFICES ASSUME missing # {} PROVE FALSE
  OBVIOUS
<1>1. Cardinality(A) \in Nat
  BY FS_CardinalityType
<1>2. missing \in SUBSET Nat
  BY <1>1
<1>3. k \in missing /\ \A x \in missing : k <= x
  BY <1>2, FirstIsLeast
<1> HIDE DEF k
<1>4. k \in 1 .. Cardinality(A) /\ k \in Nat /\ ~ Ranked(k)
  BY <1>1, <1>3
<1>5. CASE k = 1
  <2>1. A # {}
    BY <1>1, <1>4, FS_EmptySet
  <2>2. First(A) \in A /\ \A j \in A : First(A) <= j
    BY <2>1, FirstIsLeast
  <2>3. Before(A, First(A)) = {}
    BY <2>2 DEF Before
  <2>4. Cardinality(Before(A, First(A))) = k - 1
    BY <1>5, <2>3, FS_EmptySet
  <2> QED BY <1>4, <2>2, <2>4
<1>6. CASE k # 1
  <2>1. k - 1 \in 1 .. Cardinality(A) /\ k - 1 \notin missing
    BY <1>1, <1>3, <1>4, <1>6
  <2>2. PICK i \in A : Cardinality(Before(A, i)) = k - 2
    <3>1. Ranked(k - 1)
      BY <2>1
    <3>2. (k - 1) - 1 = k - 2
      BY <1>4
    <3> QED BY <3>1, <3>2
  <2> DEFINE B == Before(A, i)
             later == {j \in A : i < j}
  <2>3. i \notin B /\ IsFiniteSet(B) /\ Cardinality(B) = k - 2
    BY <2>2, BeforeFinite DEF Before
  <2>4. Cardinality(B \cup {i}) = k - 1
    <3> HIDE DEF B
    <3>1. Cardinality(B \cup {i}) = Cardinality(B) + 1
      BY <2>3, FS_AddElement
    <3> QED BY <1>4, <2>3, <3>1
  <2>5. later # {}
    <3> SUFFICES ASSUME later = {} PROVE FALSE
      OBVIOUS
    <3>1. A = B \cup {i}
      BY DEF Before
    <3> QED BY <1>1, <1>4, <2>4, <3>1
  <2> DEFINE j == First(later)
  <2>6. j \in later /\ \A x \in later : j <= x
    <3>1. later \in SUBSET Nat
      OBVIOUS
    <3> QED BY <2>5, <3>1, FirstIsLeast
  <2> HIDE DEF j
  <2>7. Before(A, j) = B \cup {i}
    BY <2>6 DEF Before
  <2> QED BY <1>4, <2>4, <2>6, <2>7
<1> QED BY <1>5, <1>6

-----------------------------------------------------------------------------
(* Where a node is once a comment has been put behind node n, and how the   *)
(* two messages compare: e is d with the comment.                           *)
Moved(n, i) == IF i <= n THEN i ELSE i + 1
MovedAll(n, S) == {Moved(n, i) : i \in S}

Spliced(d, n, e) ==
  /\ IsDocument(d) /\ IsDocument(e)
  /\ n \in Nodes(d)
  /\ Len(e) = Len(d) + 1
  /\ e[n + 1].tag = "comment"
  /\ \A i \in Nodes(d) :
       /\ e[Moved(n, i)].tag = d[i].tag
       /\ e[Moved(n, i)].id = d[i].id
       /\ e[Moved(n, i)].sig = d[i].sig
       /\ e[Moved(n, i)].size = IF n \in Subtree(d, i) THEN d[i].size + 1 ELSE d[i].size
       /\ \A c : [e[Moved(n, i)] EXCEPT !.size = c] = [d[i] EXCEPT !.size = c]

-----------------------------------------------------------------------------
(* The nodes keep their order, and the comment is the only new one. *)
LEMMA MovedInOrder ==
  ASSUME NEW n \in Nat, NEW i \in Nat, NEW j \in Nat
  PROVE  /\ Moved(n, i) \in Nat
         /\ Moved(n, i) # n + 1
         /\ i < j <=> Moved(n, i) < Moved(n, j)
         /\ i <= j <=> Moved(n, i) <= Moved(n, j)
         /\ Moved(n, i) = Moved(n, j) => i = j
BY DEF Moved

LEMMA SplicedNodes ==
  ASSUME NEW d, NEW n, NEW e, Spliced(d, n, e)
  PROVE  /\ n \in Nat /\ Nodes(d) \in SUBSET Nat
         /\ Nodes(e) = MovedAll(n, Nodes(d)) \cup {n + 1}
         /\ \A i \in Nodes(d) : Moved(n, i) \in Nodes(e)
<1>1. /\ Len(d) \in Nat /\ Nodes(d) = 1 .. Len(d) /\ Nodes(e) = 1 .. Len(d) + 1
      /\ n \in 1 .. Len(d)
  BY DEF Spliced, IsDocument, Nodes
<1>2. \A i \in Nodes(d) : Moved(n, i) \in Nodes(e)
  BY <1>1 DEF Moved
<1>3. n + 1 \in Nodes(e)
  BY <1>1
<1>4. ASSUME NEW k \in Nodes(e), k # n + 1 PROVE k \in MovedAll(n, Nodes(d))
  <2>1. CASE k <= n
    <3>1. k \in Nodes(d) /\ k = Moved(n, k)
      BY <1>1, <2>1 DEF Moved
    <3> QED BY <3>1 DEF MovedAll
  <2>2. CASE k > n + 1
    <3>1. k - 1 \in Nodes(d) /\ k = Moved(n, k - 1)
      BY <1>1, <2>2 DEF Moved
    <3> QED BY <3>1 DEF MovedAll
  <2> QED BY <1>1, <1>4, <2>1, <2>2
<1>5. MovedAll(n, Nodes(d)) \subseteq Nodes(e)
  BY <1>2 DEF MovedAll
<1>6. n \in Nat /\ Nodes(d) \in SUBSET Nat
  BY <1>1
<1> QED BY <1>2, <1>3, <1>4, <1>5, <1>6

(* What is said of nodes is said of where they are now. *)
LEMMA MovedSets ==
  ASSUME NEW d, NEW n, NEW e, Spliced(d, n, e),
         NEW A \in SUBSET Nodes(d), NEW B \in SUBSET Nodes(e),
         n + 1 \notin B,
         \A i \in Nodes(d) : Moved(n, i) \in B <=> i \in A
  PROVE  B = MovedAll(n, A)
BY SplicedNodes DEF MovedAll

LEMMA MovedMember ==
  ASSUME NEW n \in Nat, NEW S \in SUBSET Nat, NEW i \in Nat
  PROVE  Moved(n, i) \in MovedAll(n, S) <=> i \in S
BY MovedInOrder DEF MovedAll

LEMMA SubtreesMoved ==
  ASSUME NEW d, NEW n, NEW e, Spliced(d, n, e),
         NEW i \in Nodes(d), NEW j \in Nodes(d)
  PROVE  Moved(n, j) \in Subtree(e, Moved(n, i)) <=> j \in Subtree(d, i)
<1> DEFINE s == d[i].size
           t == e[Moved(n, i)].size
<1>1. /\ i \in Nat /\ j \in Nat /\ n \in Nat /\ n \in Nodes(d)
      /\ Moved(n, i) \in Nodes(e) /\ Moved(n, j) \in Nodes(e)
      /\ IsDocument(d) /\ IsDocument(e)
  BY SplicedNodes DEF Spliced
<1>2. s \in Nat /\ t \in Nat
  BY <1>1 DEF IsDocument
<1>3. /\ n \in Subtree(d, i) <=> (i <= n /\ n <= i + s - 1)
      /\ j \in Subtree(d, i) <=> (i <= j /\ j <= i + s - 1)
  BY <1>1, SubtreeInterval
<1>4. Moved(n, j) \in Subtree(e, Moved(n, i)) <=>
        (Moved(n, i) <= Moved(n, j) /\ Moved(n, j) <= Moved(n, i) + t - 1)
  BY <1>1, SubtreeInterval
<1>5. t = IF n \in Subtree(d, i) THEN s + 1 ELSE s
  BY DEF Spliced
<1> HIDE DEF s, t
<1> QED BY <1>1, <1>2, <1>3, <1>4, <1>5 DEF Moved

LEMMA NamesMoved ==
  ASSUME NEW d, NEW n, NEW e, Spliced(d, n, e), NEW tag, tag # "comment"
  PROVE  Named(e, tag) = MovedAll(n, Named(d, tag))
<1> DEFINE A == Named(d, tag)
           B == Named(e, tag)
<1>1. A \in SUBSET Nodes(d) /\ B \in SUBSET Nodes(e) /\ n + 1 \notin B
  BY DEF Named, Spliced
<1>2. \A i \in Nodes(d) : Moved(n, i) \in B <=> i \in A
  BY SplicedNodes DEF Named, Spliced
<1> HIDE DEF A, B
<1>3. B = MovedAll(n, A)
  BY <1>1, <1>2, MovedSets
<1> QED BY <1>3 DEF A, B

LEMMA IdsMoved ==
  ASSUME NEW d, NEW n, NEW e, Spliced(d, n, e), NEW id
  PROVE  ElementsById(e, id) = MovedAll(n, ElementsById(d, id))
<1> DEFINE A == ElementsById(d, id)
           B == ElementsById(e, id)
<1>1. A \in SUBSET Nodes(d) /\ B \in SUBSET Nodes(e) /\ n + 1 \notin B
  BY DEF ElementsById, IsElement, Spliced
<1>2. \A i \in Nodes(d) : Moved(n, i) \in B <=> i \in A
  BY SplicedNodes DEF ElementsById, IsElement, Spliced
<1> HIDE DEF A, B
<1>3. B = MovedAll(n, A)
  BY <1>1, <1>2, MovedSets
<1> QED BY <1>3 DEF A, B

LEMMA FirstsMoved ==
  ASSUME NEW n \in Nat, NEW S \in SUBSET Nat
  PROVE  FirstOf(MovedAll(n, S)) = MovedAll(n, FirstOf(S))
<1>1. CASE S = {}
  BY <1>1 DEF FirstOf, MovedAll
<1>2. CASE S # {}
  <2> DEFINE i == First(S)
  <2>1. i \in S /\ \A j \in S : i <= j
    BY <1>2, FirstIsLeast
  <2>2. FirstOf(S) = {i}
    BY <1>2 DEF FirstOf
  <2> HIDE DEF i
  <2>3. MovedAll(n, S) \in SUBSET Nat /\ Moved(n, i) \in MovedAll(n, S)
    BY <2>1, MovedInOrder DEF MovedAll
  <2>4. \A k \in MovedAll(n, S) : Moved(n, i) <= k
    BY <2>1, MovedInOrder DEF MovedAll
  <2>5. FirstOf(MovedAll(n, S)) = {Moved(n, i)}
    BY <2>3, <2>4, FirstIs
  <2> QED BY <2>2, <2>5 DEF MovedAll
<1> QED BY <1>1, <1>2

LEMMA CountsMoved ==
  ASSUME NEW n \in Nat, NEW S \in SUBSET Nat, IsFiniteSet(S)
  PROVE  IsFiniteSet(MovedAll(n, S)) /\ Cardinality(MovedAll(n, S)) = Cardinality(S)
<1> DEFINE f == [i \in S |-> Moved(n, i)]
           T == MovedAll(n, S)
<1>1. f \in [S -> T]
  BY DEF MovedAll
<1>2. \A a \in S, b \in S : f[a] = f[b] => a = b
  BY MovedInOrder
<1>3. \A t \in T : \E a \in S : f[a] = t
  BY DEF MovedAll
<1>4. f \in Bijection(S, T)
  <2> HIDE DEF f, T
  <2> QED BY <1>1, <1>2, <1>3 DEF Bijection, Injection, Surjection, IsInjective
<1>5. ExistsBijection(S, T)
  BY <1>4 DEF ExistsBijection
<1> HIDE DEF T
<1>6. IsFiniteSet(T) /\ Cardinality(T) = Cardinality(S)
  BY <1>5, FS_Bijection
<1> QED BY <1>6 DEF T

LEMMA BeforeMoved ==
  ASSUME NEW n \in Nat, NEW S \in SUBSET Nat, NEW i \in Nat
  PROVE  Before(MovedAll(n, S), Moved(n, i)) = MovedAll(n, Before(S, i))
<1>1. \A j \in S : j < i <=> Moved(n, j) < Moved(n, i)
  BY MovedInOrder
<1> QED BY <1>1, Zenon DEF Before, MovedAll

LEMMA KeptMoved ==
  ASSUME NEW d, NEW n, NEW e, Spliced(d, n, e), NEW t \in Nodes(d),
         NEW omit \in SUBSET Nodes(d)
  PROVE  Kept(e, Moved(n, t), MovedAll(n, omit)) = MovedAll(n, Kept(d, t, omit))
<1> DEFINE A == Kept(d, t, omit)
           B == Kept(e, Moved(n, t), MovedAll(n, omit))
<1>1. /\ n \in Nat /\ Nodes(d) \in SUBSET Nat /\ Moved(n, t) \in Nodes(e)
      /\ IsDocument(d) /\ IsDocument(e)
  BY SplicedNodes DEF Spliced
<1>2. A \in SUBSET Nodes(d) /\ B \in SUBSET Nodes(e)
  BY <1>1, NodeSets DEF Kept
<1>3. n + 1 \notin B
  BY DEF Kept, IsElement, Spliced
<1>4. ASSUME NEW i \in Nodes(d) PROVE Moved(n, i) \in B <=> i \in A
  <2>1. /\ Moved(n, i) \in Subtree(e, Moved(n, t)) <=> i \in Subtree(d, t)
        /\ IsElement(e, Moved(n, i)) <=> IsElement(d, i)
    BY SubtreesMoved DEF IsElement, Spliced
  <2>2. \A o \in omit : Moved(n, i) \in Subtree(e, Moved(n, o)) <=> i \in Subtree(d, o)
    BY SubtreesMoved
  <2>3. \A o \in omit : Moved(n, o) \in Subtree(e, Moved(n, t)) <=> o \in Subtree(d, t)
    BY SubtreesMoved
  <2>4. (\A x \in MovedAll(n, omit) \cap Subtree(e, Moved(n, t)) : Moved(n, i) \notin Subtree(e, x))
          <=> (\A o \in omit \cap Subtree(d, t) : i \notin Subtree(d, o))
    BY <2>2, <2>3 DEF MovedAll
  <2> QED BY <2>1, <2>4 DEF Kept
<1> HIDE DEF A, B
<1>5. B = MovedAll(n, A)
  BY <1>2, <1>3, <1>4, MovedSets
<1> QED BY <1>5 DEF A, B

-----------------------------------------------------------------------------
(* The m-th element of a set of numbers. *)
Nth(A, m) == CHOOSE i \in A : Cardinality(Before(A, i)) = m - 1

LEMMA CanonByRank ==
  ASSUME NEW d, NEW t, NEW omit
  PROVE  Canon(d, t, omit) =
           [m \in 1 .. Cardinality(Kept(d, t, omit)) |->
              [d[Nth(Kept(d, t, omit), m)] EXCEPT !.size =
                 Cardinality(Kept(d, t, omit) \cap
                               Subtree(d, Nth(Kept(d, t, omit), m)))]]
BY DEF Canon, Nth, Before

LEMMA NthMoved ==
  ASSUME NEW n \in Nat, NEW A \in SUBSET Nat, IsFiniteSet(A),
         NEW m \in 1 .. Cardinality(A)
  PROVE  Nth(A, m) \in A /\ Nth(MovedAll(n, A), m) = Moved(n, Nth(A, m))
<1> DEFINE i == Nth(A, m)
           B == MovedAll(n, A)
           j == Nth(B, m)
<1>1. i \in A /\ Cardinality(Before(A, i)) = m - 1
  <2>1. \E x \in A : Cardinality(Before(A, x)) = m - 1
    BY RankExists
  <2> QED BY <2>1 DEF Nth
<1>2. /\ B \in SUBSET Nat /\ IsFiniteSet(B) /\ Moved(n, i) \in B
  BY <1>1, CountsMoved, MovedInOrder DEF MovedAll
<1>3. Cardinality(Before(B, Moved(n, i))) = m - 1
  <2>1. Before(B, Moved(n, i)) = MovedAll(n, Before(A, i))
    BY <1>1, BeforeMoved
  <2>2. Before(A, i) \in SUBSET Nat /\ IsFiniteSet(Before(A, i))
    BY BeforeFinite DEF Before
  <2> QED BY <1>1, <2>1, <2>2, CountsMoved
<1> HIDE DEF i, B
<1>4. j \in B /\ Cardinality(Before(B, j)) = m - 1
  <2>1. \E x \in B : Cardinality(Before(B, x)) = m - 1
    BY <1>2, <1>3
  <2> QED BY <2>1 DEF Nth
<1> HIDE DEF j
<1>5. j = Moved(n, i)
  BY <1>2, <1>3, <1>4, RankUnique
<1> QED BY <1>1, <1>5 DEF i, j, B

(* The octets of a subtree do not change. *)
LEMMA CanonMoved ==
  ASSUME NEW d, NEW n, NEW e, Spliced(d, n, e), NEW t \in Nodes(d),
         NEW omit \in SUBSET Nodes(d)
  PROVE  Canon(e, Moved(n, t), MovedAll(n, omit)) = Canon(d, t, omit)
<1> DEFINE A == Kept(d, t, omit)
           B == MovedAll(n, A)
           Octet(x, S, i) ==
             [x[i] EXCEPT !.size = Cardinality(S \cap Subtree(x, i))]
<1>1. n \in Nat /\ Nodes(d) \in SUBSET Nat /\ IsDocument(d)
  BY SplicedNodes DEF Spliced
<1>2. A \in SUBSET Nodes(d) /\ A \in SUBSET Nat
  BY <1>1, NodeSets DEF Kept
<1>3. Kept(e, Moved(n, t), MovedAll(n, omit)) = B
  BY KeptMoved
<1>4. /\ Canon(d, t, omit) =
           [m \in 1 .. Cardinality(A) |-> Octet(d, A, Nth(A, m))]
      /\ Canon(e, Moved(n, t), MovedAll(n, omit)) =
           [m \in 1 .. Cardinality(B) |-> Octet(e, B, Nth(B, m))]
  BY <1>3, CanonByRank, Zenon
<1> HIDE DEF A
<1>5. IsFiniteSet(A) /\ Cardinality(B) = Cardinality(A)
  <2>1. IsFiniteSet(A)
    BY <1>1, <1>2, FirstOfNodes
  <2> QED BY <1>1, <1>2, <2>1, CountsMoved
<1>6. ASSUME NEW m \in 1 .. Cardinality(A)
      PROVE  Octet(e, B, Nth(B, m)) = Octet(d, A, Nth(A, m))
  <2> DEFINE i == Nth(A, m)
             inner == A \cap Subtree(d, i)
             outer == B \cap Subtree(e, Moved(n, i))
  <2>1. i \in A /\ i \in Nodes(d) /\ Nth(B, m) = Moved(n, i)
    BY <1>1, <1>2, <1>5, NthMoved
  <2> HIDE DEF i, B
  <2>2. outer = MovedAll(n, inner)
    <3>1. inner \in SUBSET Nodes(d)
      BY <1>2
    <3>2. n + 1 \notin B /\ B \in SUBSET Nodes(e)
      <4>1. \A y \in A : Moved(n, y) # n + 1 /\ Moved(n, y) \in Nodes(e)
        BY <1>1, <1>2, MovedInOrder, SplicedNodes
      <4> QED BY <4>1 DEF B, MovedAll
    <3>3. \A x \in Nodes(d) : Moved(n, x) \in outer <=> x \in inner
      BY <1>1, <1>2, <2>1, MovedMember, SubtreesMoved DEF B
    <3> HIDE DEF inner
    <3>4. outer \in SUBSET Nodes(e) /\ n + 1 \notin outer
      BY <3>2
    <3> HIDE DEF outer
    <3> QED BY <3>1, <3>3, <3>4, MovedSets
  <2>3. inner \in SUBSET Nat /\ IsFiniteSet(inner)
    BY <1>2, <1>5, FS_Subset
  <2> HIDE DEF inner, outer
  <2>4. Cardinality(outer) = Cardinality(inner)
    BY <1>1, <2>2, <2>3, CountsMoved
  <2>5. \A c : [e[Moved(n, i)] EXCEPT !.size = c] = [d[i] EXCEPT !.size = c]
    BY <2>1, Zenon DEF Spliced
  <2> QED BY <2>1, <2>4, <2>5, Zenon DEF inner, outer, i
<1> HIDE DEF Octet, B
<1>7. [m \in 1 .. Cardinality(B) |-> Octet(e, B, Nth(B, m))] =
        [m \in 1 .. Cardinality(A) |-> Octet(d, A, Nth(A, m))]
  BY <1>5, <1>6, Zenon
<1> QED BY <1>4, <1>7 DEF A, B

-----------------------------------------------------------------------------
(* The octets of a subtree, read back as a message.  Its mth node is the    *)
(* mth kept one, so that rank among the kept nodes takes the subtree to     *)
(* what is read.                                                            *)
Rank(A, i) == Cardinality(Before(A, i)) + 1

LEMMA Ranks ==
  ASSUME NEW A \in SUBSET Nat, IsFiniteSet(A)
  PROVE  /\ Cardinality(A) \in Nat
         /\ \A i \in A : Rank(A, i) \in 1 .. Cardinality(A) /\ Nth(A, Rank(A, i)) = i
         /\ \A i \in A, j \in A : i < j => Rank(A, i) < Rank(A, j)
         /\ \A i \in A, j \in A : Rank(A, i) = Rank(A, j) => i = j
         /\ \A m \in 1 .. Cardinality(A) : \E i \in A : Rank(A, i) = m
<1>1. Cardinality(A) \in Nat
  BY FS_CardinalityType
<1>2. ASSUME NEW i \in A
      PROVE  /\ Cardinality(Before(A, i)) \in Nat
             /\ Rank(A, i) \in 1 .. Cardinality(A)
             /\ Nth(A, Rank(A, i)) = i
  <2> DEFINE B == Before(A, i)
  <2>1. IsFiniteSet(B) /\ Cardinality(B) \in Nat /\ i \notin B
    BY BeforeFinite DEF Before
  <2>2. B \cup {i} \in SUBSET A
    BY DEF Before
  <2> HIDE DEF B
  <2>3. Cardinality(B \cup {i}) = Cardinality(B) + 1
    BY <2>1, FS_AddElement
  <2>4. Cardinality(B \cup {i}) <= Cardinality(A)
    BY <2>2, FS_Subset
  <2>5. Cardinality(B) + 1 \in 1 .. Cardinality(A)
    BY <1>1, <2>1, <2>3, <2>4
  <2>6. Rank(A, i) = Cardinality(B) + 1
    BY DEF Rank, B
  <2>7. Rank(A, i) - 1 = Cardinality(B)
    BY <2>1, <2>6
  <2>8. \A x \in A : Cardinality(Before(A, x)) = Cardinality(B) => x = i
    BY RankUnique DEF B
  <2>9. Nth(A, Rank(A, i)) = CHOOSE x \in A : Cardinality(Before(A, x)) = Cardinality(B)
    BY <2>7 DEF Nth
  <2>10. Nth(A, Rank(A, i)) = i
    BY <2>8, <2>9 DEF B
  <2> QED BY <2>1, <2>5, <2>6, <2>10 DEF B
<1>3. ASSUME NEW i \in A, NEW j \in A, i < j PROVE Rank(A, i) < Rank(A, j)
  BY <1>2, <1>3, RankGrows DEF Rank
<1>4. ASSUME NEW i \in A, NEW j \in A, Rank(A, i) = Rank(A, j) PROVE i = j
  <2>1. Cardinality(Before(A, i)) = Cardinality(Before(A, j))
    BY <1>2, <1>4 DEF Rank
  <2> QED BY <2>1, RankUnique
<1>5. ASSUME NEW m \in 1 .. Cardinality(A) PROVE \E i \in A : Rank(A, i) = m
  <2>1. PICK i \in A : Cardinality(Before(A, i)) = m - 1
    BY RankExists
  <2>2. Rank(A, i) = m
    BY <1>1, <2>1 DEF Rank
  <2> QED BY <2>2
<1> QED BY <1>1, <1>2, <1>3, <1>4, <1>5

(* An interval of a set is an interval of its ranks. *)
LEMMA RankInterval ==
  ASSUME NEW A \in SUBSET Nat, IsFiniteSet(A), NEW i \in A, NEW j \in A, NEW hi \in Nat,
         i <= hi
  PROVE  LET inner == A \cap (i .. hi)
         IN  /\ Cardinality(inner) \in Nat
             /\ Rank(A, i) + Cardinality(inner) <= Cardinality(A) + 1
             /\ j \in i .. hi <=>
                  Rank(A, i) <= Rank(A, j) /\ Rank(A, j) < Rank(A, i) + Cardinality(inner)
<1> DEFINE inner == A \cap (i .. hi)
           upto == Before(A, i) \cup inner
           B(x) == Cardinality(Before(A, x))
           c == Cardinality(inner)
           InBoth == j \in i .. hi <=> Rank(A, i) <= Rank(A, j) /\ Rank(A, j) < Rank(A, i) + c
<1>1. IsFiniteSet(inner) /\ c \in Nat
  BY FS_Subset, FS_CardinalityType
<1>2. /\ IsFiniteSet(Before(A, i)) /\ IsFiniteSet(Before(A, j))
      /\ B(i) \in Nat /\ B(j) \in Nat
  BY BeforeFinite
<1>3. Cardinality(upto) = B(i) + c /\ IsFiniteSet(upto)
  <2>1. Before(A, i) \cap inner = {}
    BY DEF Before
  <2>2. Cardinality(Before(A, i) \cap inner) = 0
    BY <2>1, FS_EmptySet
  <2> HIDE DEF inner
  <2>3. /\ IsFiniteSet(upto)
        /\ Cardinality(upto) = B(i) + c - Cardinality(Before(A, i) \cap inner)
    BY <1>1, <1>2, FS_Union
  <2> QED BY <1>1, <1>2, <2>2, <2>3
<1>4. Rank(A, i) = B(i) + 1 /\ Rank(A, j) = B(j) + 1
  BY DEF Rank
<1>5. ASSUME j < i PROVE InBoth
  <2>1. Rank(A, j) < Rank(A, i)
    BY <1>5, Ranks
  <2>2. j \notin i .. hi
    BY <1>5
  <2> HIDE DEF B, c
  <2>3. ~ (Rank(A, i) <= Rank(A, j))
    BY <1>2, <1>4, <2>1
  <2> QED BY <1>1, <2>2, <2>3
<1>6. ASSUME i <= j /\ j <= hi PROVE InBoth
  <2>1. j \in i .. hi
    BY <1>6
  <2>2. B(i) <= B(j)
    <3>1. Before(A, i) \in SUBSET Before(A, j)
      <4>1. \A x \in A : x < i => x < j
        BY <1>6
      <4> QED BY <4>1 DEF Before
    <3> QED BY <1>2, <3>1, FS_Subset
  <2>3. B(j) + 1 <= B(i) + c
    <3>1. Before(A, j) \cup {j} \in SUBSET upto /\ j \notin Before(A, j)
      <4>1. \A x \in A : x < j => x < i \/ (i <= x /\ x <= hi)
        BY <1>6
      <4>2. \A x \in A : x < j => x \in upto
        BY <4>1 DEF Before
      <4>3. j \in upto /\ j \notin Before(A, j)
        BY <1>6 DEF Before
      <4> QED BY <4>2, <4>3 DEF Before
    <3> HIDE DEF upto
    <3>2. Cardinality(Before(A, j) \cup {j}) = B(j) + 1
      BY <1>2, <3>1, FS_AddElement
    <3>3. Cardinality(Before(A, j) \cup {j}) <= Cardinality(upto)
      BY <1>3, <3>1, FS_Subset
    <3> QED BY <1>3, <3>2, <3>3
  <2> HIDE DEF B, c
  <2>4. Rank(A, i) <= Rank(A, j) /\ Rank(A, j) < Rank(A, i) + c
    BY <1>1, <1>2, <1>4, <2>2, <2>3
  <2> QED BY <1>1, <2>1, <2>4
<1>7. ASSUME hi < j PROVE InBoth
  <2>1. j \notin i .. hi
    BY <1>7
  <2>2. B(i) + c <= B(j)
    <3>1. upto \in SUBSET Before(A, j)
      <4>1. \A x \in A : x < i \/ (i <= x /\ x <= hi) => x < j
        BY <1>7
      <4>2. \A x \in inner : x \in A /\ i <= x /\ x <= hi
        OBVIOUS
      <4> QED BY <4>1, <4>2 DEF Before
    <3> HIDE DEF upto
    <3> QED BY <1>2, <1>3, <3>1, FS_Subset
  <2> HIDE DEF B, c
  <2>3. ~ (Rank(A, j) < Rank(A, i) + c)
    BY <1>1, <1>2, <1>4, <2>2
  <2> QED BY <1>1, <2>1, <2>3
<1>8. j < i \/ (i <= j /\ j <= hi) \/ hi < j
  OBVIOUS
<1>9. Rank(A, i) + c <= Cardinality(A) + 1
  <2>1. upto \in SUBSET A /\ Cardinality(A) \in Nat
    BY FS_CardinalityType DEF Before
  <2> HIDE DEF upto
  <2>2. Cardinality(upto) <= Cardinality(A)
    BY <2>1, FS_Subset
  <2> HIDE DEF B, c
  <2> QED BY <1>1, <1>2, <1>3, <1>4, <2>1, <2>2
<1> QED BY <1>1, <1>5, <1>6, <1>7, <1>8, <1>9

(* o is what is read of the nodes A of d; with a node of A, A holds all of   *)
(* its ancestors up to the one that is above all of A.                      *)
ReadFrom(d, A, o) ==
  /\ IsDocument(d)
  /\ A \in SUBSET Nodes(d)
  /\ Nodes(o) = 1 .. Cardinality(A)
  /\ \A i \in A :
       /\ o[Rank(A, i)].tag = d[i].tag
       /\ o[Rank(A, i)].text = d[i].text
       /\ o[Rank(A, i)].size = Cardinality(A \cap Subtree(d, i))
  /\ \A i \in A : A \subseteq Subtree(d, i) \/ Parents(d, i) \subseteq A

(* What is kept of a subtree is read from it. *)
LEMMA OctetsAreRead ==
  ASSUME NEW d, IsDocument(d), MadeOfNodes(d), NEW t \in Nodes(d), NEW omit
  PROVE  ReadFrom(d, Kept(d, t, omit), Canon(d, t, omit))
<1> DEFINE A == Kept(d, t, omit)
           o == Canon(d, t, omit)
           octet(i) == [d[i] EXCEPT !.size = Cardinality(A \cap Subtree(d, i))]
<1>1. A \in SUBSET Nodes(d) /\ Nodes(d) \in SUBSET Nat
  <2>1. \A i \in Nodes(d) : Subtree(d, i) \subseteq Nodes(d)
    BY NodeSets
  <2> QED BY <2>1 DEF Kept, Nodes, IsDocument
<1>2. o = [m \in 1 .. Cardinality(A) |-> octet(Nth(A, m))]
  BY CanonByRank, Zenon
<1>3. \A i \in Nodes(d) : IsNode(d[i])
  BY NodesOfSequences DEF IsDocument, Nodes
<1>4. \A i \in Nodes(d) : /\ octet(i).tag = d[i].tag
                          /\ octet(i).text = d[i].text
                          /\ octet(i).size = Cardinality(A \cap Subtree(d, i))
  BY <1>3, NodeChanged
<1>5. ASSUME NEW i \in A, ~ (A \subseteq Subtree(d, i)), NEW p \in Parents(d, i)
      PROVE  p \in A
  <2>1. /\ i \in Nodes(d) /\ i \in Subtree(d, t)
        /\ \A o1 \in omit \cap Subtree(d, t) : i \notin Subtree(d, o1)
    BY <1>1 DEF Kept
  <2>2. i # t
    BY <1>5 DEF Kept
  <2>3. /\ p \in Nodes(d) /\ i \in Subtree(d, p) /\ i # p
        /\ \A q \in Ancestors(d, i) \ {i} : q <= p
    BY <1>5 DEF Parents, Ancestors
  <2>4. Parents(d, i) = {p}
    <3>1. \A q \in Parents(d, i) : q <= p /\ p <= q /\ q \in Nodes(d)
      BY <1>5, <2>3 DEF Parents, Ancestors
    <3>2. \A q \in Parents(d, i) : q = p
      BY <1>1, <2>3, <3>1
    <3> QED BY <1>5, <3>2
  <2>5. i \in Children(d, p)
    BY <2>3, <2>4 DEF Children
  <2>6. p \in Subtree(d, t)
    BY <2>1, <2>2, <2>3, <2>5, AboveTheParent
  <2>7. IsElement(d, p)
    <3>1. d[p].size = 1 => i = p
      BY <1>1, <2>3 DEF Subtree
    <3> QED BY <2>3, <3>1 DEF IsDocument
  <2>8. ASSUME NEW q \in omit \cap Subtree(d, t), p \in Subtree(d, q) PROVE FALSE
    <3>1. q \in Nodes(d) /\ Subtree(d, p) \subseteq Subtree(d, q)
      BY <2>8, NodeSets DEF IsDocument
    <3> QED BY <2>1, <2>3, <2>8, <3>1
  <2> QED BY <2>6, <2>7, <2>8 DEF Kept
<1>6. \A i \in A : A \subseteq Subtree(d, i) \/ Parents(d, i) \subseteq A
  BY <1>5
<1> HIDE DEF A, octet
<1>7. IsFiniteSet(A) /\ A \in SUBSET Nat
  BY <1>1, FirstOfNodes
<1>8. /\ Cardinality(A) \in Nat
      /\ \A i \in A : Rank(A, i) \in 1 .. Cardinality(A) /\ Nth(A, Rank(A, i)) = i
  BY <1>7, Ranks
<1>9. Len(o) = Cardinality(A) /\ \A m \in 1 .. Cardinality(A) : o[m] = octet(Nth(A, m))
  BY <1>2, <1>8
<1> HIDE DEF o
<1>10. \A i \in A : o[Rank(A, i)] = octet(i)
  BY <1>8, <1>9
<1>11. Nodes(o) = 1 .. Cardinality(A)
  BY <1>9 DEF Nodes
<1>12. ReadFrom(d, A, o)
  BY <1>1, <1>4, <1>6, <1>10, <1>11 DEF ReadFrom
<1> QED BY <1>12 DEF A, o

LEMMA ReadNodes ==
  ASSUME NEW d, NEW A, NEW o, ReadFrom(d, A, o)
  PROVE  /\ A \in SUBSET Nat /\ IsFiniteSet(A) /\ IsDocument(d)
         /\ Nodes(o) \in SUBSET Nat
         /\ \A i \in A : Rank(A, i) \in Nodes(o)
         /\ \A i \in A, j \in A : i <= j => Rank(A, i) <= Rank(A, j)
         /\ \A i \in A, j \in A : Rank(A, i) = Rank(A, j) => i = j
         /\ \A x \in Nodes(o) : \E i \in A : x = Rank(A, i)
<1>1. IsDocument(d) /\ A \in SUBSET Nodes(d) /\ Nodes(o) = 1 .. Cardinality(A)
  BY DEF ReadFrom
<1>2. A \in SUBSET Nat /\ IsFiniteSet(A)
  BY <1>1, FirstOfNodes
<1>3. /\ Cardinality(A) \in Nat
      /\ \A i \in A : Rank(A, i) \in 1 .. Cardinality(A)
      /\ \A i \in A, j \in A : i < j => Rank(A, i) < Rank(A, j)
      /\ \A i \in A, j \in A : Rank(A, i) = Rank(A, j) => i = j
      /\ \A m \in 1 .. Cardinality(A) : \E i \in A : Rank(A, i) = m
  BY <1>2, Ranks
<1>4. ASSUME NEW i \in A, NEW j \in A, i <= j PROVE Rank(A, i) <= Rank(A, j)
  BY <1>2, <1>3, <1>4
<1> QED BY <1>1, <1>2, <1>3, <1>4

LEMMA ReadSubtrees ==
  ASSUME NEW d, NEW A, NEW o, ReadFrom(d, A, o), NEW i \in A
  PROVE  /\ Subtree(o, Rank(A, i)) \subseteq Nodes(o)
         /\ \A j \in A : Rank(A, j) \in Subtree(o, Rank(A, i)) <=> j \in Subtree(d, i)
<1> DEFINE hi == i + d[i].size - 1
           c == Cardinality(A \cap Subtree(d, i))
           r == Rank(A, i)
<1>1. /\ A \in SUBSET Nat /\ IsFiniteSet(A) /\ IsDocument(d) /\ i \in Nodes(d)
      /\ Nodes(o) = 1 .. Cardinality(A) /\ Cardinality(A) \in Nat
      /\ \A j \in A : Rank(A, j) \in 1 .. Cardinality(A)
  BY ReadNodes, FS_CardinalityType DEF ReadFrom
<1>2. Subtree(d, i) = i .. hi
  BY DEF Subtree
<1>3. hi \in Nat /\ i <= hi
  <2>1. i \in Subtree(d, i) /\ d[i].size \in Nat /\ i \in Nat
    BY <1>1 DEF IsDocument
  <2> QED BY <1>2, <2>1
<1> HIDE DEF hi
<1>4. /\ c \in Nat /\ r + c <= Cardinality(A) + 1
      /\ \A j \in A : j \in Subtree(d, i) <=> r <= Rank(A, j) /\ Rank(A, j) < r + c
  <2>1. ASSUME NEW j \in A
        PROVE  /\ c \in Nat /\ r + c <= Cardinality(A) + 1
               /\ j \in Subtree(d, i) <=> r <= Rank(A, j) /\ Rank(A, j) < r + c
    BY <1>1, <1>2, <1>3, RankInterval
  <2> QED BY <2>1
<1>5. Subtree(o, r) = r .. r + c - 1
  BY DEF Subtree, ReadFrom
<1> HIDE DEF c, r
<1>6. r \in 1 .. Cardinality(A)
  BY <1>1 DEF r
<1>7. Subtree(o, r) \subseteq Nodes(o)
  BY <1>1, <1>4, <1>5, <1>6
<1>8. ASSUME NEW j \in A
      PROVE  Rank(A, j) \in Subtree(o, r) <=> j \in Subtree(d, i)
  <2>1. Rank(A, j) \in Nat /\ r \in Nat
    BY <1>1, <1>6
  <2> QED BY <1>4, <1>5, <2>1
<1> QED BY <1>7, <1>8 DEF r

LEMMA ReadParents ==
  ASSUME NEW d, NEW A, NEW o, ReadFrom(d, A, o), NEW j \in A, NEW p \in A
  PROVE  Parents(o, Rank(A, j)) = {Rank(A, p)} <=> Parents(d, j) = {p}
<1> DEFINE aboveD == Ancestors(d, j) \ {j}
           aboveO == Ancestors(o, Rank(A, j)) \ {Rank(A, j)}
<1>1. /\ A \in SUBSET Nat /\ IsDocument(d) /\ A \in SUBSET Nodes(d)
      /\ Nodes(o) \in SUBSET Nat
      /\ \A i \in A : Rank(A, i) \in Nodes(o)
      /\ \A i \in A, k \in A : i <= k => Rank(A, i) <= Rank(A, k)
      /\ \A i \in A, k \in A : Rank(A, i) = Rank(A, k) => i = k
      /\ \A x \in Nodes(o) : \E i \in A : x = Rank(A, i)
  <2>1. A \in SUBSET Nodes(d)
    BY DEF ReadFrom
  <2> QED BY <2>1, ReadNodes
<1>2. \A i \in A : Rank(A, i) \in aboveO <=> i \in aboveD
  <2>1. \A i \in A : Rank(A, j) \in Subtree(o, Rank(A, i)) <=> j \in Subtree(d, i)
    BY ReadSubtrees
  <2> QED BY <1>1, <2>1 DEF Ancestors
<1>3. /\ aboveO \subseteq Nodes(o)
      /\ Parents(o, Rank(A, j)) = {x \in aboveO : \A q \in aboveO : q <= x}
      /\ Parents(d, j) = {x \in aboveD : \A q \in aboveD : q <= x}
  BY DEF Ancestors, Parents
<1>4. /\ \A x \in aboveD : x \in Nodes(d) /\ j \in Subtree(d, x) /\ x # j
  BY DEF Ancestors
<1> HIDE DEF aboveD, aboveO
<1>5. ASSUME NEW a \in A, a \in Parents(d, j) PROVE Parents(o, Rank(A, j)) = {Rank(A, a)}
  <2>1. Rank(A, a) \in aboveO
    BY <1>2, <1>3, <1>5
  <2>2. \A x \in aboveO : x <= Rank(A, a)
    <3> SUFFICES ASSUME NEW x \in aboveO PROVE x <= Rank(A, a)
      OBVIOUS
    <3>1. PICK i \in A : x = Rank(A, i)
      BY <1>1, <1>3
    <3>2. i \in aboveD
      BY <1>2, <3>1
    <3> QED BY <1>1, <1>3, <1>5, <3>1, <3>2
  <2>3. \A x \in Parents(o, Rank(A, j)) : x = Rank(A, a)
    <3> SUFFICES ASSUME NEW x \in Parents(o, Rank(A, j)) PROVE x = Rank(A, a)
      OBVIOUS
    <3>1. x \in aboveO /\ x <= Rank(A, a) /\ Rank(A, a) <= x
      BY <1>3, <2>1, <2>2
    <3> QED BY <1>1, <1>3, <2>1, <3>1
  <2> QED BY <1>3, <2>1, <2>2, <2>3
<1>6. ASSUME Parents(o, Rank(A, j)) = {Rank(A, p)} PROVE Parents(d, j) = {p}
  <2>1. Rank(A, p) \in aboveO
    BY <1>3, <1>6
  <2>2. p \in Nodes(d) /\ j \in Nodes(d) /\ j \in Subtree(d, p) /\ p # j
    BY <1>1, <1>2, <1>4, <2>1
  <2>3. j # Root
    <3>1. p <= j /\ p \in Nodes(d) /\ p >= 1
      <4>1. p <= j
        BY <1>1, <2>2, SubtreeInterval
      <4> QED BY <2>2, <4>1 DEF Nodes
    <3>2. Len(d) \in Nat
      BY <1>1 DEF IsDocument
    <3> QED BY <2>2, <3>1, <3>2 DEF Root, Nodes
  <2>4. PICK a \in Nodes(d) : Parents(d, j) = {a}
    BY <1>1, <2>2, <2>3, HasParent
  <2>5. ~ (A \subseteq Subtree(d, j))
    BY <1>1, <2>2, SubtreeAntisymmetric
  <2>6. a \in A
    BY <2>4, <2>5 DEF ReadFrom
  <2>7. Rank(A, a) = Rank(A, p)
    BY <1>5, <1>6, <2>4, <2>6
  <2> QED BY <1>1, <2>4, <2>6, <2>7
<1> QED BY <1>5, <1>6

(* The first child of a name, when it is among the nodes read. *)
LEMMA ReadFirstChild ==
  ASSUME NEW d, NEW A, NEW o, ReadFrom(d, A, o), NEW p \in A, NEW tag,
         NEW c \in A, FirstOf(ChildrenNamed(d, p, tag)) = {c}
  PROVE  FirstOf(ChildrenNamed(o, Rank(A, p), tag)) = {Rank(A, c)}
<1> DEFINE C == ChildrenNamed(d, p, tag)
           N == ChildrenNamed(o, Rank(A, p), tag)
<1>1. /\ A \in SUBSET Nat /\ IsDocument(d) /\ A \in SUBSET Nodes(d)
      /\ Nodes(o) \in SUBSET Nat
      /\ \A i \in A : Rank(A, i) \in Nodes(o) /\ o[Rank(A, i)].tag = d[i].tag
      /\ \A i \in A, k \in A : i <= k => Rank(A, i) <= Rank(A, k)
      /\ \A x \in Nodes(o) : \E i \in A : x = Rank(A, i)
      /\ Subtree(o, Rank(A, p)) \subseteq Nodes(o)
  <2>1. A \in SUBSET Nodes(d) /\ \A i \in A : o[Rank(A, i)].tag = d[i].tag
    BY DEF ReadFrom
  <2>2. Subtree(o, Rank(A, p)) \subseteq Nodes(o)
    BY ReadSubtrees
  <2> QED BY <2>1, <2>2, ReadNodes
<1>2. \A i \in A : Rank(A, i) \in N <=> i \in C
  BY <1>1, ReadSubtrees, ReadParents DEF ChildrenNamed, Children
<1>3. N \in SUBSET Nat /\ N \subseteq Nodes(o)
  BY <1>1 DEF ChildrenNamed, Children
<1>4. C \in SUBSET Nodes(d) /\ C \in SUBSET Nat
  <2>1. C \in SUBSET Nodes(d)
    BY <1>1, NodeSets
  <2> QED BY <1>1, <2>1, FirstOfNodes
<1> HIDE DEF C, N
<1>5. c \in C /\ \A i \in C : c <= i
  BY <1>1, <1>4, FirstOfNodes DEF C
<1>6. Rank(A, c) \in N
  BY <1>2, <1>5
<1>7. \A x \in N : Rank(A, c) <= x
  <2> SUFFICES ASSUME NEW x \in N PROVE Rank(A, c) <= x
    OBVIOUS
  <2>1. PICK i \in A : x = Rank(A, i)
    BY <1>1, <1>3
  <2> QED BY <1>1, <1>2, <1>5, <2>1
<1>8. FirstOf(N) = {Rank(A, c)}
  BY <1>3, <1>6, <1>7, FirstIs
<1> QED BY <1>8 DEF N

(* What is decoded of a message whose first assertion and subject were read *)
(* is decoded of what was read.                                             *)
LEMMA DecodedAsRead ==
  ASSUME NEW d, NEW A, NEW o, ReadFrom(d, A, o),
         NEW a \in A, FirstAssertion(d) = {a},
         FirstChild(d, FirstChild(d, {a}, "Subject"), "NameID") \subseteq A
  PROVE  DecodedSubject(d) \subseteq DecodedSubject(o)
<1> SUFFICES ASSUME NEW n \in FirstChild(d, FirstChild(d, {a}, "Subject"), "NameID"),
                    d[n].text # NoText
             PROVE  d[n].text \in DecodedSubject(o)
  BY DEF DecodedSubject
<1>1. /\ IsDocument(d) /\ A \in SUBSET Nodes(d) /\ n \in A /\ a \in Nodes(d)
      /\ \A i \in A : o[Rank(A, i)].tag = d[i].tag /\ o[Rank(A, i)].text = d[i].text
  BY DEF ReadFrom
<1>2. PICK u : u \in FirstOf(ChildrenNamed(d, a, "Subject"))
               /\ n \in FirstOf(ChildrenNamed(d, u, "NameID"))
  BY DEF FirstChild
<1>3. FirstOf(ChildrenNamed(d, a, "Subject")) = {u}
  BY <1>2 DEF FirstOf
<1>4. FirstOf(ChildrenNamed(d, u, "NameID")) = {n}
  BY <1>2 DEF FirstOf
<1>5. u \in ChildrenNamed(d, a, "Subject") /\ u \in Nodes(d)
  <2>1. ChildrenNamed(d, a, "Subject") \in SUBSET Nodes(d)
    BY <1>1, NodeSets
  <2> QED BY <1>1, <1>2, <2>1, FirstOfNodes
<1>6. n \in ChildrenNamed(d, u, "NameID")
  <2>1. ChildrenNamed(d, u, "NameID") \in SUBSET Nodes(d)
    BY <1>1, <1>5, NodeSets
  <2> QED BY <1>1, <1>2, <2>1, FirstOfNodes
<1>7. u \in A
  <2>1. /\ Parents(d, n) = {u} /\ n \in Subtree(d, u) /\ u \in Subtree(d, a)
        /\ d[n].tag = "NameID"
    BY <1>5, <1>6 DEF ChildrenNamed, Children
  <2>2. d[a].tag = "Assertion"
    <3>1. Named(d, "Assertion") \in SUBSET Nodes(d) /\ a \in FirstOf(Named(d, "Assertion"))
      BY <1>1, NodeSets DEF FirstAssertion
    <3>2. a \in Named(d, "Assertion")
      BY <1>1, <3>1, FirstOfNodes
    <3> QED BY <3>2 DEF Named
  <2>3. n \in Subtree(d, a)
    BY <1>1, <2>1 DEF IsDocument
  <2>4. a \notin Subtree(d, n)
    BY <1>1, <2>1, <2>2, <2>3, SubtreeAntisymmetric
  <2> QED BY <1>1, <2>1, <2>4 DEF ReadFrom
<1>8. FirstAssertion(o) = {Rank(A, a)}
  <2> DEFINE S == Named(d, "Assertion")
             T == Named(o, "Assertion")
  <2>1. S \in SUBSET Nodes(d) /\ T \subseteq Nodes(o) /\ FirstOf(S) = {a}
    BY DEF Named, FirstAssertion
  <2>2. \A i \in A : i \in S <=> Rank(A, i) \in T
    BY <1>1, ReadNodes DEF Named
  <2> HIDE DEF S, T
  <2>3. a \in S /\ \A i \in S : a <= i
    BY <1>1, <2>1, FirstOfNodes
  <2>4. T \in SUBSET Nat /\ Rank(A, a) \in T
    BY <2>1, <2>2, <2>3, ReadNodes
  <2>5. \A x \in T : Rank(A, a) <= x
    <3> SUFFICES ASSUME NEW x \in T PROVE Rank(A, a) <= x
      OBVIOUS
    <3>1. PICK i \in A : x = Rank(A, i)
      BY <2>1, ReadNodes
    <3> QED BY <2>2, <2>3, <3>1, ReadNodes
  <2>6. FirstOf(T) = {Rank(A, a)}
    BY <2>4, <2>5, FirstIs
  <2> QED BY <2>6 DEF T, FirstAssertion
<1>9. FirstOf(ChildrenNamed(o, Rank(A, a), "Subject")) = {Rank(A, u)}
  BY <1>3, <1>7, ReadFirstChild
<1>10. FirstOf(ChildrenNamed(o, Rank(A, u), "NameID")) = {Rank(A, n)}
  BY <1>1, <1>4, <1>7, ReadFirstChild
<1>11. Rank(A, n) \in
         FirstChild(o, FirstChild(o, FirstAssertion(o), "Subject"), "NameID")
  BY <1>8, <1>9, <1>10 DEF FirstChild
<1> QED BY <1>1, <1>11 DEF DecodedSubject
=============================================================================
