----------------------------- MODULE C14nProofs -----------------------------
(***************************************************************************)
(* Proofs about C14n, for every input.  What the serializer relies on when *)
(* it truncates its stack is that below the top lies what was in force     *)
(* before.  So the inductive invariant does not only say that the whole    *)
(* stack agrees with the source: every prefix of it up to an open          *)
(* element's base_len agrees with the elements opened before that one.     *)
(* Opening an element adds a level (OpenFrames), closing one uncovers the  *)
(* level below (CloseFrames).                                              *)
(*                                                                         *)
(* What comes out is then compared with the definition, which knows no     *)
(* walk.  Octets puts tags at the ranks of pairs of numbers (InOrder); the *)
(* walk writes them one by one.  The second invariant (WInv) says that     *)
(* what was written are the tags that precede the next one (Printed,       *)
(* Ahead), and that each start tag declares what follows from the elements *)
(* around it in the source (RenderedFor), which the first invariant gives. *)
(* From there: the octets of Octets when no prefix is guessed              *)
(* (WalkedIsMeant), the same for the subtree alone (StandaloneOctets), and *)
(* the names read back from them (NamesSame).                              *)
(***************************************************************************)
EXTENDS C14n, DocumentLemmas

IsSeq(s) == \E S : s \in Seq(S)

(* The last of the first t declarations of a prefix, and its uri. *)
LastOf(st, t, p) ==
  {k \in 1 .. t : st[k][1] = p /\ \A j \in k + 1 .. t : st[j][1] # p}

Bound(st, t, p) == {st[k][2] : k \in LastOf(st, t, p)}

LEMMA SeqFacts ==
  ASSUME NEW s, IsSeq(s)
  PROVE  Len(s) \in Nat /\ DOMAIN s = 1 .. Len(s) /\ (Len(s) = 0 <=> s = <<>>)
<1>1. PICK S : s \in Seq(S)
  BY DEF IsSeq
<1> QED BY <1>1, LenProperties, EmptySeq

(* The binding found is that of the last declaration of the prefix. *)
LEMMA CurrentBinding ==
  ASSUME NEW st, IsSeq(st), NEW p
  PROVE  current_binding(st, p) = Bound(st, Len(st), p)
<1> DEFINE n == Len(st)
           K == {k \in DOMAIN st : st[k][1] = p}
<1>1. n \in Nat /\ DOMAIN st = 1 .. n
  BY SeqFacts
<1>2. current_binding(st, p) = {st[k][2] : k \in {k \in K : \A j \in K : j <= k}}
  BY DEF current_binding
<1> HIDE DEF n
<1>3. {k \in K : \A j \in K : j <= k} = LastOf(st, n, p)
  BY <1>1 DEF LastOf
<1> QED BY <1>2, <1>3 DEF Bound, n

(* They begin with the same n elements. *)
Same(s, t, n) == \A k \in 1 .. n : s[k] = t[k]

(* The binding depends on the declarations counted alone. *)
LEMMA BoundOfPrefix ==
  ASSUME NEW st, NEW su, NEW t \in Nat, Same(su, st, t), NEW p
  PROVE  Bound(su, t, p) = Bound(st, t, p)
<1>1. LastOf(su, t, p) = LastOf(st, t, p)
  <2>1. \A k \in 1 .. t : \A j \in k + 1 .. t : j \in 1 .. t
    OBVIOUS
  <2> QED BY <2>1 DEF LastOf, Same
<1>2. LastOf(st, t, p) \subseteq 1 .. t
  BY DEF LastOf
<1> QED BY <1>1, <1>2 DEF Bound, Same

(* More declarations: one of the prefix among them is the last, if no other *)
(* among them is of that prefix; without one it stays as it was.            *)
LEMMA BoundByNew ==
  ASSUME NEW st, NEW t \in Nat, NEW u \in Nat, t <= u, NEW p
  PROVE  /\ (\A k \in t + 1 .. u : st[k][1] # p) => Bound(st, u, p) = Bound(st, t, p)
         /\ \A k \in t + 1 .. u :
              st[k][1] = p /\ (\A j \in t + 1 .. u : st[j][1] = p => j = k) =>
                Bound(st, u, p) = {st[k][2]}
<1>1. ASSUME \A k \in t + 1 .. u : st[k][1] # p
      PROVE  Bound(st, u, p) = Bound(st, t, p)
  <2>1. \A k \in 1 .. u : k \in 1 .. t \/ k \in t + 1 .. u
    OBVIOUS
  <2>2. \A k \in 1 .. t : \A j \in k + 1 .. u : j \in k + 1 .. t \/ j \in t + 1 .. u
    OBVIOUS
  <2>3. \A k \in 1 .. t : k \in 1 .. u /\ \A j \in k + 1 .. t : j \in k + 1 .. u
    OBVIOUS
  <2>4. LastOf(st, u, p) = LastOf(st, t, p)
    BY <1>1, <2>1, <2>2, <2>3 DEF LastOf
  <2> QED BY <2>4 DEF Bound
<1>2. ASSUME NEW k \in t + 1 .. u, st[k][1] = p,
             \A j \in t + 1 .. u : st[j][1] = p => j = k
      PROVE  Bound(st, u, p) = {st[k][2]}
  <2>1. k \in LastOf(st, u, p)
    BY <1>2 DEF LastOf
  <2>2. ASSUME NEW j \in LastOf(st, u, p) PROVE j = k
    <3>1. j \in 1 .. u /\ st[j][1] = p /\ \A i \in j + 1 .. u : st[i][1] # p
      BY DEF LastOf
    <3>2. ~ (k \in j + 1 .. u)
      BY <1>2, <3>1
    <3>3. j \in t + 1 .. u
      BY <3>1, <3>2
    <3> QED BY <1>2, <3>1, <3>3
  <2>3. LastOf(st, u, p) = {k}
    BY <2>1, <2>2
  <2> QED BY <2>3 DEF Bound
<1> QED BY <1>1, <1>2

-----------------------------------------------------------------------------
(* The declarations in scope, and the order they are looked up in. *)
LEMMA InScope ==
  ASSUME NEW m, NEW i, NEW d
  PROVE  d \in Namespaces(m, i) <=>
           /\ d = <<d[1], d[2]>>
           /\ d[1] \in Ancestors(m, i)
           /\ d[2] \in DOMAIN m[d[1]].decls
           /\ \A j \in Ancestors(m, i) :
                j > d[1] => ~ Declares(m, j, Declaration(m, d)[1])
BY DEF Namespaces

LEMMA ScopeTyped ==
  ASSUME NEW inp, IsInput(inp), NEW i, NEW d \in Namespaces(inp.nodes, i)
  PROVE  /\ d[1] \in Nat /\ d[2] \in Nat /\ d[1] \in Nodes(inp.nodes)
         /\ d[2] \in DOMAIN inp.nodes[d[1]].decls
<1>1. d[1] \in Nodes(inp.nodes) /\ d[2] \in DOMAIN inp.nodes[d[1]].decls
  BY InScope DEF Ancestors
<1>2. d[1] \in Nat /\ d[2] \in 1 .. Len(inp.nodes[d[1]].decls)
      /\ Len(inp.nodes[d[1]].decls) \in Nat
  BY <1>1 DEF IsInput, Nodes
<1> QED BY <1>1, <1>2

(* A prefix is declared once in a scope. *)
LEMMA ScopeOnce ==
  ASSUME NEW inp, IsInput(inp), NEW i,
         NEW d \in Namespaces(inp.nodes, i), NEW e \in Namespaces(inp.nodes, i),
         Declaration(inp.nodes, d)[1] = Declaration(inp.nodes, e)[1]
  PROVE  d = e
<1> DEFINE m == inp.nodes
<1>1. /\ d = <<d[1], d[2]>> /\ d[1] \in Ancestors(m, i)
      /\ \A j \in Ancestors(m, i) : j > d[1] => ~ Declares(m, j, Declaration(m, d)[1])
      /\ e = <<e[1], e[2]>> /\ e[1] \in Ancestors(m, i)
      /\ \A j \in Ancestors(m, i) : j > e[1] => ~ Declares(m, j, Declaration(m, e)[1])
  BY InScope
<1>2. /\ d[1] \in Nat /\ d[2] \in DOMAIN m[d[1]].decls /\ d[1] \in Nodes(m)
      /\ e[1] \in Nat /\ e[2] \in DOMAIN m[e[1]].decls
  BY ScopeTyped
<1>3. Declares(m, d[1], Declaration(m, d)[1]) /\ Declares(m, e[1], Declaration(m, e)[1])
  BY <1>2 DEF Declares, Declaration
<1>4. ~ (e[1] > d[1]) /\ ~ (d[1] > e[1])
  BY <1>1, <1>3
<1>5. d[1] = e[1]
  BY <1>2, <1>4
<1>6. d[2] = e[2]
  BY <1>2, <1>5 DEF IsInput, Declaration
<1> QED BY <1>1, <1>5, <1>6

(* Each lookup finds one thing at most. *)
AtMostOne(S) == \A x \in S, y \in S : x = y

LEMMA Lookups ==
  ASSUME NEW inp, IsInput(inp), NEW i
  PROVE  /\ \A p : AtMostOne(lookup_namespace_uri(inp.nodes, i, p))
         /\ \A a : AtMostOne(AttrPrefix(inp.nodes, i, a))
<1> DEFINE m == inp.nodes
<1>1. ASSUME NEW p PROVE AtMostOne(lookup_namespace_uri(m, i, p))
  BY ScopeOnce DEF AtMostOne, lookup_namespace_uri
<1>2. ASSUME NEW u PROVE AtMostOne(lookup_prefix(m, i, u))
  <2>1. CASE u = XmlUri
    BY <2>1 DEF AtMostOne, lookup_prefix
  <2>2. CASE u # XmlUri
    <3> DEFINE bound == {d \in Namespaces(m, i) : Declaration(m, d)[2] = u}
               near == {d \in bound : \A e \in bound : e[1] <= d[1]}
               first == {d \in near : \A e \in near : d[2] <= e[2]}
    <3>1. lookup_prefix(m, i, u) = {Declaration(m, d)[1] : d \in first} \ {NoPrefix}
      BY <2>2 DEF lookup_prefix
    <3>2. ASSUME NEW d \in first, NEW e \in first PROVE Declaration(m, d) = Declaration(m, e)
      <4>1. d[1] \in Nat /\ d[2] \in Nat /\ e[1] \in Nat /\ e[2] \in Nat
        BY ScopeTyped
      <4>2. d[1] <= e[1] /\ e[1] <= d[1] /\ d[2] <= e[2] /\ e[2] <= d[2]
        OBVIOUS
      <4>3. d[1] = e[1] /\ d[2] = e[2]
        BY <4>1, <4>2
      <4> QED BY <4>3 DEF Declaration
    <3> HIDE DEF first
    <3> QED BY <3>1, <3>2 DEF AtMostOne
  <2> QED BY <2>1, <2>2
<1>3. ASSUME NEW a PROVE AtMostOne(AttrNamespace(m, i, a))
  <2>1. CASE a.prefix = NoPrefix
    BY <2>1 DEF AtMostOne, AttrNamespace
  <2>2. CASE a.prefix = "xml"
    <3>1. AttrNamespace(m, i, a) = {XmlUri}
      BY <2>2 DEF AttrNamespace
    <3> QED BY <3>1 DEF AtMostOne
  <2>3. CASE a.prefix # NoPrefix /\ a.prefix # "xml"
    <3>1. AttrNamespace(m, i, a) = lookup_namespace_uri(m, i, a.prefix)
      BY <2>3 DEF AttrNamespace
    <3> QED BY <1>1, <3>1
  <2> QED BY <2>1, <2>2, <2>3
<1>4. ASSUME NEW a PROVE AtMostOne(AttrPrefix(m, i, a))
  BY <1>2, <1>3 DEF AtMostOne, AttrPrefix
<1> QED BY <1>1, <1>4

(* What a start tag utilizes is finite. *)
LEMMA UtilizedFinite ==
  ASSUME NEW inp, IsInput(inp), NEW i \in Nodes(inp.nodes)
  PROVE  IsFiniteSet(Utilized(inp, i))
<1> DEFINE m == inp.nodes
           attrs == m[i].attrs
           used == UNION {AttrPrefix(m, i, a) : a \in attrs}
           by == [p \in used |-> CHOOSE a \in attrs : p \in AttrPrefix(m, i, a)]
<1>1. IsFiniteSet(attrs) /\ IsFiniteSet(inp.incl)
  BY DEF IsInput
<1>2. \A p \in used : by[p] \in attrs /\ p \in AttrPrefix(m, i, by[p])
  OBVIOUS
<1>3. by \in Injection(used, attrs)
  <2>1. by \in [used -> attrs]
    BY <1>2
  <2>2. \A p, q \in used : by[p] = by[q] => p = q
    BY <1>2, Lookups DEF AtMostOne
  <2> HIDE DEF by, used
  <2> QED BY <2>1, <2>2 DEF Injection, IsInjective
<1>4. IsFiniteSet(used)
  <2> HIDE DEF by, used, attrs
  <2> QED BY <1>1, <1>3, FS_Injection
<1>5. Utilized(inp, i) = (used \cup inp.incl) \cup {m[i].prefix}
  <2>1. Utilized(inp, i) = {m[i].prefix} \cup used \cup inp.incl
    BY DEF Utilized
  <2> HIDE DEF used, m
  <2> QED BY <2>1
<1> HIDE DEF used, m
<1>6. IsFiniteSet(used \cup inp.incl)
  BY <1>1, <1>4, FS_Union
<1>7. IsFiniteSet((used \cup inp.incl) \cup {m[i].prefix})
  BY <1>6, FS_AddElement
<1> QED BY <1>5, <1>7

(* The last declaration of a prefix is one. *)
LEMMA BoundOnce ==
  ASSUME NEW st, NEW t \in Nat, NEW p
  PROVE  AtMostOne(Bound(st, t, p))
<1>1. ASSUME NEW k \in LastOf(st, t, p), NEW j \in LastOf(st, t, p) PROVE k = j
  <2>1. /\ k \in 1 .. t /\ st[k][1] = p /\ \A l \in k + 1 .. t : st[l][1] # p
        /\ j \in 1 .. t /\ st[j][1] = p /\ \A l \in j + 1 .. t : st[l][1] # p
    BY DEF LastOf
  <2>2. ~ (j \in k + 1 .. t) /\ ~ (k \in j + 1 .. t)
    BY <2>1
  <2> QED BY <2>1, <2>2
<1> QED BY <1>1 DEF AtMostOne, Bound

Source(inp, i, p) == lookup_namespace_uri(inp.nodes, i, p) \ {NoUri}

(* An element sees to it that a prefix is bound as in the source. *)
Binds(inp, i, p) ==
  p \in Utilized(inp, i) /\ (p = NoPrefix \/ Source(inp, i, p) # {})

(* What a start tag declares: utilized prefixes, each once, so that what is *)
(* bound then is what the source binds.                                     *)
LEMMA Rendered ==
  ASSUME NEW inp, IsInput(inp), NEW i, NEW st, IsSeq(st)
  PROVE  /\ \A x \in ToRender(inp, i, st) : Binds(inp, i, x[1])
         /\ \A x \in ToRender(inp, i, st), y \in ToRender(inp, i, st) :
              x[1] = y[1] => x = y
         /\ \A p : Binds(inp, i, p) =>
              /\ \A x \in ToRender(inp, i, st) :
                   x[1] = p => {x[2]} \ {NoUri} = Source(inp, i, p)
              /\ (\A x \in ToRender(inp, i, st) : x[1] # p) =>
                   current_binding(st, p) \ {NoUri} = Source(inp, i, p)
<1> DEFINE D == ToRender(inp, i, st)
           U == Utilized(inp, i)
           Undeclared == /\ NoPrefix \in U
                         /\ Source(inp, i, NoPrefix) = {}
                         /\ current_binding(st, NoPrefix) \ {NoUri} # {}
<1>1. D = (UNION {{<<p, u>> : u \in Source(inp, i, p) \ current_binding(st, p)} : p \in U})
            \cup (IF Undeclared THEN {<<NoPrefix, NoUri>>} ELSE {})
  BY DEF ToRender, Source
<1>2. \A p : AtMostOne(Source(inp, i, p)) /\ AtMostOne(current_binding(st, p))
  <2>1. \A p : AtMostOne(lookup_namespace_uri(inp.nodes, i, p))
    BY Lookups
  <2>2. ASSUME NEW p PROVE AtMostOne(current_binding(st, p))
    BY CurrentBinding, BoundOnce, SeqFacts
  <2> QED BY <2>1, <2>2 DEF AtMostOne, Source
<1> HIDE DEF D, U
<1>3. \A x : x \in D <=>
        \/ \E p \in U : \E u \in Source(inp, i, p) \ current_binding(st, p) : x = <<p, u>>
        \/ Undeclared /\ x = <<NoPrefix, NoUri>>
  BY <1>1
<1>4. ASSUME NEW x \in D
      PROVE  /\ x[1] \in U /\ x = <<x[1], x[2]>>
             /\ \/ x[2] \in Source(inp, i, x[1])
                \/ x[1] = NoPrefix /\ x[2] = NoUri /\ Source(inp, i, NoPrefix) = {}
  <2>1. CASE Undeclared /\ x = <<NoPrefix, NoUri>>
    BY <2>1
  <2>2. CASE \E p \in U : \E u \in Source(inp, i, p) \ current_binding(st, p) : x = <<p, u>>
    <3>1. PICK p \in U : \E u \in Source(inp, i, p) \ current_binding(st, p) : x = <<p, u>>
      BY <2>2
    <3>2. PICK u \in Source(inp, i, p) \ current_binding(st, p) : x = <<p, u>>
      BY <3>1
    <3> QED BY <3>2
  <2> QED BY <1>3, <2>1, <2>2
<1>5. ASSUME NEW x \in D, NEW y \in D, x[1] = y[1] PROVE x = y
  <2>1. x[2] = y[2]
    <3>1. x[2] \in Source(inp, i, x[1]) /\ y[2] \in Source(inp, i, x[1]) => x[2] = y[2]
      BY <1>2 DEF AtMostOne
    <3> QED BY <1>4, <1>5, <3>1
  <2>2. x = <<x[1], x[2]>> /\ y = <<y[1], y[2]>>
    BY <1>4
  <2> QED BY <1>5, <2>1, <2>2
<1>6. ASSUME NEW p \in U, p = NoPrefix \/ Source(inp, i, p) # {}, NEW x \in D, x[1] = p
      PROVE  {x[2]} \ {NoUri} = Source(inp, i, p)
  <2>1. CASE x[2] \in Source(inp, i, p)
    <3>1. Source(inp, i, p) = {x[2]} /\ x[2] # NoUri
      BY <1>2, <2>1 DEF AtMostOne, Source
    <3> QED BY <3>1
  <2>2. CASE x[2] \notin Source(inp, i, p)
    BY <1>4, <1>6, <2>2
  <2> QED BY <2>1, <2>2
<1>7. ASSUME NEW p \in U, p = NoPrefix \/ Source(inp, i, p) # {}, \A x \in D : x[1] # p
      PROVE  current_binding(st, p) \ {NoUri} = Source(inp, i, p)
  <2>1. ASSUME NEW u \in Source(inp, i, p) PROVE u \in current_binding(st, p)
    <3>1. <<p, u>>[1] = p
      OBVIOUS
    <3>2. <<p, u>> \notin D
      BY <1>7, <3>1
    <3> QED BY <1>3, <3>2
  <2>2. CASE Source(inp, i, p) # {}
    <3>1. PICK u : u \in Source(inp, i, p)
      BY <2>2
    <3>2. Source(inp, i, p) = {u} /\ current_binding(st, p) = {u} /\ u # NoUri
      BY <1>2, <2>1, <3>1 DEF AtMostOne, Source
    <3> QED BY <3>2
  <2>3. CASE Source(inp, i, p) = {}
    <3>1. p = NoPrefix
      BY <1>7, <2>3
    <3>2. ~ Undeclared
      <4>1. <<NoPrefix, NoUri>>[1] = NoPrefix
        OBVIOUS
      <4>2. <<NoPrefix, NoUri>> \notin D
        BY <1>7, <3>1, <4>1
      <4> QED BY <1>3, <4>2
    <3> QED BY <2>3, <3>1, <3>2
  <2> QED BY <2>2, <2>3
<1>8. \A x \in D : Binds(inp, i, x[1])
  BY <1>4 DEF Binds, U
<1> QED BY <1>5, <1>6, <1>7, <1>8 DEF D, U, Binds

LEMMA RenderedFinite ==
  ASSUME NEW inp, IsInput(inp), NEW i \in Nodes(inp.nodes), NEW st, IsSeq(st)
  PROVE  IsFiniteSet(ToRender(inp, i, st))
<1> DEFINE D == ToRender(inp, i, st)
           f == [x \in D |-> x[1]]
<1>1. f \in Injection(D, Utilized(inp, i))
  <2>1. f \in [D -> Utilized(inp, i)]
    BY Rendered DEF Binds
  <2>2. \A x, y \in D : f[x] = f[y] => x = y
    BY Rendered
  <2> HIDE DEF f, D
  <2> QED BY <2>1, <2>2 DEF Injection, IsInjective
<1>2. IsFiniteSet(Utilized(inp, i))
  BY UtilizedFinite
<1> HIDE DEF f, D
<1>3. IsFiniteSet(D)
  BY <1>1, <1>2, FS_Injection
<1> QED BY <1>3 DEF D

(* A finite set as a sequence, whatever the order. *)
LEMMA SetToSeqIs ==
  ASSUME NEW S, IsFiniteSet(S)
  PROVE  /\ SetToSeq(S) \in Seq(S)
         /\ \A x \in S : \E k \in 1 .. Len(SetToSeq(S)) : SetToSeq(S)[k] = x
         /\ \A j \in 1 .. Len(SetToSeq(S)), k \in 1 .. Len(SetToSeq(S)) :
              SetToSeq(S)[j] = SetToSeq(S)[k] => j = k
<1> DEFINE n == Cardinality(S)
           s == SetToSeq(S)
<1>1. n \in Nat /\ ExistsBijection(1 .. n, S)
  BY FS_CardinalityType
<1>2. \E f \in [1 .. n -> S] : IsInjective(f)
  BY <1>1 DEF ExistsBijection, Bijection, Injection
<1>3. s \in [1 .. n -> S] /\ IsInjective(s)
  BY <1>2 DEF SetToSeq
<1> HIDE DEF s, n
<1>4. s \in Injection(1 .. n, S)
  BY <1>3 DEF Injection
<1>5. s \in Surjection(1 .. n, S)
  <2>1. Cardinality(1 .. n) = n
    BY <1>1, FS_Interval
  <2> QED BY <1>4, <2>1, FS_Injection DEF n
<1>6. s \in Seq(S) /\ Len(s) = n /\ DOMAIN s = 1 .. n
  BY <1>1, <1>3
<1> QED BY <1>3, <1>5, <1>6 DEF s, IsInjective, Surjection

-----------------------------------------------------------------------------
(* The declarations in force inside the lth open element are the first      *)
(* Top of the stack; outside them all, none.                                *)
Top(fr, st, l) == IF l = Len(fr) THEN Len(st) ELSE fr[l + 1].base_len

(* Among t declarations, those of the first l open elements: each prefix as *)
(* the innermost of them that utilizes it has it in the source.             *)
AgreesUpTo(inp, fr, l, st, t) ==
  /\ \A n \in 1 .. l : \A p :
       /\ \A k \in n + 1 .. l : p \notin Utilized(inp, fr[k].node)
       /\ Binds(inp, fr[n].node, p)
       => Bound(st, t, p) \ {NoUri} = Source(inp, fr[n].node, p)
  /\ \A k \in 1 .. t : \E n \in 1 .. l : Binds(inp, fr[n].node, st[k][1])

(* After the first b, up to the uth, no prefix is declared twice. *)
DeclaresOnce(st, b, u) ==
  \A j \in b + 1 .. u, k \in b + 1 .. u : st[j][1] = st[k][1] => j = k

(* So it is at every depth, not only the last: an element closed uncovers   *)
(* what was in force before it.                                             *)
Frames(inp, fr, st) ==
  /\ IsSeq(st)
  /\ fr \in Seq([node : Nodes(inp.nodes), base_len : Nat])
  /\ Top(fr, st, 0) = 0
  /\ \A l \in 0 .. Len(fr) : Top(fr, st, l) \in 0 .. Len(st)
  /\ \A m \in 0 .. Len(fr) : \A l \in 0 .. m : Top(fr, st, l) <= Top(fr, st, m)
  /\ \A l \in 1 .. Len(fr) : DeclaresOnce(st, fr[l].base_len, Top(fr, st, l))
  /\ \A l \in 0 .. Len(fr) : AgreesUpTo(inp, fr, l, st, Top(fr, st, l))

(* The elements open are nested in the subtree, and the walk is in it.      *)
Walk(inp, a, fr) ==
  /\ a \in inp.apex .. inp.apex + inp.nodes[inp.apex].size
  /\ \A n \in 1 .. Len(fr) :
       /\ fr[n].node \in Subtree(inp.nodes, inp.apex)
       /\ n > 1 => fr[n].node \in Subtree(inp.nodes, fr[n - 1].node)

(* The inductive invariant. *)
IInv ==
  /\ input \in Inputs
  /\ Frames(input, open, rendered)
  /\ Walk(input, at, open)

-----------------------------------------------------------------------------
(* Agreement speaks of the elements and declarations counted alone. *)
LEMMA AgreesStable ==
  ASSUME NEW inp, NEW fr, NEW gr, NEW l \in Nat, NEW st, NEW su, NEW t \in Nat,
         AgreesUpTo(inp, fr, l, st, t),
         Same(gr, fr, l), Same(su, st, t)
  PROVE  AgreesUpTo(inp, gr, l, su, t)
<1>1. ASSUME NEW n \in 1 .. l, NEW p, Binds(inp, gr[n].node, p),
             \A k \in n + 1 .. l : p \notin Utilized(inp, gr[k].node)
      PROVE  Bound(su, t, p) \ {NoUri} = Source(inp, gr[n].node, p)
  <2>1. gr[n] = fr[n] /\ \A k \in n + 1 .. l : gr[k] = fr[k]
    BY DEF Same
  <2>2. Bound(su, t, p) = Bound(st, t, p)
    BY BoundOfPrefix
  <2>3. Bound(st, t, p) \ {NoUri} = Source(inp, fr[n].node, p)
    BY <1>1, <2>1 DEF AgreesUpTo
  <2> QED BY <2>1, <2>2, <2>3
<1>2. ASSUME NEW k \in 1 .. t
      PROVE  \E n \in 1 .. l : Binds(inp, gr[n].node, su[k][1])
  BY DEF AgreesUpTo, Same
<1> QED BY <1>1, <1>2 DEF AgreesUpTo

(* The declarations of a start tag on top of what is in force. *)
Pushed(inp, i, st, su, u) ==
  /\ Len(st) <= u
  /\ Same(su, st, Len(st))
  /\ \A k \in Len(st) + 1 .. u : su[k] \in ToRender(inp, i, st)
  /\ \A x \in ToRender(inp, i, st) : \E k \in Len(st) + 1 .. u : su[k] = x
  /\ \A j \in Len(st) + 1 .. u, k \in Len(st) + 1 .. u : su[j] = su[k] => j = k

(* A start tag declares no prefix twice. *)
LEMMA PushedOnce ==
  ASSUME NEW inp, IsInput(inp), NEW i, NEW st, IsSeq(st), NEW su, NEW u \in Nat,
         Pushed(inp, i, st, su, u)
  PROVE  DeclaresOnce(su, Len(st), u)
BY Rendered DEF Pushed, DeclaresOnce

(* With the declarations of its start tag an element agrees. *)
LEMMA AgreesByNew ==
  ASSUME NEW inp, IsInput(inp), NEW fr, NEW l \in Nat, NEW st, IsSeq(st),
         NEW su, NEW u \in Nat,
         AgreesUpTo(inp, fr, l, su, Len(st)),
         Pushed(inp, fr[l + 1].node, st, su, u)
  PROVE  AgreesUpTo(inp, fr, l + 1, su, u)
<1> DEFINE i == fr[l + 1].node
           D == ToRender(inp, i, st)
           t == Len(st)
<1>1. t \in Nat
  BY SeqFacts
<1>2. /\ \A x \in D : Binds(inp, i, x[1])
      /\ \A x \in D, y \in D : x[1] = y[1] => x = y
      /\ \A p : Binds(inp, i, p) =>
           /\ \A x \in D : x[1] = p => {x[2]} \ {NoUri} = Source(inp, i, p)
           /\ (\A x \in D : x[1] # p) =>
                current_binding(st, p) \ {NoUri} = Source(inp, i, p)
  BY Rendered
<1>3. /\ \A k \in t + 1 .. u : su[k] \in D
      /\ \A x \in D : \E k \in t + 1 .. u : su[k] = x
      /\ \A j \in t + 1 .. u, k \in t + 1 .. u : su[j] = su[k] => j = k
  BY DEF Pushed
<1>4. \A p : Bound(su, t, p) = current_binding(st, p)
  <2> SUFFICES ASSUME NEW p PROVE Bound(su, t, p) = current_binding(st, p)
    OBVIOUS
  <2>1. current_binding(st, p) = Bound(st, t, p)
    BY CurrentBinding
  <2> HIDE DEF t, D, i
  <2>2. Bound(su, t, p) = Bound(st, t, p)
    <3>1. Same(su, st, t)
      BY DEF t, Pushed
    <3> QED BY <1>1, <3>1, BoundOfPrefix
  <2> QED BY <2>1, <2>2
<1>5. AgreesUpTo(inp, fr, l, su, t) /\ t <= u
  BY DEF Pushed
<1>6. \A j \in t + 1 .. u, k \in t + 1 .. u : su[j][1] = su[k][1] => j = k
  BY PushedOnce DEF DeclaresOnce
<1> HIDE DEF D, t
<1>7. ASSUME NEW p, \A x \in D : x[1] # p PROVE Bound(su, u, p) = Bound(su, t, p)
  <2>1. \A k \in t + 1 .. u : su[k][1] # p
    BY <1>3, <1>7
  <2> QED BY <1>1, <1>5, <2>1, BoundByNew
<1>8. ASSUME NEW n \in 1 .. l + 1, NEW p, Binds(inp, fr[n].node, p),
             \A k \in n + 1 .. l + 1 : p \notin Utilized(inp, fr[k].node)
      PROVE  Bound(su, u, p) \ {NoUri} = Source(inp, fr[n].node, p)
  <2>1. CASE n = l + 1
    <3>1. Binds(inp, i, p)
      BY <1>8, <2>1
    <3>2. CASE \A x \in D : x[1] # p
      <4>1. Bound(su, u, p) = current_binding(st, p)
        BY <1>4, <1>7, <3>2
      <4> QED BY <1>2, <2>1, <3>1, <3>2, <4>1
    <3>3. CASE \E x \in D : x[1] = p
      <4>1. PICK x \in D : x[1] = p
        BY <3>3
      <4>2. PICK k \in t + 1 .. u : su[k] = x
        BY <1>3
      <4>3. su[k][1] = p
        BY <4>1, <4>2
      <4>4. \A j \in t + 1 .. u : su[j][1] = p => j = k
        BY <1>6, <4>3
      <4>5. Bound(su, u, p) = {su[k][2]}
        BY <1>1, <1>5, <4>3, <4>4, BoundByNew
      <4>6. {x[2]} \ {NoUri} = Source(inp, i, p)
        BY <1>2, <3>1, <4>1
      <4> QED BY <2>1, <4>2, <4>5, <4>6
    <3> QED BY <3>2, <3>3
  <2>2. CASE n # l + 1
    <3>1. n \in 1 .. l /\ l + 1 \in n + 1 .. l + 1
          /\ \A k \in n + 1 .. l : k \in n + 1 .. l + 1
      BY <2>2
    <3>2. p \notin Utilized(inp, i)
      BY <1>8, <3>1
    <3>3. Bound(su, u, p) = Bound(su, t, p)
      BY <1>2, <1>7, <3>2 DEF Binds
    <3>4. Bound(su, t, p) \ {NoUri} = Source(inp, fr[n].node, p)
      BY <1>5, <1>8, <3>1 DEF AgreesUpTo
    <3> QED BY <3>3, <3>4
  <2> QED BY <2>1, <2>2
<1>9. ASSUME NEW k \in 1 .. u
      PROVE  \E n \in 1 .. l + 1 : Binds(inp, fr[n].node, su[k][1])
  <2>1. CASE k \in 1 .. t
    <3>1. PICK n \in 1 .. l : Binds(inp, fr[n].node, su[k][1])
      BY <1>5, <2>1 DEF AgreesUpTo
    <3> QED BY <3>1
  <2>2. CASE k \in t + 1 .. u
    <3>1. Binds(inp, fr[l + 1].node, su[k][1]) /\ l + 1 \in 1 .. l + 1
      BY <1>2, <1>3, <2>2
    <3> QED BY <3>1
  <2> QED BY <1>1, <2>1, <2>2
<1>10. AgreesUpTo(inp, fr, l + 1, su, u)
  BY <1>8, <1>9 DEF AgreesUpTo
<1> QED BY <1>10

(* OpenElement adds a level that agrees. *)
LEMMA OpenFrames ==
  ASSUME NEW inp, IsInput(inp), NEW fr, NEW st, Frames(inp, fr, st),
         NEW i \in Nodes(inp.nodes)
  PROVE  Frames(inp, Append(fr, [node |-> i, base_len |-> Len(st)]),
                st \o SetToSeq(ToRender(inp, i, st)))
<1> DEFINE D == ToRender(inp, i, st)
           new == SetToSeq(D)
           f == [node |-> i, base_len |-> Len(st)]
           gr == Append(fr, f)
           su == st \o new
           L == Len(fr)
           t == Len(st)
           u == Len(su)
           F == [node : Nodes(inp.nodes), base_len : Nat]
<1>1. IsSeq(st) /\ t \in Nat /\ fr \in Seq(F) /\ L \in Nat
  BY SeqFacts DEF Frames
<1>2. IsFiniteSet(D)
  BY <1>1, RenderedFinite
<1> HIDE DEF D
<1>3. /\ new \in Seq(D) /\ Len(new) \in Nat
      /\ \A x \in D : \E k \in 1 .. Len(new) : new[k] = x
      /\ \A j \in 1 .. Len(new), k \in 1 .. Len(new) : new[j] = new[k] => j = k
      /\ \A k \in 1 .. Len(new) : new[k] \in D
  BY <1>2, SetToSeqIs
<1> HIDE DEF new
<1>4. /\ IsSeq(su) /\ u = t + Len(new)
      /\ \A k \in 1 .. t : su[k] = st[k]
      /\ \A k \in t + 1 .. u : su[k] = new[k - t]
  <2>1. PICK S : st \in Seq(S)
    BY <1>1 DEF IsSeq
  <2>2. st \in Seq(S \cup D) /\ new \in Seq(S \cup D)
    BY <1>3, <2>1, SeqMonotonic
  <2>3. /\ su \in Seq(S \cup D) /\ u = t + Len(new)
        /\ \A k \in 1 .. t + Len(new) : su[k] = IF k <= t THEN st[k] ELSE new[k - t]
    BY <2>2, ConcatProperties
  <2> HIDE DEF su, t, u
  <2>4. IsSeq(su)
    BY <2>3 DEF IsSeq
  <2>5. \A k \in 1 .. t : k \in 1 .. t + Len(new) /\ k <= t
    BY <1>1, <1>3
  <2>6. \A k \in t + 1 .. u : k \in 1 .. t + Len(new) /\ ~ (k <= t)
    BY <1>1, <1>3, <2>3
  <2> QED BY <2>3, <2>4, <2>5, <2>6
<1>5. /\ gr \in Seq(F) /\ Len(gr) = L + 1 /\ gr[L + 1] = f
      /\ \A n \in 1 .. L : gr[n] = fr[n]
  <2>1. f \in F
    BY <1>1
  <2> HIDE DEF f, F
  <2> QED BY <1>1, <2>1, AppendProperties
<1>6. f.node = i /\ f.base_len = t
  OBVIOUS
<1> HIDE DEF gr, su, L, t, u, f
<1>7. u \in Nat /\ t <= u
  BY <1>1, <1>3, <1>4
<1>8. /\ \A k \in t + 1 .. u : su[k] \in D
      /\ \A x \in D : \E k \in t + 1 .. u : su[k] = x
      /\ \A j \in t + 1 .. u, k \in t + 1 .. u : su[j] = su[k] => j = k
  <2>1. \A k \in t + 1 .. u : k - t \in 1 .. Len(new)
    BY <1>1, <1>3, <1>4
  <2>2. \A k \in 1 .. Len(new) : t + k \in t + 1 .. u /\ (t + k) - t = k
    BY <1>1, <1>3, <1>4
  <2>3. \A k \in t + 1 .. u : su[k] \in D
    BY <1>3, <1>4, <2>1
  <2>4. ASSUME NEW x \in D PROVE \E k \in t + 1 .. u : su[k] = x
    <3>1. PICK k \in 1 .. Len(new) : new[k] = x
      BY <1>3
    <3>2. t + k \in t + 1 .. u /\ (t + k) - t = k
      BY <2>2
    <3>3. su[t + k] = x
      BY <1>4, <3>1, <3>2
    <3> QED BY <3>2, <3>3
  <2>5. ASSUME NEW j \in t + 1 .. u, NEW k \in t + 1 .. u, su[j] = su[k] PROVE j = k
    <3>1. su[j] = new[j - t] /\ su[k] = new[k - t]
      BY <1>4
    <3>2. j - t = k - t
      BY <1>3, <2>1, <2>5, <3>1
    <3> QED BY <1>1, <3>2
  <2> QED BY <2>3, <2>4, <2>5
<1>9. /\ Top(gr, su, L + 1) = u
      /\ \A l \in 0 .. L : Top(gr, su, l) = Top(fr, st, l)
      /\ Top(fr, st, L) = t
  <2>1. Top(gr, su, L + 1) = u /\ Top(fr, st, L) = t
    BY <1>5 DEF Top, u, L, t
  <2>2. Top(gr, su, L) = t
    BY <1>1, <1>5, <1>6 DEF Top
  <2>3. \A l \in 0 .. L : l # L => /\ l # Len(gr) /\ l # Len(fr) /\ l + 1 \in 1 .. L
    BY <1>1, <1>5 DEF L
  <2>4. \A l \in 0 .. L : l # L => Top(gr, su, l) = Top(fr, st, l)
    BY <1>5, <2>3 DEF Top
  <2> QED BY <2>1, <2>2, <2>4
<1>10. /\ \A l \in 0 .. L : Top(fr, st, l) \in 0 .. t
       /\ \A l \in 0 .. L : AgreesUpTo(inp, fr, l, st, Top(fr, st, l))
       /\ Top(fr, st, 0) = 0
       /\ \A m \in 0 .. L : \A l \in 0 .. m : Top(fr, st, l) <= Top(fr, st, m)
       /\ \A l \in 1 .. L : DeclaresOnce(st, fr[l].base_len, Top(fr, st, l))
  BY DEF Frames, L, t
<1>11. ASSUME NEW l \in 0 .. L
       PROVE  AgreesUpTo(inp, gr, l, su, Top(fr, st, l))
  <2>1. PICK c \in 0 .. t : c = Top(fr, st, l)
    BY <1>10
  <2>2. AgreesUpTo(inp, fr, l, st, c) /\ c \in Nat /\ l \in Nat
    BY <1>1, <1>10, <2>1
  <2>3. Same(gr, fr, l) /\ Same(su, st, c)
    BY <1>1, <1>4, <1>5 DEF Same
  <2>4. AgreesUpTo(inp, gr, l, su, c)
    BY <2>2, <2>3, AgreesStable
  <2> QED BY <2>1, <2>4
<1>12. AgreesUpTo(inp, gr, L + 1, su, u) /\ DeclaresOnce(su, t, u)
  <2>1. AgreesUpTo(inp, gr, L, su, t)
    <3>1. L \in 0 .. L
      BY <1>1
    <3>2. Top(fr, st, L) = t
      BY <1>9
    <3>3. AgreesUpTo(inp, gr, L, su, Top(fr, st, L))
      BY <1>11, <3>1
    <3> QED BY <3>2, <3>3
  <2>2. Pushed(inp, i, st, su, u)
    BY <1>4, <1>7, <1>8 DEF Pushed, Same, t, D
  <2>3. AgreesUpTo(inp, gr, L, su, Len(st))
    BY <2>1 DEF t
  <2>4. Pushed(inp, gr[L + 1].node, st, su, u)
    BY <1>5, <1>6, <2>2
  <2>5. IsSeq(st) /\ L \in Nat /\ u \in Nat
    BY <1>1, <1>7
  <2>6. AgreesUpTo(inp, gr, L + 1, su, u)
    BY <2>3, <2>4, <2>5, AgreesByNew
  <2>7. DeclaresOnce(su, Len(st), u)
    BY <2>2, <2>5, PushedOnce
  <2> QED BY <2>6, <2>7 DEF t
<1>13. ASSUME NEW l \in 0 .. L + 1
       PROVE  Top(gr, su, l) \in 0 .. u /\ AgreesUpTo(inp, gr, l, su, Top(gr, su, l))
  <2>1. CASE l = L + 1
    BY <1>7, <1>9, <1>12, <2>1
  <2>2. CASE l \in 0 .. L
    <3>1. Top(fr, st, l) \in 0 .. u
      BY <1>1, <1>7, <1>10, <2>2
    <3> QED BY <1>9, <1>11, <2>2, <3>1
  <2> QED BY <1>1, <2>1, <2>2
<1>14. ASSUME NEW l \in 1 .. L + 1
       PROVE  DeclaresOnce(su, gr[l].base_len, Top(gr, su, l))
  <2>1. CASE l = L + 1
    BY <1>5, <1>6, <1>7, <1>9, <1>12, <2>1
  <2>2. CASE l \in 1 .. L
    <3>1. PICK c \in 0 .. t : c = Top(fr, st, l)
      BY <1>1, <1>10, <2>2
    <3>2. PICK b \in Nat : b = fr[l].base_len
      <4>1. fr[l] \in F
        BY <1>1, <2>2, ElementOfSeq DEF L
      <4> QED BY <4>1
    <3>3. /\ gr[l].base_len = b /\ Top(gr, su, l) = c
          /\ DeclaresOnce(st, b, c)
      BY <1>1, <1>5, <1>9, <1>10, <2>2, <3>1, <3>2
    <3>4. \A k \in b + 1 .. c : su[k] = st[k]
      BY <1>1, <1>4
    <3> QED BY <3>3, <3>4 DEF DeclaresOnce
  <2> QED BY <1>1, <2>1, <2>2
<1>15. Top(gr, su, 0) = 0
  BY <1>1, <1>9, <1>10
<1>16. ASSUME NEW m \in 0 .. L + 1, NEW l \in 0 .. m
       PROVE  Top(gr, su, l) <= Top(gr, su, m)
  <2>1. CASE m = L + 1
    <3>1. Top(gr, su, m) = u
      BY <1>9, <2>1
    <3>2. l \in 0 .. L + 1
      BY <1>1
    <3>3. Top(gr, su, l) \in 0 .. u
      BY <1>13, <3>2
    <3> QED BY <1>7, <3>1, <3>3
  <2>2. CASE m \in 0 .. L
    <3>1. l \in 0 .. L
      BY <1>1, <2>2
    <3> QED BY <1>9, <1>10, <2>2, <3>1
  <2> QED BY <1>1, <2>1, <2>2
<1>17. Frames(inp, gr, su)
  <2>1. \A l \in 0 .. Len(gr) : Top(gr, su, l) \in 0 .. Len(su) /\ AgreesUpTo(inp, gr, l, su, Top(gr, su, l))
    BY <1>5, <1>13 DEF u
  <2>2. \A l \in 1 .. Len(gr) : DeclaresOnce(su, gr[l].base_len, Top(gr, su, l))
    BY <1>5, <1>14
  <2>3. \A m \in 0 .. Len(gr) : \A l \in 0 .. m : Top(gr, su, l) <= Top(gr, su, m)
    BY <1>5, <1>16
  <2> QED BY <1>4, <1>5, <1>15, <2>1, <2>2, <2>3 DEF Frames
<1> QED BY <1>17 DEF gr, su, f, new, D

(* CloseElement uncovers the level below, which agreed all along. *)
LEMMA CloseFrames ==
  ASSUME NEW inp, NEW fr, NEW st, Frames(inp, fr, st), fr # <<>>
  PROVE  Frames(inp, Front(fr), SubSeq(st, 1, Last(fr).base_len))
<1> DEFINE F == [node : Nodes(inp.nodes), base_len : Nat]
           L == Len(fr)
           b == Last(fr).base_len
           gr == Front(fr)
           su == SubSeq(st, 1, b)
<1>1. IsSeq(st) /\ Len(st) \in Nat /\ fr \in Seq(F) /\ L \in Nat \ {0}
  BY SeqFacts, EmptySeq, LenProperties DEF Frames
<1>2. /\ \A l \in 0 .. L : Top(fr, st, l) \in 0 .. Len(st)
      /\ \A l \in 0 .. L : AgreesUpTo(inp, fr, l, st, Top(fr, st, l))
      /\ Top(fr, st, 0) = 0
      /\ \A m \in 0 .. L : \A l \in 0 .. m : Top(fr, st, l) <= Top(fr, st, m)
      /\ \A l \in 1 .. L : DeclaresOnce(st, fr[l].base_len, Top(fr, st, l))
  BY DEF Frames
<1>3. b = Top(fr, st, L - 1)
  BY <1>1 DEF Last, Top
<1>4. b \in 0 .. Len(st)
  BY <1>1, <1>2, <1>3
<1>5. /\ gr \in Seq(F) /\ Len(gr) = L - 1
      /\ \A n \in 1 .. L - 1 : gr[n] = fr[n]
  <2> HIDE DEF F
  <2>1. PICK n \in Nat : n = L - 1
    BY <1>1
  <2>2. \A k \in 1 .. n : fr[k] \in F
    BY <1>1, <2>1, ElementOfSeq
  <2>3. gr = SubSeq(fr, 1, n)
    BY <2>1 DEF Front
  <2>4. gr \in Seq(F) /\ Len(gr) = n
    BY <2>2, <2>3, SubSeqProperties
  <2>5. \A k \in 1 .. n : gr[k] = fr[k]
    BY <2>2, <2>3, SubSeqProperties
  <2> QED BY <2>1, <2>4, <2>5
<1>6. IsSeq(su) /\ Len(su) = b /\ Same(su, st, b)
  <2>1. PICK S : st \in Seq(S)
    BY <1>1 DEF IsSeq
  <2> HIDE DEF b
  <2>2. su \in Seq(S) /\ Len(su) = b /\ \A k \in 1 .. b : su[k] = st[k]
    BY <1>1, <1>4, <2>1, SubSeqProperties
  <2> QED BY <2>2 DEF IsSeq, Same
<1> HIDE DEF gr, su, b, L
<1>7. \A l \in 0 .. L - 1 : Top(gr, su, l) = Top(fr, st, l)
  <2>1. Top(gr, su, L - 1) = Top(fr, st, L - 1)
    BY <1>3, <1>5, <1>6 DEF Top
  <2>2. ASSUME NEW l \in 0 .. L - 1, l # L - 1
        PROVE  Top(gr, su, l) = Top(fr, st, l)
    <3>1. l # Len(gr) /\ l # Len(fr) /\ l + 1 \in 1 .. L - 1
      BY <1>1, <1>5, <2>2 DEF L
    <3> QED BY <1>5, <3>1 DEF Top
  <2> QED BY <2>1, <2>2
<1>8. \A l \in 0 .. L - 1 : Top(fr, st, l) \in 0 .. b
  <2> SUFFICES ASSUME NEW l \in 0 .. L - 1 PROVE Top(fr, st, l) \in 0 .. b
    OBVIOUS
  <2>1. L - 1 \in 0 .. L /\ l \in 0 .. L
    BY <1>1
  <2>2. Top(fr, st, l) <= b
    BY <1>2, <1>3, <2>1
  <2>3. Top(fr, st, l) \in 0 .. Len(st)
    BY <1>2, <2>1
  <2> QED BY <1>1, <1>4, <2>2, <2>3
<1>9. ASSUME NEW l \in 0 .. L - 1
      PROVE  AgreesUpTo(inp, gr, l, su, Top(gr, su, l))
  <2>1. PICK c \in 0 .. b : c = Top(fr, st, l)
    BY <1>8
  <2>2. AgreesUpTo(inp, fr, l, st, c) /\ c \in Nat /\ l \in Nat
    BY <1>1, <1>2, <1>4, <2>1
  <2>3. Same(gr, fr, l) /\ Same(su, st, c)
    BY <1>1, <1>4, <1>5, <1>6 DEF Same
  <2>4. AgreesUpTo(inp, gr, l, su, c)
    BY <2>2, <2>3, AgreesStable
  <2> QED BY <1>7, <2>1, <2>4
<1>10. ASSUME NEW l \in 1 .. L - 1
       PROVE  DeclaresOnce(su, gr[l].base_len, Top(gr, su, l))
  <2>1. l \in 0 .. L - 1 /\ l \in 1 .. L
    BY <1>1
  <2>2. PICK c \in 0 .. b : c = Top(fr, st, l)
    BY <1>8, <2>1
  <2>3. PICK a \in Nat : a = fr[l].base_len
    <3>1. fr[l] \in F
      BY <1>1, <2>1, ElementOfSeq DEF L
    <3> QED BY <3>1
  <2>4. DeclaresOnce(st, a, c) /\ gr[l].base_len = a /\ Top(gr, su, l) = c
    BY <1>2, <1>5, <1>7, <2>1, <2>2, <2>3
  <2>5. \A k \in a + 1 .. c : su[k] = st[k]
    BY <1>1, <1>4, <1>6 DEF Same
  <2> QED BY <2>4, <2>5 DEF DeclaresOnce
<1>11. /\ \A l \in 0 .. Len(gr) :
            Top(gr, su, l) \in 0 .. Len(su) /\ AgreesUpTo(inp, gr, l, su, Top(gr, su, l))
       /\ \A l \in 1 .. Len(gr) : DeclaresOnce(su, gr[l].base_len, Top(gr, su, l))
  BY <1>5, <1>6, <1>7, <1>8, <1>9, <1>10
<1>12. ASSUME NEW m \in 0 .. Len(gr), NEW l \in 0 .. m
       PROVE  Top(gr, su, l) <= Top(gr, su, m)
  <2>1. m \in 0 .. L - 1 /\ l \in 0 .. L - 1 /\ m \in 0 .. L
    BY <1>1, <1>5
  <2> QED BY <1>2, <1>7, <2>1
<1>13. Top(gr, su, 0) = 0
  <2>1. 0 \in 0 .. L - 1
    BY <1>1
  <2> QED BY <1>2, <1>7, <2>1
<1> QED BY <1>5, <1>6, <1>11, <1>12, <1>13 DEF Frames, gr, su, b

-----------------------------------------------------------------------------
(* The walk is at a node of the subtree while it is below an open element.  *)
LEMMA InSubtree ==
  ASSUME NEW inp, IsInput(inp), NEW a, NEW fr,
         fr \in Seq([node : Nodes(inp.nodes), base_len : Nat]), Walk(inp, a, fr),
         a \in Subtree(inp.nodes, IF fr = <<>> THEN inp.apex ELSE Last(fr).node)
  PROVE  /\ a \in Subtree(inp.nodes, inp.apex) /\ a \in Nodes(inp.nodes)
         /\ Walk(inp, a + 1, fr) /\ Walk(inp, a + inp.nodes[a].size, fr)
<1> DEFINE m == inp.nodes
           e == inp.apex
<1>1. /\ e \in Nat /\ m[e].size \in Nat /\ Subtree(m, e) \subseteq Nodes(m)
      /\ \A j \in Subtree(m, e) : Subtree(m, j) \subseteq Subtree(m, e)
  BY DEF IsInput, Nodes
<1>2. a \in Subtree(m, e)
  <2>1. CASE fr = <<>>
    BY <2>1
  <2>2. CASE fr # <<>>
    <3>1. Len(fr) \in 1 .. Len(fr)
      BY <2>2, EmptySeq, LenProperties
    <3>2. Last(fr).node \in Subtree(m, e)
      BY <3>1 DEF Walk, Last
    <3> QED BY <1>1, <2>2, <3>2
  <2> QED BY <2>1, <2>2
<1>3. a \in Nodes(m) /\ a \in Nat /\ m[a].size \in Nat \ {0}
  BY <1>1, <1>2 DEF IsInput, Nodes
<1> HIDE DEF m, e
<1>4. a + m[a].size - 1 \in Subtree(m, a) /\ Subtree(m, a) \subseteq Subtree(m, e)
  <2>1. a + m[a].size - 1 \in a .. a + m[a].size - 1
    BY <1>3
  <2> QED BY <1>1, <1>2, <2>1 DEF Subtree
<1>5. a + m[a].size \in e .. e + m[e].size /\ a + 1 \in e .. e + m[e].size
  <2>1. PICK k \in Nat \ {0} : k = m[a].size
    BY <1>3
  <2>2. PICK z \in Nat : z = m[e].size
    BY <1>1
  <2>3. a \in e .. e + z - 1 /\ a + k - 1 \in e .. e + z - 1
    BY <1>2, <1>4, <2>1, <2>2 DEF Subtree
  <2>4. e \in Nat /\ a \in Nat
    BY <1>1, <1>3
  <2>5. a + k \in e .. e + z /\ a + 1 \in e .. e + z
    BY <2>3, <2>4
  <2> QED BY <2>1, <2>2, <2>5
<1> QED BY <1>2, <1>3, <1>5 DEF Walk, m, e

(* The element opened is below the one opened last. *)
LEMMA OpenWalk ==
  ASSUME NEW inp, IsInput(inp), NEW a, NEW fr, NEW b \in Nat,
         fr \in Seq([node : Nodes(inp.nodes), base_len : Nat]), Walk(inp, a, fr),
         a \in Subtree(inp.nodes, IF fr = <<>> THEN inp.apex ELSE Last(fr).node)
  PROVE  Walk(inp, a + 1, Append(fr, [node |-> a, base_len |-> b]))
<1> DEFINE F == [node : Nodes(inp.nodes), base_len : Nat]
           f == [node |-> a, base_len |-> b]
           gr == Append(fr, f)
           L == Len(fr)
<1>1. a \in Subtree(inp.nodes, inp.apex) /\ a \in Nodes(inp.nodes) /\ Walk(inp, a + 1, fr)
  BY InSubtree
<1>2. f \in F /\ f.node = a
  BY <1>1
<1>3. L \in Nat /\ (L = 0 <=> fr = <<>>)
  BY EmptySeq, LenProperties
<1> HIDE DEF F, f
<1>4. /\ Len(gr) = L + 1 /\ gr[L + 1] = f
      /\ \A n \in 1 .. L : gr[n] = fr[n]
  BY <1>2, AppendProperties DEF F
<1> HIDE DEF gr
<1>5. ASSUME NEW n \in 1 .. L + 1
      PROVE  /\ gr[n].node \in Subtree(inp.nodes, inp.apex)
             /\ n > 1 => gr[n].node \in Subtree(inp.nodes, gr[n - 1].node)
  <2>1. CASE n = L + 1
    <3>1. gr[n].node = a
      BY <1>2, <1>4, <2>1
    <3>2. n > 1 => fr # <<>> /\ gr[n - 1] = Last(fr)
      BY <1>3, <1>4, <2>1 DEF Last
    <3> QED BY <1>1, <3>1, <3>2
  <2>2. CASE n \in 1 .. L
    <3>1. gr[n] = fr[n] /\ (n > 1 => gr[n - 1] = fr[n - 1])
      BY <1>3, <1>4, <2>2
    <3> QED BY <2>2, <3>1 DEF Walk
  <2> QED BY <1>3, <2>1, <2>2
<1>6. Walk(inp, a + 1, gr)
  BY <1>1, <1>4, <1>5 DEF Walk
<1> QED BY <1>6 DEF gr, f

LEMMA CloseWalk ==
  ASSUME NEW inp, NEW a, NEW S, NEW fr \in Seq(S), fr # <<>>, Walk(inp, a, fr)
  PROVE  Walk(inp, a, Front(fr))
<1> DEFINE gr == Front(fr)
<1>1. PICK n \in Nat : n = Len(fr) - 1
  BY EmptySeq, LenProperties
<1>2. Len(gr) = n /\ \A k \in 1 .. n : gr[k] = fr[k]
  <2>1. \A k \in 1 .. n : fr[k] \in S
    BY <1>1, ElementOfSeq
  <2>2. gr = SubSeq(fr, 1, n)
    BY <1>1 DEF Front
  <2>3. Len(gr) = n
    BY <2>1, <2>2, SubSeqProperties
  <2>4. \A k \in 1 .. n : gr[k] = fr[k]
    BY <2>1, <2>2, SubSeqProperties
  <2> QED BY <2>3, <2>4
<1> HIDE DEF gr
<1>3. ASSUME NEW k \in 1 .. n
      PROVE  /\ gr[k].node \in Subtree(inp.nodes, inp.apex)
             /\ k > 1 => gr[k].node \in Subtree(inp.nodes, gr[k - 1].node)
  <2>1. k \in 1 .. Len(fr) /\ gr[k] = fr[k] /\ (k > 1 => gr[k - 1] = fr[k - 1])
    BY <1>1, <1>2
  <2> QED BY <2>1 DEF Walk
<1>4. Walk(inp, a, gr)
  BY <1>2, <1>3 DEF Walk
<1> QED BY <1>4 DEF gr

-----------------------------------------------------------------------------
(* The invariant holds at first and is kept by every step of the walk. *)
LEMMA InitIInv == Init => IInv
<1> SUFFICES ASSUME Init PROVE IInv
  OBVIOUS
<1>1. IsInput(input) /\ input \in Inputs
  BY InputsAssumption DEF Init
<1>2. open = <<>> /\ Len(open) = 0 /\ rendered = <<>> /\ Len(rendered) = 0
  BY DEF Init
<1>3. /\ input.apex \in Nodes(input.nodes)
      /\ \A i \in Nodes(input.nodes) : input.nodes[i].size \in Nat
  BY <1>1 DEF IsInput
<1>4. input.apex \in Nat /\ input.nodes[input.apex].size \in Nat
  BY <1>3 DEF Nodes
<1>5. Walk(input, at, open)
  BY <1>2, <1>4 DEF Walk, Init
<1>6. IsSeq(rendered)
  <2>1. rendered \in Seq({})
    BY <1>2
  <2> QED BY <2>1 DEF IsSeq
<1>7. Frames(input, open, rendered)
  <2>1. open \in Seq([node : Nodes(input.nodes), base_len : Nat])
    BY <1>2
  <2>2. \A l \in 0 .. Len(open) : l = 0 /\ Top(open, rendered, l) = 0
    BY <1>2 DEF Top
  <2>3. AgreesUpTo(input, open, 0, rendered, 0)
    BY DEF AgreesUpTo
  <2> HIDE <1>2
  <2> QED BY <1>2, <1>6, <2>1, <2>2, <2>3 DEF Frames
<1> QED BY <1>1, <1>5, <1>7 DEF IInv

LEMMA NextIInv == IInv /\ [Next]_vars => IInv'
<1> SUFFICES ASSUME IInv, [Next]_vars PROVE IInv'
  OBVIOUS
<1>1. /\ IsInput(input) /\ input \in Inputs
      /\ Frames(input, open, rendered) /\ Walk(input, at, open)
      /\ open \in Seq([node : Nodes(input.nodes), base_len : Nat])
      /\ IsSeq(rendered) /\ Len(rendered) \in Nat
  BY InputsAssumption, SeqFacts DEF IInv, Frames
<1>2. input' = input
  BY DEF Next, vars, Skip, WriteContent, OpenElement, CloseElement
<1>3. Frames(input, open', rendered') /\ Walk(input, at', open') => IInv'
  BY <1>1, <1>2 DEF IInv
<1>4. Within =>
        /\ at \in Nodes(input.nodes)
        /\ Walk(input, at + 1, open) /\ Walk(input, at + input.nodes[at].size, open)
  BY <1>1, InSubtree DEF Within
<1>5. CASE Skip
  BY <1>1, <1>3, <1>4, <1>5 DEF Skip
<1>6. CASE WriteContent
  BY <1>1, <1>3, <1>4, <1>6 DEF WriteContent
<1>7. CASE OpenElement
  <2>1. /\ Within /\ at' = at + 1
        /\ open' = Append(open, [node |-> at, base_len |-> Len(rendered)])
        /\ rendered' = rendered \o SetToSeq(ToRender(input, at, rendered))
    BY <1>7 DEF OpenElement
  <2>2. Frames(input, open', rendered')
    BY <1>1, <1>4, <2>1, OpenFrames
  <2>3. Walk(input, at', open')
    BY <1>1, <2>1, OpenWalk DEF Within
  <2> QED BY <1>3, <2>2, <2>3
<1>8. CASE CloseElement
  <2>1. /\ open # <<>> /\ at' = at /\ open' = Front(open)
        /\ rendered' = SubSeq(rendered, 1, Last(open).base_len)
    BY <1>8 DEF CloseElement
  <2>2. Frames(input, open', rendered')
    BY <1>1, <2>1, CloseFrames
  <2>3. Walk(input, at', open')
    BY <1>1, <2>1, CloseWalk
  <2> QED BY <1>3, <2>2, <2>3
<1>9. CASE UNCHANGED vars
  BY <1>1, <1>3, <1>9 DEF vars
<1> QED BY <1>5, <1>6, <1>7, <1>8, <1>9 DEF Next

-----------------------------------------------------------------------------
(* Sets of pairs of numbers, in the order InOrder takes them.               *)
IsPairs(A) == IsFiniteSet(A) /\ A \subseteq Nat \X Nat

Ahead(A, t) == {s \in A : Precedes(s, t)}

LEMMA PairFacts ==
  ASSUME NEW s \in Nat \X Nat
  PROVE  s[1] \in Nat /\ s[2] \in Nat /\ s = <<s[1], s[2]>>
OBVIOUS

LEMMA PrecedesOrders ==
  ASSUME NEW s \in Nat \X Nat, NEW t \in Nat \X Nat
  PROVE  /\ ~ Precedes(s, s)
         /\ Precedes(s, t) \/ s = t \/ Precedes(t, s)
         /\ \A u \in Nat \X Nat : Precedes(s, t) /\ Precedes(t, u) => Precedes(s, u)
         /\ ~ (Precedes(s, t) /\ Precedes(t, s))
<1>1. /\ s[1] \in Nat /\ s[2] \in Nat /\ s = <<s[1], s[2]>>
      /\ t[1] \in Nat /\ t[2] \in Nat /\ t = <<t[1], t[2]>>
      /\ \A u \in Nat \X Nat : u[1] \in Nat /\ u[2] \in Nat
  BY PairFacts
<1>2. ~ Precedes(s, s)
  BY <1>1 DEF Precedes
<1>3. Precedes(s, t) \/ s = t \/ Precedes(t, s)
  <2>1. s[1] = t[1] /\ s[2] = t[2] => s = t
    BY <1>1
  <2> QED BY <1>1, <2>1 DEF Precedes
<1>4. \A u \in Nat \X Nat : Precedes(s, t) /\ Precedes(t, u) => Precedes(s, u)
  BY <1>1 DEF Precedes
<1>5. ~ (Precedes(s, t) /\ Precedes(t, s))
  BY <1>1 DEF Precedes
<1> QED BY <1>2, <1>3, <1>4, <1>5

LEMMA AheadFinite ==
  ASSUME NEW A, IsPairs(A), NEW t
  PROVE  /\ Ahead(A, t) \in SUBSET A /\ IsFiniteSet(Ahead(A, t))
         /\ Cardinality(Ahead(A, t)) \in Nat
         /\ Cardinality(A) \in Nat
         /\ t \in A => Cardinality(Ahead(A, t)) < Cardinality(A)
<1>1. IsFiniteSet(A) /\ Ahead(A, t) \in SUBSET A
  BY DEF Ahead, IsPairs
<1>2. IsFiniteSet(Ahead(A, t)) /\ Cardinality(Ahead(A, t)) <= Cardinality(A)
      /\ (Cardinality(Ahead(A, t)) = Cardinality(A) => A = Ahead(A, t))
  BY <1>1, FS_Subset
<1>3. Cardinality(Ahead(A, t)) \in Nat /\ Cardinality(A) \in Nat
  BY <1>1, <1>2, FS_CardinalityType
<1>4. ASSUME t \in A PROVE Cardinality(Ahead(A, t)) < Cardinality(A)
  <2>1. t \notin Ahead(A, t)
    BY <1>4, PrecedesOrders DEF Ahead, IsPairs
  <2> QED BY <1>2, <1>3, <1>4, <2>1
<1> QED BY <1>1, <1>2, <1>3, <1>4

LEMMA AheadGrows ==
  ASSUME NEW A, IsPairs(A), NEW s \in A, NEW t \in A, Precedes(s, t)
  PROVE  Cardinality(Ahead(A, s)) < Cardinality(Ahead(A, t))
<1>1. s \in Nat \X Nat /\ t \in Nat \X Nat /\ \A u \in A : u \in Nat \X Nat
  BY DEF IsPairs
<1>2. s \notin Ahead(A, s) /\ s \in Ahead(A, t)
  BY <1>1, PrecedesOrders DEF Ahead
<1>3. Ahead(A, s) \in SUBSET Ahead(A, t)
  BY <1>1, PrecedesOrders DEF Ahead
<1>4. IsFiniteSet(Ahead(A, t)) /\ Cardinality(Ahead(A, t)) \in Nat
      /\ Cardinality(Ahead(A, s)) \in Nat
  BY AheadFinite
<1>5. Cardinality(Ahead(A, s)) <= Cardinality(Ahead(A, t))
      /\ Cardinality(Ahead(A, s)) # Cardinality(Ahead(A, t))
  BY <1>2, <1>3, <1>4, FS_Subset
<1> QED BY <1>4, <1>5

LEMMA AheadUnique ==
  ASSUME NEW A, IsPairs(A), NEW s \in A, NEW t \in A,
         Cardinality(Ahead(A, s)) = Cardinality(Ahead(A, t))
  PROVE  s = t
<1>1. Precedes(s, t) \/ s = t \/ Precedes(t, s)
  BY PrecedesOrders DEF IsPairs
<1>2. Cardinality(Ahead(A, s)) \in Nat
  BY AheadFinite
<1>3. ~ Precedes(s, t) /\ ~ Precedes(t, s)
  BY <1>2, AheadGrows
<1> QED BY <1>1, <1>3

LEMMA AheadExists ==
  ASSUME NEW A, IsPairs(A), NEW n \in 1 .. Cardinality(A)
  PROVE  \E t \in A : Cardinality(Ahead(A, t)) = n - 1
<1> DEFINE c == Cardinality(A)
           f == [t \in A |-> Cardinality(Ahead(A, t)) + 1]
<1>1. c \in Nat /\ IsFiniteSet(A)
  BY AheadFinite DEF IsPairs
<1>2. \A t \in A : f[t] \in 1 .. c
  BY AheadFinite
<1>3. \A s, t \in A : f[s] = f[t] => s = t
  <2> SUFFICES ASSUME NEW s \in A, NEW t \in A, f[s] = f[t] PROVE s = t
    OBVIOUS
  <2>1. Cardinality(Ahead(A, s)) + 1 = Cardinality(Ahead(A, t)) + 1
    OBVIOUS
  <2>2. Cardinality(Ahead(A, s)) = Cardinality(Ahead(A, t))
    BY <2>1, AheadFinite
  <2> QED BY <2>2, AheadUnique
<1>4. f \in Injection(A, 1 .. c)
  <2>1. f \in [A -> 1 .. c]
    BY <1>2
  <2> HIDE DEF f
  <2> QED BY <1>3, <2>1 DEF Injection, IsInjective
<1>5. f \in Surjection(A, 1 .. c)
  <2>1. IsFiniteSet(1 .. c) /\ Cardinality(1 .. c) = c
    BY <1>1, FS_Interval
  <2> HIDE DEF f
  <2> QED BY <1>4, <2>1, FS_Injection
<1>6. \E t \in A : f[t] = n
  BY <1>5 DEF Surjection
<1>7. PICK t \in A : Cardinality(Ahead(A, t)) + 1 = n
  BY <1>6
<1>8. Cardinality(Ahead(A, t)) \in Nat
  BY AheadFinite
<1> QED BY <1>7, <1>8

(* InOrder puts each value at its rank, and nothing else anywhere.          *)
Position(A, t) == Cardinality(Ahead(A, t)) + 1

LEMMA Ranked ==
  ASSUME NEW A, IsPairs(A)
  PROVE  /\ \A t \in A : Position(A, t) \in 1 .. Cardinality(A)
         /\ \A n \in 1 .. Cardinality(A) : \E t \in A : Position(A, t) = n
         /\ \A s, t \in A : Position(A, s) = Position(A, t) => s = t
         /\ \A s, t \in A : Precedes(s, t) <=> Position(A, s) < Position(A, t)
<1>1. ASSUME NEW t \in A PROVE Position(A, t) \in 1 .. Cardinality(A) /\ Position(A, t) \in Nat
  BY AheadFinite DEF Position
<1>2. ASSUME NEW n \in 1 .. Cardinality(A) PROVE \E t \in A : Position(A, t) = n
  <2>1. PICK t \in A : Cardinality(Ahead(A, t)) = n - 1
    BY AheadExists
  <2> QED BY <2>1 DEF Position
<1>3. ASSUME NEW s \in A, NEW t \in A, Position(A, s) = Position(A, t) PROVE s = t
  <2>1. Cardinality(Ahead(A, s)) = Cardinality(Ahead(A, t))
    BY <1>3, AheadFinite DEF Position
  <2> QED BY <2>1, AheadUnique
<1>4. ASSUME NEW s \in A, NEW t \in A, Precedes(s, t) PROVE Position(A, s) < Position(A, t)
  BY <1>4, AheadFinite, AheadGrows DEF Position
<1>5. ASSUME NEW s \in A, NEW t \in A, Position(A, s) < Position(A, t) PROVE Precedes(s, t)
  <2>1. Precedes(s, t) \/ s = t \/ Precedes(t, s)
    BY PrecedesOrders DEF IsPairs
  <2>2. ~ Precedes(t, s) /\ s # t
    BY <1>1, <1>4, <1>5
  <2> QED BY <2>1, <2>2
<1> QED BY <1>1, <1>2, <1>3, <1>4, <1>5

LEMMA InOrderIs ==
  ASSUME NEW f, IsPairs(DOMAIN f)
  PROVE  /\ Cardinality(DOMAIN f) \in Nat
         /\ DOMAIN InOrder(f) = 1 .. Cardinality(DOMAIN f)
         /\ Len(InOrder(f)) = Cardinality(DOMAIN f)
         /\ InOrder(f) = [n \in 1 .. Cardinality(DOMAIN f) |-> InOrder(f)[n]]
         /\ \A t \in DOMAIN f : InOrder(f)[Position(DOMAIN f, t)] = f[t]
<1> DEFINE A == DOMAIN f
           Chosen(n) == CHOOSE t \in A : Cardinality({s \in A : Precedes(s, t)}) = n - 1
<1>1. InOrder(f) = [n \in 1 .. Cardinality(A) |-> f[Chosen(n)]]
  BY DEF InOrder
<1>2. Cardinality(A) \in Nat
  BY AheadFinite
<1>3. ASSUME NEW t \in A PROVE InOrder(f)[Position(A, t)] = f[t]
  <2> DEFINE n == Position(A, t)
  <2>1. n \in 1 .. Cardinality(A) /\ Cardinality(Ahead(A, t)) \in Nat
    BY Ranked, AheadFinite
  <2>2. Cardinality(Ahead(A, t)) = n - 1
    BY <2>1 DEF Position
  <2>3. Chosen(n) \in A /\ Cardinality(Ahead(A, Chosen(n))) = n - 1
    BY <2>2 DEF Ahead
  <2>4. Chosen(n) = t
    <3> HIDE DEF Chosen, n
    <3> QED BY <2>2, <2>3, AheadUnique
  <2> HIDE DEF Chosen, n
  <2> QED BY <1>1, <2>1, <2>4 DEF n
<1>4. DOMAIN InOrder(f) = 1 .. Cardinality(A)
      /\ InOrder(f) = [n \in 1 .. Cardinality(A) |-> InOrder(f)[n]]
  BY <1>1
<1>5. Len(InOrder(f)) = Cardinality(A)
  <2> HIDE DEF Chosen, A
  <2> QED BY <1>1, <1>2
<1> QED BY <1>2, <1>3, <1>4, <1>5

(* The values are what matters, and their order, not the pairs.             *)
Carries(h, A, B) ==
  /\ h \in [A -> B]
  /\ \A t \in B : \E s \in A : h[s] = t
  /\ \A s, t \in A : Precedes(s, t) => Precedes(h[s], h[t])

LEMMA CarriedRank ==
  ASSUME NEW A, IsPairs(A), NEW B, IsPairs(B), NEW h, Carries(h, A, B)
  PROVE  /\ Cardinality(A) = Cardinality(B)
         /\ \A t \in A : Position(A, t) = Position(B, h[t])
<1>1. /\ h \in [A -> B] /\ \A t \in A : h[t] \in B
      /\ \A t \in B : \E s \in A : h[s] = t
      /\ \A s, t \in A : Precedes(s, t) => Precedes(h[s], h[t])
  BY DEF Carries
<1>2. A \subseteq Nat \X Nat /\ B \subseteq Nat \X Nat /\ IsFiniteSet(A)
  BY DEF IsPairs
<1>3. ASSUME NEW s \in A, NEW t \in A, h[s] = h[t] PROVE s = t
  <2>1. ~ Precedes(h[s], h[t]) /\ ~ Precedes(h[t], h[s])
    BY <1>1, <1>2, <1>3, PrecedesOrders
  <2>2. ~ Precedes(s, t) /\ ~ Precedes(t, s)
    BY <1>1, <2>1
  <2> QED BY <1>2, <2>2, PrecedesOrders
<1>4. ASSUME NEW s \in A, NEW t \in A, Precedes(h[s], h[t]) PROVE Precedes(s, t)
  <2>1. s # t
    BY <1>1, <1>2, <1>4, PrecedesOrders
  <2>2. ~ Precedes(t, s)
    BY <1>1, <1>2, <1>4, PrecedesOrders
  <2> QED BY <1>2, <2>1, <2>2, PrecedesOrders
<1>5. ASSUME NEW S \in SUBSET A, NEW T \in SUBSET B,
             \A t \in S : h[t] \in T, \A t \in T : \E s \in S : h[s] = t
      PROVE  Cardinality(S) = Cardinality(T)
  <2> DEFINE g == [t \in S |-> h[t]]
  <2>1. g \in [S -> T]
    BY <1>5
  <2>2. (\A s, t \in S : g[s] = g[t] => s = t) /\ \A t \in T : \E s \in S : g[s] = t
    BY <1>3, <1>5
  <2>3. IsFiniteSet(S)
    BY <1>2, FS_Subset
  <2> HIDE DEF g
  <2>4. g \in Injection(S, T) /\ g \in Surjection(S, T)
    BY <2>1, <2>2 DEF Injection, Surjection, IsInjective
  <2>5. ExistsBijection(S, T)
    BY <2>4 DEF ExistsBijection, Bijection
  <2> QED BY <2>3, <2>5, FS_Bijection
<1>6. Cardinality(A) = Cardinality(B)
  BY <1>1, <1>5
<1>7. ASSUME NEW t \in A PROVE Position(A, t) = Position(B, h[t])
  <2>1. Ahead(A, t) \in SUBSET A /\ Ahead(B, h[t]) \in SUBSET B
    BY DEF Ahead
  <2>2. \A s \in Ahead(A, t) : h[s] \in Ahead(B, h[t])
    BY <1>1 DEF Ahead
  <2>3. ASSUME NEW u \in Ahead(B, h[t]) PROVE \E s \in Ahead(A, t) : h[s] = u
    <3>1. PICK s \in A : h[s] = u
      BY <1>1, <2>1
    <3>2. s \in Ahead(A, t)
      BY <1>4, <3>1 DEF Ahead
    <3> QED BY <3>1, <3>2
  <2>4. Cardinality(Ahead(A, t)) = Cardinality(Ahead(B, h[t]))
    BY <1>5, <2>1, <2>2, <2>3
  <2> QED BY <2>4 DEF Position
<1> QED BY <1>6, <1>7

(* Functions with the same values in the same order are put in order alike. *)
LEMMA InOrderCarried ==
  ASSUME NEW f, IsPairs(DOMAIN f), NEW g, IsPairs(DOMAIN g),
         NEW h, Carries(h, DOMAIN f, DOMAIN g),
         \A t \in DOMAIN f : g[h[t]] = f[t]
  PROVE  InOrder(f) = InOrder(g)
<1> DEFINE A == DOMAIN f
           B == DOMAIN g
<1>1. Cardinality(A) = Cardinality(B) /\ \A t \in A : Position(A, t) = Position(B, h[t])
  BY CarriedRank
<1>2. ASSUME NEW n \in 1 .. Cardinality(A) PROVE InOrder(f)[n] = InOrder(g)[n]
  <2>1. PICK t \in A : Position(A, t) = n
    BY Ranked
  <2>2. InOrder(f)[n] = f[t]
    BY <2>1, InOrderIs
  <2>3. h[t] \in B /\ Position(B, h[t]) = n
    BY <1>1, <2>1 DEF Carries
  <2>4. InOrder(g)[n] = g[h[t]]
    BY <2>3, InOrderIs
  <2> QED BY <2>2, <2>4
<1>3. /\ InOrder(f) = [n \in 1 .. Cardinality(A) |-> InOrder(f)[n]]
      /\ InOrder(g) = [n \in 1 .. Cardinality(B) |-> InOrder(g)[n]]
  BY InOrderIs
<1> HIDE DEF A, B
<1> QED BY <1>1, <1>2, <1>3

-----------------------------------------------------------------------------
(* The nodes of an input: intervals, one inside another or apart.           *)
After(inp, i) == i + inp.nodes[i].size

LEMMA Shape ==
  ASSUME NEW inp, IsInput(inp)
  PROVE  /\ inp.apex \in Nodes(inp.nodes) /\ Len(inp.nodes) \in Nat
         /\ \A i \in Nodes(inp.nodes) :
              /\ i \in Nat /\ inp.nodes[i].size \in Nat \ {0}
              /\ After(inp, i) \in Nat /\ i < After(inp, i)
              /\ i \in Subtree(inp.nodes, i)
              /\ Subtree(inp.nodes, i) \subseteq Nodes(inp.nodes)
              /\ \A j : j \in Subtree(inp.nodes, i) <=>
                          j \in Nodes(inp.nodes) /\ i <= j /\ j < After(inp, i)
              /\ \A j \in Subtree(inp.nodes, i) : After(inp, j) <= After(inp, i)
<1> DEFINE m == inp.nodes
<1>1. inp.apex \in Nodes(m) /\ Len(m) \in Nat
  BY DEF IsInput
<1> SUFFICES ASSUME NEW i \in Nodes(m)
             PROVE  /\ i \in Nat /\ m[i].size \in Nat \ {0}
                    /\ After(inp, i) \in Nat /\ i < After(inp, i)
                    /\ i \in Subtree(m, i)
                    /\ Subtree(m, i) \subseteq Nodes(m)
                    /\ \A j : j \in Subtree(m, i) <=>
                                j \in Nodes(m) /\ i <= j /\ j < After(inp, i)
                    /\ \A j \in Subtree(m, i) : After(inp, j) <= After(inp, i)
  BY <1>1
<1>2. \A k \in Nodes(m) : k \in Nat /\ m[k].size \in Nat \ {0} /\ Subtree(m, k) \subseteq Nodes(m)
  BY <1>1 DEF IsInput, Nodes
<1>3. \A j \in Subtree(m, i) : Subtree(m, j) \subseteq Subtree(m, i)
  BY DEF IsInput
<1> HIDE DEF m
<1>4. After(inp, i) \in Nat /\ i < After(inp, i) /\ After(inp, i) = i + m[i].size
  BY <1>2 DEF After, m
<1>5. i \in Subtree(m, i)
  BY <1>2 DEF Subtree
<1>6. ASSUME NEW j
      PROVE  j \in Subtree(m, i) <=> j \in Nodes(m) /\ i <= j /\ j < After(inp, i)
  <2>1. j \in Nodes(m) => j \in Nat
    BY <1>2
  <2>2. j \in Subtree(m, i) => j \in Nodes(m)
    BY <1>2
  <2> QED BY <1>2, <1>4, <2>1, <2>2 DEF Subtree
<1>7. ASSUME NEW j \in Subtree(m, i) PROVE After(inp, j) <= After(inp, i)
  <2>1. j \in Nodes(m) /\ j \in Nat /\ m[j].size \in Nat \ {0} /\ After(inp, j) = j + m[j].size
    BY <1>2, <1>6 DEF After, m
  <2>2. j + m[j].size - 1 \in Subtree(m, j)
    BY <2>1 DEF Subtree
  <2>3. j + m[j].size - 1 < After(inp, i)
    BY <1>3, <1>6, <2>2
  <2> QED BY <1>4, <2>1, <2>3
<1> QED BY <1>2, <1>4, <1>5, <1>6, <1>7 DEF m

LEMMA WrittenNodes ==
  ASSUME NEW inp, IsInput(inp)
  PROVE  /\ \A i \in Elements(inp) : i \in Written(inp) /\ inp.nodes[i].kind = "element"
         /\ \A i \in Written(inp) :
              /\ i \in Subtree(inp.nodes, inp.apex) /\ i \in Nodes(inp.nodes) /\ i \in Nat
              /\ inp.nodes[i].kind = "element" => i \in Elements(inp)
BY Shape DEF Elements, Written

-----------------------------------------------------------------------------
(* The tags of Octets.                                                      *)
Begin(i) == <<i, 0>>
Finish(inp, i) == <<After(inp, i) - 1, inp.nodes[i].size>>

Starts(inp) == Written(inp) \X {0}
Ends(inp) == {Finish(inp, i) : i \in Elements(inp)}
Tags(inp) == Starts(inp) \cup Ends(inp)

LEMMA TagFacts ==
  ASSUME NEW inp, IsInput(inp)
  PROVE  /\ \A i \in Written(inp) : Begin(i) \in Tags(inp) /\ Begin(i) \notin Ends(inp)
         /\ \A i \in Elements(inp) :
              /\ Finish(inp, i) \in Tags(inp) /\ Finish(inp, i) \in Ends(inp)
              /\ Finish(inp, i)[1] - Finish(inp, i)[2] + 1 = i
         /\ \A t \in Tags(inp) :
              \/ \E i \in Written(inp) : t = Begin(i)
              \/ \E i \in Elements(inp) : t = Finish(inp, i)
         /\ \A i, j \in Elements(inp) : Finish(inp, i) = Finish(inp, j) => i = j
         /\ IsPairs(Tags(inp))
<1>1. ASSUME NEW i \in Written(inp) PROVE Begin(i) \in Tags(inp) /\ Begin(i) \in Nat \X Nat
  BY WrittenNodes DEF Begin, Tags, Starts
<1>2. ASSUME NEW i \in Elements(inp)
      PROVE  /\ Finish(inp, i) \in Tags(inp) /\ Finish(inp, i) \in Ends(inp)
             /\ Finish(inp, i)[1] - Finish(inp, i)[2] + 1 = i
             /\ Finish(inp, i) \in Nat \X Nat /\ Finish(inp, i)[2] # 0
  <2>1. i \in Nat /\ inp.nodes[i].size \in Nat \ {0}
    BY Shape, WrittenNodes
  <2>2. (i + inp.nodes[i].size - 1) - inp.nodes[i].size + 1 = i
        /\ i + inp.nodes[i].size - 1 \in Nat
    BY <2>1
  <2> QED BY <2>1, <2>2 DEF Finish, After, Tags, Ends
<1>3. ASSUME NEW i \in Written(inp) PROVE Begin(i) \notin Ends(inp)
  BY <1>2 DEF Begin, Ends
<1>4. ASSUME NEW t \in Tags(inp)
      PROVE  \/ \E i \in Written(inp) : t = Begin(i)
             \/ \E i \in Elements(inp) : t = Finish(inp, i)
  BY DEF Tags, Starts, Ends, Begin
<1>5. \A i, j \in Elements(inp) : Finish(inp, i) = Finish(inp, j) => i = j
  <2> SUFFICES ASSUME NEW i \in Elements(inp), NEW j \in Elements(inp),
                      Finish(inp, i) = Finish(inp, j)
               PROVE  i = j
    OBVIOUS
  <2>1. /\ Finish(inp, i)[1] - Finish(inp, i)[2] + 1 = i
        /\ Finish(inp, j)[1] - Finish(inp, j)[2] + 1 = j
    BY <1>2
  <2> QED BY <2>1
<1>6. IsPairs(Tags(inp))
  <2>1. \A t \in Tags(inp) : t \in Nat \X Nat
    BY <1>1, <1>2, <1>4
  <2>2. IsFiniteSet(Written(inp)) /\ IsFiniteSet(Elements(inp))
    <3>1. Written(inp) \in SUBSET Nodes(inp.nodes) /\ Elements(inp) \in SUBSET Nodes(inp.nodes)
      BY WrittenNodes
    <3>2. IsFiniteSet(Nodes(inp.nodes))
      BY Shape, FS_Interval DEF Nodes
    <3> QED BY <3>1, <3>2, FS_Subset
  <2> DEFINE f == [i \in Written(inp) |-> Begin(i)]
             g == [i \in Elements(inp) |-> Finish(inp, i)]
  <2>3. f \in Surjection(Written(inp), Starts(inp))
    <3>1. f \in [Written(inp) -> Starts(inp)]
      BY DEF Begin, Starts
    <3>2. \A t \in Starts(inp) : \E i \in Written(inp) : f[i] = t
      BY DEF Begin, Starts
    <3> HIDE DEF f
    <3> QED BY <3>1, <3>2 DEF Surjection
  <2>4. g \in Surjection(Elements(inp), Ends(inp))
    <3>1. g \in [Elements(inp) -> Ends(inp)]
      BY DEF Ends
    <3>2. \A t \in Ends(inp) : \E i \in Elements(inp) : g[i] = t
      BY DEF Ends
    <3> HIDE DEF g
    <3> QED BY <3>1, <3>2 DEF Surjection
  <2> HIDE DEF f, g
  <2>5. IsFiniteSet(Starts(inp)) /\ IsFiniteSet(Ends(inp))
    BY <2>2, <2>3, <2>4, FS_Surjection
  <2>6. IsFiniteSet(Tags(inp))
    BY <2>5, FS_Union DEF Tags
  <2> QED BY <2>1, <2>6 DEF IsPairs
<1> QED BY <1>1, <1>2, <1>3, <1>4, <1>5, <1>6

(* What precedes what.                                                      *)
LEMMA TagOrder ==
  ASSUME NEW inp, IsInput(inp), NEW i \in Written(inp), NEW j \in Written(inp)
  PROVE  /\ Precedes(Begin(i), Begin(j)) <=> i < j
         /\ Precedes(Begin(i), Finish(inp, j)) <=> i < After(inp, j)
         /\ Precedes(Finish(inp, i), Begin(j)) <=> After(inp, i) <= j
         /\ Precedes(Finish(inp, i), Finish(inp, j)) <=>
              After(inp, i) < After(inp, j) \/ (After(inp, i) = After(inp, j) /\ j < i)
<1>1. /\ i \in Nat /\ inp.nodes[i].size \in Nat \ {0} /\ After(inp, i) = i + inp.nodes[i].size
      /\ j \in Nat /\ inp.nodes[j].size \in Nat \ {0} /\ After(inp, j) = j + inp.nodes[j].size
  BY Shape, WrittenNodes DEF After
<1>2. /\ Begin(i)[1] = i /\ Begin(i)[2] = 0 /\ Begin(j)[1] = j /\ Begin(j)[2] = 0
      /\ Finish(inp, i)[1] = After(inp, i) - 1 /\ Finish(inp, i)[2] = inp.nodes[i].size
      /\ Finish(inp, j)[1] = After(inp, j) - 1 /\ Finish(inp, j)[2] = inp.nodes[j].size
  BY DEF Begin, Finish
<1>3. Precedes(Begin(i), Begin(j)) <=> i < j
  BY <1>1, <1>2 DEF Precedes
<1>4. Precedes(Begin(i), Finish(inp, j)) <=> i < After(inp, j)
  BY <1>1, <1>2 DEF Precedes
<1>5. Precedes(Finish(inp, i), Begin(j)) <=> After(inp, i) <= j
  BY <1>1, <1>2 DEF Precedes
<1>6. Precedes(Finish(inp, i), Finish(inp, j)) <=>
        After(inp, i) < After(inp, j) \/ (After(inp, i) = After(inp, j) /\ j < i)
  BY <1>1, <1>2 DEF Precedes
<1> QED BY <1>3, <1>4, <1>5, <1>6

-----------------------------------------------------------------------------
(* The walk comes to node a with the elements of O open: what it passed is  *)
(* over, but for them, and all that is around an open element is open.      *)
Passed(inp, a, O) ==
  /\ a \in inp.apex .. After(inp, inp.apex)
  /\ O \subseteq Elements(inp)
  /\ \A x \in O : x < a /\ a <= After(inp, x)
  /\ \A j \in Subtree(inp.nodes, inp.apex) : j < a => j \in O \/ After(inp, j) <= a
  /\ \A x \in O, j \in Subtree(inp.nodes, inp.apex) :
       x \in Subtree(inp.nodes, j) => j \in O

Inside(inp, a, O) ==
  /\ a \in Subtree(inp.nodes, inp.apex)
  /\ \A x \in O : a \in Subtree(inp.nodes, x)

(* What is written by then. *)
Printed(inp, a, O) ==
  {Begin(i) : i \in {i \in Written(inp) : i < a}}
    \cup {Finish(inp, i) : i \in {i \in Elements(inp) : i < a /\ i \notin O}}

(* Around the node are the open elements and no others. *)
LEMMA Around ==
  ASSUME NEW inp, IsInput(inp), NEW a, NEW O, Passed(inp, a, O), Inside(inp, a, O)
  PROVE  /\ a \in Nodes(inp.nodes) /\ a \notin O
         /\ (Ancestors(inp.nodes, a) \ {a}) \cap Subtree(inp.nodes, inp.apex) = O
         /\ a \in Written(inp) <=> a \notin inp.omit /\ inp.nodes[a].kind # "comment"
<1> DEFINE m == inp.nodes
           T == Subtree(m, inp.apex)
<1>1. a \in T /\ a \in Nodes(m) /\ T \subseteq Nodes(m) /\ a \in Nat
  BY Shape DEF Inside
<1>2. ASSUME NEW j \in (Ancestors(m, a) \ {a}) \cap T PROVE j \in O
  <2>1. j \in Nodes(m) /\ a \in Subtree(m, j) /\ j # a /\ j \in T
    BY DEF Ancestors
  <2>2. j <= a /\ a < After(inp, j) /\ j \in Nat /\ After(inp, j) \in Nat
    BY <2>1, Shape
  <2>3. j < a /\ ~ (After(inp, j) <= a)
    BY <1>1, <2>1, <2>2
  <2> QED BY <2>1, <2>3 DEF Passed
<1>3. ASSUME NEW j \in O PROVE j \in (Ancestors(m, a) \ {a}) \cap T
  <2>1. j \in Nodes(m) /\ j \in T /\ j \in Nat
    BY WrittenNodes DEF Passed
  <2>2. j < a
    BY DEF Passed
  <2>3. j # a
    BY <1>1, <2>1, <2>2
  <2>4. a \in Subtree(m, j)
    BY DEF Inside
  <2> QED BY <2>1, <2>3, <2>4 DEF Ancestors
<1>4. (Ancestors(m, a) \ {a}) \cap T = O
  BY <1>2, <1>3
<1>5. a \notin O
  BY <1>4
<1>6. a \in Written(inp) <=> a \notin inp.omit /\ m[a].kind # "comment"
  <2>1. a \in Ancestors(m, a)
    BY <1>1, Shape DEF Ancestors
  <2>2. \A j \in O : j \notin inp.omit
    <3> SUFFICES ASSUME NEW j \in O PROVE j \notin inp.omit
      OBVIOUS
    <3>1. j \in Written(inp) /\ j \in Nodes(m) /\ j \in T
      BY WrittenNodes DEF Passed
    <3>2. j \in Ancestors(m, j)
      BY <3>1, Shape DEF Ancestors
    <3>3. Ancestors(m, j) \cap T \cap inp.omit = {}
      BY <3>1 DEF Written
    <3> QED BY <3>1, <3>2, <3>3
  <2>3. Ancestors(m, a) \cap T = O \cup {a}
    BY <1>1, <1>4, <2>1
  <2>4. Ancestors(m, a) \cap T \cap inp.omit = {} <=> a \notin inp.omit
    BY <2>2, <2>3
  <2> QED BY <1>1, <2>4 DEF Written
<1> QED BY <1>1, <1>4, <1>5, <1>6

(* The next thing to write is the beginning of the node. *)
LEMMA BeginsNext ==
  ASSUME NEW inp, IsInput(inp), NEW a, NEW O, Passed(inp, a, O), Inside(inp, a, O),
         a \in Written(inp)
  PROVE  Ahead(Tags(inp), Begin(a)) = Printed(inp, a, O)
<1> DEFINE m == inp.nodes
           T == Subtree(m, inp.apex)
<1>1. /\ \A i \in Written(inp) : i \in Nat /\ i \in T /\ i \in Nodes(m) /\ After(inp, i) \in Nat
                                 /\ i < After(inp, i)
      /\ \A i \in Elements(inp) : i \in Written(inp)
  BY Shape, WrittenNodes
<1>2. ASSUME NEW i \in Elements(inp) PROVE After(inp, i) <= a <=> i < a /\ i \notin O
  <2>1. ASSUME After(inp, i) <= a PROVE i < a /\ i \notin O
    <3>1. i < a
      BY <1>1, <2>1
    <3>2. ASSUME i \in O PROVE FALSE
      <4>1. a \in Subtree(m, i)
        BY <3>2 DEF Inside
      <4>2. a < After(inp, i)
        BY <1>1, <4>1, Shape
      <4> QED BY <1>1, <2>1, <4>2
    <3> QED BY <3>1, <3>2
  <2>2. ASSUME i < a, i \notin O PROVE After(inp, i) <= a
    BY <1>1, <2>2 DEF Passed
  <2> QED BY <2>1, <2>2
<1>3. ASSUME NEW t \in Ahead(Tags(inp), Begin(a)) PROVE t \in Printed(inp, a, O)
  <2>1. t \in Tags(inp) /\ Precedes(t, Begin(a))
    BY DEF Ahead
  <2>2. CASE \E i \in Written(inp) : t = Begin(i)
    BY <2>1, <2>2, TagOrder DEF Printed
  <2>3. CASE \E i \in Elements(inp) : t = Finish(inp, i)
    <3>1. PICK i \in Elements(inp) : t = Finish(inp, i)
      BY <2>3
    <3>2. After(inp, i) <= a
      BY <1>1, <2>1, <3>1, TagOrder
    <3> QED BY <1>2, <3>1, <3>2 DEF Printed
  <2> QED BY <2>1, <2>2, <2>3, TagFacts
<1>4. ASSUME NEW t \in Printed(inp, a, O) PROVE t \in Ahead(Tags(inp), Begin(a))
  <2>1. CASE \E i \in Written(inp) : t = Begin(i) /\ i < a
    BY <2>1, TagOrder, TagFacts DEF Ahead
  <2>2. CASE \E i \in Elements(inp) : t = Finish(inp, i) /\ i < a /\ i \notin O
    BY <1>1, <1>2, <2>2, TagOrder, TagFacts DEF Ahead
  <2> QED BY <2>1, <2>2 DEF Printed
<1> QED BY <1>3, <1>4

(* With nothing more below it, the end of the innermost open element. *)
LEMMA FinishesNext ==
  ASSUME NEW inp, IsInput(inp), NEW a, NEW O, Passed(inp, a, O),
         NEW e \in O, \A x \in O : x <= e, a \notin Subtree(inp.nodes, e)
  PROVE  /\ a = After(inp, e)
         /\ Ahead(Tags(inp), Finish(inp, e)) = Printed(inp, a, O)
         /\ Passed(inp, a, O \ {e})
<1> DEFINE m == inp.nodes
           T == Subtree(m, inp.apex)
<1>1. /\ \A i \in Written(inp) : i \in Nat /\ i \in T /\ i \in Nodes(m) /\ After(inp, i) \in Nat
                                 /\ i < After(inp, i)
      /\ \A i \in Elements(inp) : i \in Written(inp)
      /\ \A x \in O : x \in Elements(inp)
      /\ e \in Written(inp)
  BY Shape, WrittenNodes DEF Passed
<1>2. inp.apex \in Nat /\ After(inp, inp.apex) \in Nat /\ a \in Nat
      /\ a <= After(inp, inp.apex) /\ inp.apex <= a
  BY Shape DEF Passed
<1>3. a = After(inp, e)
  <2>1. e < a /\ a <= After(inp, e)
    BY DEF Passed
  <2>2. ASSUME a < After(inp, e) PROVE FALSE
    <3>1. e \in T /\ e \in Nodes(m)
      BY <1>1
    <3>2. inp.apex \in Nodes(m)
      BY Shape
    <3>3. After(inp, e) <= After(inp, inp.apex)
      BY <3>1, <3>2, Shape
    <3>4. a < After(inp, inp.apex)
      BY <1>1, <1>2, <2>2, <3>3
    <3>5. a \in T
      BY <1>2, <3>4, <3>2, Shape DEF Subtree, After
    <3>6. a \in Nodes(m)
      BY <3>2, <3>5, Shape
    <3>7. a \in Subtree(m, e)
      BY <1>1, <1>2, <2>1, <2>2, <3>1, <3>6, Shape
    <3> QED BY <3>7
  <2> QED BY <1>1, <1>2, <2>1, <2>2
<1>4. ASSUME NEW i \in Elements(inp)
      PROVE  (After(inp, i) < a \/ (After(inp, i) = a /\ e < i)) <=> i < a /\ i \notin O
  <2>1. ASSUME After(inp, i) < a \/ (After(inp, i) = a /\ e < i) PROVE i < a /\ i \notin O
    <3>1. i < a
      BY <1>1, <1>2, <2>1
    <3>2. ASSUME i \in O PROVE FALSE
      <4>1. i <= e /\ a <= After(inp, i)
        BY <3>2 DEF Passed
      <4> QED BY <1>1, <1>2, <2>1, <4>1
    <3> QED BY <3>1, <3>2
  <2>2. ASSUME i < a, i \notin O PROVE After(inp, i) < a \/ (After(inp, i) = a /\ e < i)
    <3>1. After(inp, i) <= a
      BY <1>1, <2>2 DEF Passed
    <3>2. ASSUME After(inp, i) = a, i <= e PROVE FALSE
      <4>1. e < After(inp, i) /\ e \in Nodes(m) /\ i \in Nodes(m)
        BY <1>1, <1>3, <3>2
      <4>2. e \in Subtree(m, i)
        BY <1>1, <3>2, <4>1, Shape
      <4>3. i \in O
        BY <1>1, <4>2 DEF Passed
      <4> QED BY <2>2, <4>3
    <3> QED BY <1>1, <1>2, <3>1, <3>2
  <2> QED BY <2>1, <2>2
<1>5. ASSUME NEW t \in Ahead(Tags(inp), Finish(inp, e)) PROVE t \in Printed(inp, a, O)
  <2>1. t \in Tags(inp) /\ Precedes(t, Finish(inp, e))
    BY DEF Ahead
  <2>2. CASE \E i \in Written(inp) : t = Begin(i)
    BY <1>1, <1>3, <2>1, <2>2, TagOrder DEF Printed
  <2>3. CASE \E i \in Elements(inp) : t = Finish(inp, i)
    <3>1. PICK i \in Elements(inp) : t = Finish(inp, i)
      BY <2>3
    <3>2. After(inp, i) < a \/ (After(inp, i) = a /\ e < i)
      BY <1>1, <1>3, <2>1, <3>1, TagOrder
    <3> QED BY <1>4, <3>1, <3>2 DEF Printed
  <2> QED BY <2>1, <2>2, <2>3, TagFacts
<1>6. ASSUME NEW t \in Printed(inp, a, O) PROVE t \in Ahead(Tags(inp), Finish(inp, e))
  <2>1. CASE \E i \in Written(inp) : t = Begin(i) /\ i < a
    BY <1>1, <1>3, <2>1, TagOrder, TagFacts DEF Ahead
  <2>2. CASE \E i \in Elements(inp) : t = Finish(inp, i) /\ i < a /\ i \notin O
    <3>1. PICK i \in Elements(inp) : t = Finish(inp, i) /\ i < a /\ i \notin O
      BY <2>2
    <3>2. Precedes(t, Finish(inp, e))
      BY <1>1, <1>3, <1>4, <3>1, TagOrder
    <3> QED BY <3>1, <3>2, TagFacts DEF Ahead
  <2> QED BY <2>1, <2>2 DEF Printed
<1>7. Passed(inp, a, O \ {e})
  <2>1. \A j \in T : j < a => j \in O \ {e} \/ After(inp, j) <= a
    BY <1>1, <1>2, <1>3 DEF Passed
  <2>2. ASSUME NEW x \in O \ {e}, NEW j \in T, x \in Subtree(m, j) PROVE j \in O \ {e}
    <3>1. j \in O
      BY <2>2 DEF Passed
    <3>2. x <= e /\ x # e /\ x \in Nat /\ e \in Nat
      BY <1>1
    <3>3. j \in Nodes(m) /\ j <= x
      BY <1>1, <2>2, <3>1, Shape
    <3>4. j # e
      BY <3>2, <3>3
    <3> QED BY <3>1, <3>4
  <2> QED BY <2>1, <2>2 DEF Passed
<1> QED BY <1>3, <1>5, <1>6, <1>7

-----------------------------------------------------------------------------
(* A comment, or what is left out, leaves nothing written.                  *)
LEMMA SkipPasses ==
  ASSUME NEW inp, IsInput(inp), NEW a, NEW O, Passed(inp, a, O), Inside(inp, a, O),
         a \notin Written(inp)
  PROVE  /\ Passed(inp, After(inp, a), O)
         /\ Printed(inp, After(inp, a), O) = Printed(inp, a, O)
<1> DEFINE m == inp.nodes
           T == Subtree(m, inp.apex)
           b == After(inp, a)
<1>1. /\ a \in T /\ a \in Nodes(m) /\ a \in Nat /\ b \in Nat /\ a < b
      /\ inp.apex \in Nodes(m) /\ inp.apex \in Nat /\ After(inp, inp.apex) \in Nat
      /\ inp.apex <= a /\ b <= After(inp, inp.apex)
  BY Shape DEF Inside
<1>2. ASSUME NEW i \in Written(inp) PROVE i < b <=> i < a
  <2>1. i \in Nat /\ i \in T /\ i \in Nodes(m)
    BY WrittenNodes
  <2>2. ASSUME i < b, ~ (i < a) PROVE FALSE
    <3>1. i \in Subtree(m, a)
      BY <1>1, <2>1, <2>2, Shape
    <3>2. a \in Ancestors(m, i) \cap T
      BY <1>1, <3>1 DEF Ancestors
    <3>3. a \notin inp.omit
      BY <3>2 DEF Written
    <3>4. m[a].kind = "comment"
      BY <1>1, <3>3, Around
    <3>5. m[a].size = 1
      BY <1>1, <3>4 DEF IsInput
    <3>6. i = a
      BY <1>1, <2>1, <2>2, <3>5 DEF After
    <3> QED BY <3>6
  <2> QED BY <1>1, <2>1, <2>2
<1>3. Printed(inp, b, O) = Printed(inp, a, O)
  BY <1>2, WrittenNodes DEF Printed
<1>4. \A x \in O : x < b /\ b <= After(inp, x)
  <2> SUFFICES ASSUME NEW x \in O PROVE x < b /\ b <= After(inp, x)
    OBVIOUS
  <2>1. x \in Nodes(m) /\ x \in Nat /\ x < a /\ a \in Subtree(m, x)
    BY WrittenNodes DEF Passed, Inside
  <2> QED BY <1>1, <2>1, Shape
<1>5. ASSUME NEW j \in T, j < b PROVE j \in O \/ After(inp, j) <= b
  <2>1. j \in Nodes(m) /\ j \in Nat /\ After(inp, j) \in Nat
    BY <1>1, Shape
  <2>2. CASE j < a
    BY <1>1, <2>1, <2>2 DEF Passed
  <2>3. CASE ~ (j < a)
    <3>1. j \in Subtree(m, a)
      BY <1>1, <1>5, <2>1, <2>3, Shape
    <3> QED BY <1>1, <3>1, Shape
  <2> QED BY <2>2, <2>3
<1>6. b \in inp.apex .. After(inp, inp.apex)
  BY <1>1
<1>7. Passed(inp, b, O)
  BY <1>4, <1>5, <1>6 DEF Passed
<1> QED BY <1>3, <1>7

(* Text or an instruction is one node. *)
LEMMA ContentPasses ==
  ASSUME NEW inp, IsInput(inp), NEW a, NEW O, Passed(inp, a, O), Inside(inp, a, O),
         a \in Written(inp), a \notin Elements(inp)
  PROVE  /\ Passed(inp, a + 1, O)
         /\ Printed(inp, a + 1, O) = Printed(inp, a, O) \cup {Begin(a)}
<1> DEFINE m == inp.nodes
           T == Subtree(m, inp.apex)
<1>1. /\ a \in T /\ a \in Nodes(m) /\ a \in Nat /\ After(inp, a) \in Nat /\ a < After(inp, a)
      /\ inp.apex \in Nodes(m) /\ inp.apex \in Nat /\ After(inp, inp.apex) \in Nat
      /\ inp.apex <= a /\ After(inp, a) <= After(inp, inp.apex)
  BY Shape DEF Inside
<1>2. After(inp, a) = a + 1
  <2>1. m[a].kind # "element"
    BY WrittenNodes
  <2>2. m[a].size = 1
    BY <1>1, <2>1 DEF IsInput
  <2> QED BY <2>2 DEF After
<1>3. \A i \in Nat : i < a + 1 <=> i < a \/ i = a
  BY <1>1
<1>4. Printed(inp, a + 1, O) = Printed(inp, a, O) \cup {Begin(a)}
  <2>1. {i \in Written(inp) : i < a + 1} = {i \in Written(inp) : i < a} \cup {a}
    BY <1>3, WrittenNodes
  <2>2. {i \in Elements(inp) : i < a + 1 /\ i \notin O}
          = {i \in Elements(inp) : i < a /\ i \notin O}
    BY <1>3, WrittenNodes
  <2> QED BY <2>1, <2>2 DEF Printed
<1>5. \A x \in O : x < a + 1 /\ a + 1 <= After(inp, x)
  <2> SUFFICES ASSUME NEW x \in O PROVE x < a + 1 /\ a + 1 <= After(inp, x)
    OBVIOUS
  <2>1. x \in Nodes(m) /\ x \in Nat /\ x < a /\ a \in Subtree(m, x)
    BY WrittenNodes DEF Passed, Inside
  <2>2. After(inp, x) \in Nat /\ a < After(inp, x)
    BY <2>1, Shape
  <2> QED BY <1>1, <2>1, <2>2
<1>6. ASSUME NEW j \in T, j < a + 1 PROVE j \in O \/ After(inp, j) <= a + 1
  <2>1. j \in Nodes(m) /\ j \in Nat /\ After(inp, j) \in Nat
    BY <1>1, Shape
  <2>2. CASE j < a
    BY <1>1, <2>1, <2>2 DEF Passed
  <2>3. CASE ~ (j < a)
    BY <1>1, <1>2, <1>6, <2>1, <2>3
  <2> QED BY <2>2, <2>3
<1>7. a + 1 \in inp.apex .. After(inp, inp.apex)
  BY <1>1, <1>2
<1>8. Passed(inp, a + 1, O)
  BY <1>5, <1>6, <1>7 DEF Passed
<1> QED BY <1>4, <1>8

LEMMA OpenPasses ==
  ASSUME NEW inp, IsInput(inp), NEW a, NEW O, Passed(inp, a, O), Inside(inp, a, O),
         a \in Elements(inp)
  PROVE  /\ Passed(inp, a + 1, O \cup {a})
         /\ Printed(inp, a + 1, O \cup {a}) = Printed(inp, a, O) \cup {Begin(a)}
<1> DEFINE m == inp.nodes
           T == Subtree(m, inp.apex)
<1>1. /\ a \in T /\ a \in Nodes(m) /\ a \in Nat /\ After(inp, a) \in Nat /\ a < After(inp, a)
      /\ inp.apex \in Nodes(m) /\ inp.apex \in Nat /\ After(inp, inp.apex) \in Nat
      /\ inp.apex <= a /\ After(inp, a) <= After(inp, inp.apex)
  BY Shape DEF Inside
<1>2. \A i \in Nat : i < a + 1 <=> i < a \/ i = a
  BY <1>1
<1>3. a \in Written(inp)
  BY WrittenNodes
<1>4. Printed(inp, a + 1, O \cup {a}) = Printed(inp, a, O) \cup {Begin(a)}
  <2>1. {i \in Written(inp) : i < a + 1} = {i \in Written(inp) : i < a} \cup {a}
    BY <1>2, <1>3, WrittenNodes
  <2>2. {i \in Elements(inp) : i < a + 1 /\ i \notin O \cup {a}}
          = {i \in Elements(inp) : i < a /\ i \notin O}
    <3>1. ASSUME NEW i \in Elements(inp)
          PROVE  i < a + 1 /\ i \notin O \cup {a} <=> i < a /\ i \notin O
      <4>1. i \in Nat
        BY WrittenNodes
      <4>2. i < a => i # a
        BY <1>1, <4>1
      <4> QED BY <1>2, <4>1, <4>2
    <3> QED BY <3>1
  <2> QED BY <2>1, <2>2 DEF Printed
<1>5. ASSUME NEW x \in O \cup {a} PROVE x < a + 1 /\ a + 1 <= After(inp, x)
  <2>1. x \in Nodes(m) /\ x \in Nat /\ (x < a \/ x = a) /\ a \in Subtree(m, x)
    BY <1>1, WrittenNodes, Shape DEF Passed, Inside
  <2>2. After(inp, x) \in Nat /\ a < After(inp, x)
    BY <2>1, Shape
  <2> QED BY <1>1, <2>1, <2>2
<1>6. ASSUME NEW j \in T, j < a + 1 PROVE j \in O \cup {a} \/ After(inp, j) <= a + 1
  <2>1. j \in Nodes(m) /\ j \in Nat /\ After(inp, j) \in Nat
    BY <1>1, Shape
  <2>2. CASE j < a
    BY <1>1, <2>1, <2>2 DEF Passed
  <2>3. CASE j = a
    BY <2>3
  <2> QED BY <1>2, <1>6, <2>1, <2>2, <2>3
<1>7. a + 1 \in inp.apex .. After(inp, inp.apex)
  BY <1>1
<1>8. ASSUME NEW x \in O \cup {a}, NEW j \in T, x \in Subtree(m, j) PROVE j \in O \cup {a}
  <2>1. CASE x \in O
    BY <1>8, <2>1 DEF Passed
  <2>2. CASE x = a /\ j # a
    <3>1. j \in Nodes(m)
      BY <1>1, Shape
    <3>2. j \in (Ancestors(m, a) \ {a}) \cap T
      BY <1>8, <2>2, <3>1 DEF Ancestors
    <3> QED BY <3>2, Around
  <2> QED BY <2>1, <2>2
<1>9. Passed(inp, a + 1, O \cup {a})
  BY <1>5, <1>6, <1>7, <1>8 DEF Passed
<1> QED BY <1>4, <1>9

LEMMA ClosePrinted ==
  ASSUME NEW inp, IsInput(inp), NEW a, NEW O, Passed(inp, a, O), NEW e \in O
  PROVE  Printed(inp, a, O \ {e}) = Printed(inp, a, O) \cup {Finish(inp, e)}
<1>1. e \in Elements(inp) /\ e < a
  BY DEF Passed
<1>2. {i \in Elements(inp) : i < a /\ i \notin O \ {e}}
        = {i \in Elements(inp) : i < a /\ i \notin O} \cup {e}
  BY <1>1
<1> QED BY <1>2 DEF Printed

(* At the end everything is written. *)
LEMMA EndPrinted ==
  ASSUME NEW inp, IsInput(inp), NEW a, Passed(inp, a, {}),
         a \notin Subtree(inp.nodes, inp.apex)
  PROVE  Printed(inp, a, {}) = Tags(inp)
<1>1. inp.apex \in Nodes(inp.nodes) /\ inp.apex \in Nat /\ After(inp, inp.apex) \in Nat
      /\ a \in Nat /\ inp.apex <= a /\ a <= After(inp, inp.apex)
  BY Shape DEF Passed
<1>2. a = After(inp, inp.apex)
  <2>1. ~ (a < After(inp, inp.apex))
    BY <1>1, Shape DEF Subtree, After
  <2> QED BY <1>1, <2>1
<1>3. \A i \in Written(inp) : i < a
  BY <1>1, <1>2, WrittenNodes, Shape
<1> QED BY <1>3, TagFacts, WrittenNodes DEF Printed, Tags, Starts, Ends, Begin

-----------------------------------------------------------------------------
(* What the start tags declare.                                             *)
LEMMA Largest ==
  ASSUME NEW n \in Nat, NEW S \in SUBSET (1 .. n), S # {}
  PROVE  \E x \in S : \A y \in S : y <= x
<1> DEFINE D == {n - x : x \in S}
<1>1. D \in SUBSET Nat /\ D # {}
  <2>1. \A x \in S : n - x \in Nat
    OBVIOUS
  <2> QED BY <2>1
<1>2. First(D) \in D /\ \A d \in D : First(D) <= d
  BY <1>1, FirstIsLeast
<1>3. PICK x \in S : First(D) = n - x
  BY <1>2
<1>4. ASSUME NEW y \in S PROVE y <= x
  <2>1. n - x <= n - y /\ x \in 1 .. n /\ y \in 1 .. n
    BY <1>2, <1>3
  <2> QED BY <2>1
<1> QED BY <1>4

LEMMA MaxIs ==
  ASSUME NEW S \in SUBSET Nat, NEW x \in S, \A y \in S : y <= x
  PROVE  Max(S) = x
<1>1. Max(S) \in S /\ \A y \in S : Max(S) >= y
  BY DEF Max
<1>2. Max(S) \in Nat /\ x \in Nat /\ Max(S) >= x /\ Max(S) <= x
  BY <1>1
<1> QED BY <1>2

LEMMA UriIs ==
  ASSUME NEW inp, IsInput(inp), NEW i, NEW p
  PROVE  /\ {UriAt(inp.nodes, i, p)} \ {NoUri} = Source(inp, i, p)
         /\ \A u \in lookup_namespace_uri(inp.nodes, i, p) : u = UriAt(inp.nodes, i, p)
         /\ UriAt(inp.nodes, i, p) = NoUri \/ Source(inp, i, p) = {UriAt(inp.nodes, i, p)}
<1> DEFINE L == lookup_namespace_uri(inp.nodes, i, p)
<1>1. AtMostOne(L)
  BY Lookups
<1>2. UriAt(inp.nodes, i, p) = IF L = {} THEN NoUri ELSE CHOOSE u \in L : TRUE
  BY DEF UriAt
<1>3. Source(inp, i, p) = L \ {NoUri}
  BY DEF Source
<1> HIDE DEF L
<1>4. CASE L = {}
  BY <1>2, <1>3, <1>4 DEF L
<1>5. CASE L # {}
  <2>1. UriAt(inp.nodes, i, p) \in L
    BY <1>2, <1>5
  <2>2. L = {UriAt(inp.nodes, i, p)}
    BY <1>1, <2>1 DEF AtMostOne
  <2> QED BY <1>3, <2>2 DEF L
<1> QED BY <1>4, <1>5

(* What an ancestor declares is in scope. *)
LEMMA DeclaredAbove ==
  ASSUME NEW inp, IsInput(inp), NEW i, NEW j \in Ancestors(inp.nodes, i), NEW p,
         Declares(inp.nodes, j, p)
  PROVE  lookup_namespace_uri(inp.nodes, i, p) # {}
<1> DEFINE m == inp.nodes
           S == {k \in Ancestors(m, i) : Declares(m, k, p)}
<1>1. Nodes(m) = 1 .. Len(m) /\ Len(m) \in Nat
  BY Shape DEF Nodes
<1>2. S \in SUBSET (1 .. Len(m)) /\ S # {}
  BY <1>1 DEF Ancestors
<1>3. PICK x \in S : \A y \in S : y <= x
  BY <1>1, <1>2, Largest
<1>4. PICK k \in DOMAIN m[x].decls : m[x].decls[k][1] = p
  BY <1>3 DEF Declares
<1> DEFINE d == <<x, k>>
<1>5. d[1] = x /\ d[2] = k /\ Declaration(m, d) = m[x].decls[k] /\ Declaration(m, d)[1] = p
  BY <1>4 DEF Declaration
<1>6. x \in Nat /\ \A y \in Ancestors(m, i) : y \in Nat
  BY <1>1, <1>2 DEF Ancestors
<1>7. \A y \in Ancestors(m, i) : y > x => ~ Declares(m, y, p)
  <2> SUFFICES ASSUME NEW y \in Ancestors(m, i), y > x, Declares(m, y, p) PROVE FALSE
    OBVIOUS
  <2>1. y \in S /\ y <= x
    BY <1>3
  <2>2. x \in Nat /\ y \in Nat
    BY <1>6
  <2> HIDE DEF S
  <2> QED BY <2>1, <2>2
<1>8. d = <<d[1], d[2]>>
  OBVIOUS
<1> HIDE DEF d
<1>9. d \in Namespaces(m, i)
  BY <1>3, <1>4, <1>5, <1>7, <1>8, InScope
<1> QED BY <1>5, <1>9 DEF lookup_namespace_uri

LEMMA PrefixStays ==
  ASSUME NEW inp, IsInput(inp), PrefixesStay(inp), NEW j \in Nodes(inp.nodes),
         NEW i \in Subtree(inp.nodes, j), NEW p, p # NoPrefix, Source(inp, j, p) # {}
  PROVE  Source(inp, i, p) # {}
<1> DEFINE m == inp.nodes
<1>1. PICK d \in Namespaces(m, j) : Declaration(m, d)[1] = p
  BY DEF Source, lookup_namespace_uri
<1>2. d[1] \in Ancestors(m, j) /\ d[1] \in Nodes(m) /\ j \in Subtree(m, d[1])
      /\ d[2] \in DOMAIN m[d[1]].decls
  BY InScope, ScopeTyped DEF Ancestors
<1>3. i \in Subtree(m, d[1])
  BY <1>2 DEF IsInput, Subtree, Nodes
<1>4. d[1] \in Ancestors(m, i) /\ Declares(m, d[1], p)
  BY <1>1, <1>2, <1>3 DEF Ancestors, Declares, Declaration
<1>5. PICK e \in Namespaces(m, i) : Declaration(m, e)[1] = p
  <2>1. lookup_namespace_uri(m, i, p) # {}
    BY <1>4, DeclaredAbove
  <2> QED BY <2>1 DEF lookup_namespace_uri
<1>6. e[1] \in Nodes(m) /\ e[2] \in DOMAIN m[e[1]].decls
  BY ScopeTyped
<1>7. Declaration(m, e)[2] # NoUri
  BY <1>5, <1>6 DEF PrefixesStay, Declaration
<1>8. Declaration(m, e)[2] \in lookup_namespace_uri(m, i, p)
  BY <1>5 DEF lookup_namespace_uri
<1> QED BY <1>7, <1>8 DEF Source

(* A prefix as the nearest of some elements that utilizes it has it.        *)
Users(inp, O, p) == {j \in O : p \in Utilized(inp, j)}

Inherited(inp, O, p) ==
  IF Users(inp, O, p) = {} THEN NoUri
  ELSE UriAt(inp.nodes, Max(Users(inp, O, p)), p)

RenderedFor(inp, O, i) ==
  {<<p, UriAt(inp.nodes, i, p)>> :
     p \in {p \in Utilized(inp, i) : UriAt(inp.nodes, i, p) # Inherited(inp, O, p)}}

OpenNodes(fr) == {fr[n].node : n \in 1 .. Len(fr)}

Ordered(fr) == \A m, n \in 1 .. Len(fr) : m < n => fr[m].node < fr[n].node

(* The stack has it so. *)
LEMMA StackInherits ==
  ASSUME NEW inp, IsInput(inp), PrefixesStay(inp), NEW fr, Len(fr) \in Nat, Ordered(fr),
         OpenNodes(fr) \subseteq Nodes(inp.nodes),
         NEW a \in Nat, \A x \in OpenNodes(fr) : x < a /\ a <= After(inp, x),
         NEW st, IsSeq(st), AgreesUpTo(inp, fr, Len(fr), st, Len(st)),
         NEW p
  PROVE  current_binding(st, p) \ {NoUri} = {Inherited(inp, OpenNodes(fr), p)} \ {NoUri}
<1> DEFINE O == OpenNodes(fr)
           L == Len(fr)
           t == Len(st)
           U == Users(inp, O, p)
<1>1. t \in Nat /\ current_binding(st, p) = Bound(st, t, p)
  BY SeqFacts, CurrentBinding
<1>2. \A k \in 1 .. t : st[k][1] = p => \E n \in 1 .. L : Binds(inp, fr[n].node, p)
  BY DEF AgreesUpTo
<1>3. ASSUME \A n \in 1 .. L : ~ Binds(inp, fr[n].node, p) PROVE Bound(st, t, p) = {}
  <2>1. \A k \in 1 .. t : st[k][1] # p
    BY <1>2, <1>3
  <2> QED BY <2>1 DEF Bound, LastOf
<1>4. CASE U = {}
  <2>1. \A n \in 1 .. L : p \notin Utilized(inp, fr[n].node)
    BY <1>4 DEF Users, OpenNodes
  <2>2. Bound(st, t, p) = {}
    BY <1>3, <2>1 DEF Binds
  <2>3. Inherited(inp, O, p) = NoUri
    BY <1>4 DEF Inherited
  <2> QED BY <1>1, <2>2, <2>3
<1>5. CASE U # {}
  <2> DEFINE S == {n \in 1 .. L : p \in Utilized(inp, fr[n].node)}
  <2>1. S # {}
    BY <1>5 DEF Users, OpenNodes
  <2>2. PICK n \in S : \A k \in S : k <= n
    BY <2>1, Largest
  <2> DEFINE e == fr[n].node
  <2>3. n \in 1 .. L /\ e \in O /\ e \in U /\ e \in Nodes(inp.nodes) /\ e \in Nat
    BY <2>2, Shape DEF OpenNodes, Users
  <2>4. ASSUME NEW x \in U PROVE x <= e
    <3>1. PICK k \in 1 .. L : fr[k].node = x
      BY DEF Users, OpenNodes
    <3>2. k \in S /\ k <= n
      BY <2>2, <3>1 DEF Users
    <3>3. k = n \/ k < n
      BY <2>3, <3>2
    <3>4. x \in Nat
      BY Shape DEF Users
    <3> QED BY <2>3, <3>1, <3>3, <3>4 DEF Ordered
  <2>5. Max(U) = e
    <3>1. U \in SUBSET Nat
      BY Shape DEF Users
    <3> HIDE DEF e, U
    <3> QED BY <2>3, <2>4, <3>1, MaxIs
  <2>6. Inherited(inp, O, p) = UriAt(inp.nodes, e, p)
    BY <1>5, <2>5 DEF Inherited
  <2>7. \A k \in n + 1 .. L : p \notin Utilized(inp, fr[k].node)
    <3> SUFFICES ASSUME NEW k \in n + 1 .. L PROVE k \notin S
      OBVIOUS
    <3>1. ~ (k <= n)
      BY <2>3
    <3> QED BY <2>2, <3>1
  <2>8. CASE Binds(inp, e, p)
    <3>1. Bound(st, t, p) \ {NoUri} = Source(inp, e, p)
      BY <2>3, <2>7, <2>8 DEF AgreesUpTo
    <3> QED BY <1>1, <2>6, <3>1, UriIs
  <2>9. CASE ~ Binds(inp, e, p)
    <3>1. p # NoPrefix /\ Source(inp, e, p) = {}
      BY <2>2, <2>9 DEF Binds
    <3>2. ASSUME NEW k \in 1 .. L, Binds(inp, fr[k].node, p) PROVE FALSE
      <4> DEFINE x == fr[k].node
      <4>1. x \in O /\ x \in U /\ x <= e /\ x \in Nodes(inp.nodes) /\ x \in Nat
        BY <2>4, <3>2, Shape DEF Binds, Users, OpenNodes
      <4>2. Source(inp, x, p) # {}
        BY <3>1, <3>2 DEF Binds
      <4>3. e < a /\ a <= After(inp, x) /\ After(inp, x) \in Nat
        BY <2>3, <4>1, Shape
      <4>4. e < After(inp, x)
        BY <2>3, <4>3
      <4>5. e \in Subtree(inp.nodes, x)
        BY <2>3, <4>1, <4>4, Shape
      <4> QED BY <3>1, <4>1, <4>2, <4>5, PrefixStays
    <3>3. Bound(st, t, p) = {}
      BY <1>3, <3>2
    <3>4. {UriAt(inp.nodes, e, p)} \ {NoUri} = {}
      BY <3>1, UriIs
    <3> QED BY <1>1, <2>6, <3>3, <3>4
  <2> QED BY <2>8, <2>9
<1> QED BY <1>4, <1>5

(* So what a start tag declares follows from the elements around it alone.  *)
LEMMA ToRenderIs ==
  ASSUME NEW inp, IsInput(inp), PrefixesStay(inp), NEW O \in SUBSET Nodes(inp.nodes),
         NEW i, \A x \in O : i \in Subtree(inp.nodes, x), NEW st,
         \A p : current_binding(st, p) \ {NoUri} = {Inherited(inp, O, p)} \ {NoUri}
  PROVE  ToRender(inp, i, st) = RenderedFor(inp, O, i)
<1> DEFINE U == Utilized(inp, i)
           Uri(p) == UriAt(inp.nodes, i, p)
           Inh(p) == Inherited(inp, O, p)
           Undeclared == /\ NoPrefix \in U
                         /\ Source(inp, i, NoPrefix) = {}
                         /\ current_binding(st, NoPrefix) \ {NoUri} # {}
           D == ToRender(inp, i, st)
           R == RenderedFor(inp, O, i)
<1>1. D = (UNION {{<<p, u>> : u \in Source(inp, i, p) \ current_binding(st, p)} : p \in U})
            \cup (IF Undeclared THEN {<<NoPrefix, NoUri>>} ELSE {})
  BY DEF ToRender, Source
<1>2. \A p : /\ {Uri(p)} \ {NoUri} = Source(inp, i, p)
             /\ current_binding(st, p) \ {NoUri} = {Inh(p)} \ {NoUri}
  BY UriIs
<1>3. R = {<<p, Uri(p)>> : p \in {p \in U : Uri(p) # Inh(p)}}
  BY DEF RenderedFor
<1>4. ASSUME NEW p, p # NoPrefix, Uri(p) = NoUri PROVE Inh(p) = NoUri
  <2>1. CASE Users(inp, O, p) = {}
    BY <2>1 DEF Inherited
  <2>2. CASE Users(inp, O, p) # {}
    <3> DEFINE S == Users(inp, O, p)
    <3>1. S \in SUBSET (1 .. Len(inp.nodes)) /\ Len(inp.nodes) \in Nat
      BY Shape DEF Users, Nodes
    <3>2. PICK x \in S : \A y \in S : y <= x
      BY <2>2, <3>1, Largest
    <3>3. Max(S) = x
      <4>1. S \in SUBSET Nat
        BY <3>1
      <4> HIDE DEF S
      <4> QED BY <3>2, <4>1, MaxIs
    <3>4. Inh(p) = UriAt(inp.nodes, x, p)
      BY <2>2, <3>3 DEF Inherited
    <3>5. x \in Nodes(inp.nodes) /\ i \in Subtree(inp.nodes, x)
      BY <3>2 DEF Users
    <3>6. Source(inp, i, p) = {}
      BY <1>2, <1>4
    <3>7. Source(inp, x, p) = {}
      BY <1>4, <3>5, <3>6, PrefixStays
    <3> QED BY <3>4, <3>7, UriIs
  <2> QED BY <2>1, <2>2
<1> HIDE DEF D, R, Uri, Inh, U
<1>5. ASSUME NEW x \in D PROVE x \in R
  <2>1. CASE \E p \in U : \E u \in Source(inp, i, p) \ current_binding(st, p) : x = <<p, u>>
    <3>1. PICK p \in U : \E u \in Source(inp, i, p) \ current_binding(st, p) : x = <<p, u>>
      BY <2>1
    <3>2. PICK u \in Source(inp, i, p) \ current_binding(st, p) : x = <<p, u>>
      BY <3>1
    <3>3. u = Uri(p) /\ u # NoUri /\ u # Inh(p)
      BY <1>2, <3>2
    <3> QED BY <1>3, <3>1, <3>2, <3>3
  <2>2. CASE Undeclared /\ x = <<NoPrefix, NoUri>>
    <3>1. Uri(NoPrefix) = NoUri /\ Inh(NoPrefix) # NoUri
      BY <1>2, <2>2
    <3> QED BY <1>3, <2>2, <3>1
  <2> QED BY <1>1, <2>1, <2>2
<1>6. ASSUME NEW x \in R PROVE x \in D
  <2>1. PICK p \in U : Uri(p) # Inh(p) /\ x = <<p, Uri(p)>>
    BY <1>3
  <2>2. CASE Uri(p) # NoUri
    <3>1. Uri(p) \in Source(inp, i, p)
      BY <1>2, <2>2
    <3>2. Uri(p) \notin current_binding(st, p)
      BY <1>2, <2>1, <2>2
    <3>3. x \in {<<p, u>> : u \in Source(inp, i, p) \ current_binding(st, p)}
      BY <2>1, <3>1, <3>2
    <3> QED BY <1>1, <2>1, <3>3
  <2>3. CASE Uri(p) = NoUri
    <3>1. p = NoPrefix
      BY <1>4, <2>1, <2>3
    <3>2. Undeclared
      BY <1>2, <2>1, <2>3, <3>1
    <3> QED BY <1>1, <2>1, <2>3, <3>1, <3>2
  <2> QED BY <2>2, <2>3
<1> QED BY <1>5, <1>6 DEF D, R

-----------------------------------------------------------------------------
(* The octets, whatever the start tags are.                                 *)
Text(inp, s) ==
  [t \in Tags(inp) |->
     CASE t \in Ends(inp) -> EndTag(inp.nodes, t[1] - t[2] + 1)
       [] t \in Elements(inp) \X {0} -> s[t[1]]
       [] OTHER -> Content(inp.nodes, t[1])]

LEMMA TextIs ==
  ASSUME NEW inp, IsInput(inp), NEW s
  PROVE  /\ DOMAIN Text(inp, s) = Tags(inp)
         /\ \A i \in Elements(inp) : Text(inp, s)[Begin(i)] = s[i]
         /\ \A i \in Written(inp) :
              i \notin Elements(inp) => Text(inp, s)[Begin(i)] = Content(inp.nodes, i)
         /\ \A i \in Elements(inp) : Text(inp, s)[Finish(inp, i)] = EndTag(inp.nodes, i)
<1>1. DOMAIN Text(inp, s) = Tags(inp)
  BY DEF Text
<1>2. ASSUME NEW i \in Elements(inp) PROVE Text(inp, s)[Begin(i)] = s[i]
  <2>1. /\ Begin(i) \in Tags(inp) /\ Begin(i) \notin Ends(inp)
        /\ Begin(i) \in Elements(inp) \X {0} /\ Begin(i)[1] = i
    BY TagFacts, WrittenNodes DEF Begin
  <2> QED BY <2>1 DEF Text
<1>3. ASSUME NEW i \in Written(inp), i \notin Elements(inp)
      PROVE  Text(inp, s)[Begin(i)] = Content(inp.nodes, i)
  <2>1. /\ Begin(i) \in Tags(inp) /\ Begin(i) \notin Ends(inp)
        /\ Begin(i) \notin Elements(inp) \X {0} /\ Begin(i)[1] = i
    BY <1>3, TagFacts DEF Begin
  <2> QED BY <2>1 DEF Text
<1>4. ASSUME NEW i \in Elements(inp)
      PROVE  Text(inp, s)[Finish(inp, i)] = EndTag(inp.nodes, i)
  <2> DEFINE t == Finish(inp, i)
  <2>1. t \in Tags(inp) /\ t \in Ends(inp) /\ t[1] - t[2] + 1 = i
    BY TagFacts
  <2>2. t \notin Elements(inp) \X {0}
    <3>1. inp.nodes[i].size # 0
      BY Shape, WrittenNodes
    <3> QED BY <3>1 DEF Finish
  <2> HIDE DEF t
  <2>3. Text(inp, s)[t] = EndTag(inp.nodes, t[1] - t[2] + 1)
    BY <2>1, <2>2 DEF Text
  <2> QED BY <2>1, <2>3 DEF t
<1> QED BY <1>1, <1>2, <1>3, <1>4

(* The start tags of the walk. *)
Above(inp, i) == (Ancestors(inp.nodes, i) \ {i}) \cap Subtree(inp.nodes, inp.apex)

WalkedStarts(inp) ==
  [i \in Elements(inp) |-> StartTag(inp.nodes, i, RenderedFor(inp, Above(inp, i), i))]

Walked(inp) == Text(inp, WalkedStarts(inp))

(* What is out is what was printed, each in its place. *)
Says(inp, P, o) ==
  /\ IsSeq(o)
  /\ Len(o) = Cardinality(P)
  /\ \A t \in P : /\ Position(Tags(inp), t) \in 1 .. Len(o)
                  /\ o[Position(Tags(inp), t)] = Walked(inp)[t]

(* Writing the next tag keeps the output in order. *)
LEMMA SaysMore ==
  ASSUME NEW inp, IsInput(inp), NEW P, NEW o, Says(inp, P, o),
         NEW t \in Tags(inp), Ahead(Tags(inp), t) = P
  PROVE  Says(inp, P \cup {t}, Append(o, Walked(inp)[t]))
<1> DEFINE x == Walked(inp)[t]
           q == Append(o, x)
           T == Tags(inp)
<1>1. IsPairs(T)
  BY TagFacts
<1>2. IsFiniteSet(P) /\ Cardinality(P) \in Nat /\ Position(T, t) = Cardinality(P) + 1
  BY <1>1, AheadFinite DEF Position
<1>3. t \notin P
  <2>1. t \in Nat \X Nat
    BY <1>1 DEF IsPairs
  <2> QED BY <2>1, PrecedesOrders DEF Ahead
<1>4. Cardinality(P \cup {t}) = Cardinality(P) + 1
  BY <1>2, <1>3, FS_AddElement
<1> HIDE DEF x, T
<1>5. IsSeq(q) /\ Len(q) = Len(o) + 1 /\ q[Len(o) + 1] = x /\ \A k \in 1 .. Len(o) : q[k] = o[k]
  <2>1. PICK S : o \in Seq(S)
    BY DEF Says, IsSeq
  <2>2. o \in Seq(S \cup {x}) /\ x \in S \cup {x}
    BY <2>1, SeqMonotonic
  <2>3. q \in Seq(S \cup {x}) /\ Len(q) = Len(o) + 1 /\ q[Len(o) + 1] = x
        /\ \A k \in 1 .. Len(o) : q[k] = o[k]
    BY <2>2, AppendProperties
  <2> QED BY <2>3 DEF IsSeq
<1> HIDE DEF q
<1>6. Len(o) = Cardinality(P) /\ Len(o) \in Nat
  BY <1>2 DEF Says
<1>7. ASSUME NEW u \in P \cup {t}
      PROVE  Position(T, u) \in 1 .. Len(q) /\ q[Position(T, u)] = Walked(inp)[u]
  <2>1. CASE u = t
    BY <1>2, <1>5, <1>6, <2>1 DEF x
  <2>2. CASE u \in P
    <3>1. Position(T, u) \in 1 .. Len(o) /\ o[Position(T, u)] = Walked(inp)[u]
      BY <2>2 DEF Says, T
    <3> QED BY <1>5, <1>6, <3>1
  <2> QED BY <2>1, <2>2
<1>8. Says(inp, P \cup {t}, q)
  BY <1>4, <1>5, <1>6, <1>7 DEF Says, T
<1> QED BY <1>8 DEF q, x

(* An output with every tag in its place is the function put in order. *)
LEMMA SaysAll ==
  ASSUME NEW inp, IsInput(inp), NEW o, Says(inp, Tags(inp), o)
  PROVE  o = InOrder(Walked(inp))
<1> DEFINE T == Tags(inp)
           f == Walked(inp)
<1>1. IsPairs(T) /\ DOMAIN f = T
  BY TagFacts, TextIs DEF Walked
<1> HIDE DEF f, T
<1>2. /\ Cardinality(T) \in Nat
      /\ InOrder(f) = [n \in 1 .. Cardinality(T) |-> InOrder(f)[n]]
      /\ \A t \in T : InOrder(f)[Position(T, t)] = f[t]
  BY <1>1, InOrderIs
<1>3. o = [n \in 1 .. Cardinality(T) |-> o[n]]
  <2>1. PICK S : o \in Seq(S)
    BY DEF Says, IsSeq
  <2>2. Len(o) = Cardinality(T)
    BY DEF Says, T
  <2> QED BY <2>1, <2>2, LenProperties
<1>4. ASSUME NEW n \in 1 .. Cardinality(T) PROVE o[n] = InOrder(f)[n]
  <2>1. PICK t \in T : Position(T, t) = n
    BY <1>1, Ranked
  <2>2. o[n] = f[t]
    BY <2>1 DEF Says, T, f
  <2> QED BY <1>2, <2>1, <2>2
<1>5. [n \in 1 .. Cardinality(T) |-> o[n]] = [n \in 1 .. Cardinality(T) |-> InOrder(f)[n]]
  BY <1>4
<1> QED BY <1>2, <1>3, <1>5 DEF f

-----------------------------------------------------------------------------
(* The stack of open elements, as a set of nodes.                           *)
LEMMA OpenedNodes ==
  ASSUME NEW S, NEW fr \in Seq(S), NEW f \in S, Ordered(fr),
         \A x \in OpenNodes(fr) : x < f.node
  PROVE  OpenNodes(Append(fr, f)) = OpenNodes(fr) \cup {f.node} /\ Ordered(Append(fr, f))
<1> DEFINE gr == Append(fr, f)
           L == Len(fr)
<1>1. L \in Nat /\ Len(gr) = L + 1 /\ gr[L + 1] = f /\ \A n \in 1 .. L : gr[n] = fr[n]
  BY LenProperties, AppendProperties
<1> HIDE DEF gr
<1>2. \A n : n \in 1 .. L + 1 <=> n \in 1 .. L \/ n = L + 1
  BY <1>1
<1>3. OpenNodes(gr) = OpenNodes(fr) \cup {f.node}
  <2>1. ASSUME NEW x \in OpenNodes(gr) PROVE x \in OpenNodes(fr) \cup {f.node}
    <3>1. PICK n \in 1 .. L + 1 : x = gr[n].node
      BY <1>1 DEF OpenNodes
    <3> QED BY <1>1, <1>2, <3>1 DEF OpenNodes
  <2>2. ASSUME NEW x \in OpenNodes(fr) PROVE x \in OpenNodes(gr)
    <3>1. PICK n \in 1 .. L : x = fr[n].node
      BY DEF OpenNodes
    <3> QED BY <1>1, <1>2, <3>1 DEF OpenNodes
  <2>3. f.node \in OpenNodes(gr)
    BY <1>1, <1>2 DEF OpenNodes
  <2> QED BY <2>1, <2>2, <2>3
<1>4. ASSUME NEW m \in 1 .. L + 1, NEW n \in 1 .. L + 1, m < n
      PROVE  gr[m].node < gr[n].node
  <2>1. m \in 1 .. L
    BY <1>1, <1>4
  <2>2. CASE n \in 1 .. L
    BY <1>1, <1>4, <2>1, <2>2 DEF Ordered
  <2>3. CASE n = L + 1
    BY <1>1, <2>1, <2>3 DEF OpenNodes
  <2> QED BY <1>2, <2>2, <2>3
<1>5. Ordered(gr)
  BY <1>1, <1>4 DEF Ordered
<1> QED BY <1>3, <1>5 DEF gr

LEMMA InnermostIs ==
  ASSUME NEW S, NEW fr \in Seq(S), fr # <<>>, Ordered(fr), OpenNodes(fr) \subseteq Nat
  PROVE  /\ Last(fr).node \in OpenNodes(fr)
         /\ \A x \in OpenNodes(fr) : x <= Last(fr).node
         /\ OpenNodes(Front(fr)) = OpenNodes(fr) \ {Last(fr).node}
         /\ Ordered(Front(fr))
<1> DEFINE gr == Front(fr)
           L == Len(fr)
<1>1. PICK n \in Nat : n = L - 1
  BY EmptySeq, LenProperties
<1>2. L = n + 1 /\ L \in 1 .. L /\ Last(fr) = fr[L]
  BY <1>1, LenProperties DEF Last
<1>3. Len(gr) = n /\ \A k \in 1 .. n : gr[k] = fr[k]
  <2>1. \A k \in 1 .. n : fr[k] \in S
    BY <1>1, <1>2, ElementOfSeq
  <2>2. gr = SubSeq(fr, 1, n)
    BY <1>1 DEF Front
  <2>3. Len(gr) = n
    BY <2>1, <2>2, SubSeqProperties
  <2>4. \A k \in 1 .. n : gr[k] = fr[k]
    BY <2>1, <2>2, SubSeqProperties
  <2> QED BY <2>3, <2>4
<1> HIDE DEF gr, L
<1>4. \A k : k \in 1 .. L <=> k \in 1 .. n \/ k = L
  BY <1>2
<1>5. \A k \in 1 .. L : fr[k].node \in OpenNodes(fr) /\ fr[k].node \in Nat
  BY DEF OpenNodes, L
<1>6. \A k \in 1 .. n : fr[k].node < fr[L].node
  <2> SUFFICES ASSUME NEW k \in 1 .. n PROVE fr[k].node < fr[L].node
    OBVIOUS
  <2>1. k \in 1 .. L /\ k < L
    BY <1>2
  <2> QED BY <1>2, <2>1 DEF Ordered, L
<1>7. ASSUME NEW x \in OpenNodes(fr) PROVE x = fr[L].node \/ \E k \in 1 .. n : x = fr[k].node
  <2>1. PICK k \in 1 .. L : x = fr[k].node
    BY DEF OpenNodes, L
  <2> QED BY <1>4, <2>1
<1>8. \A x \in OpenNodes(fr) : x <= fr[L].node
  BY <1>2, <1>4, <1>5, <1>6, <1>7
<1>9. OpenNodes(gr) = OpenNodes(fr) \ {fr[L].node}
  <2>1. ASSUME NEW x \in OpenNodes(gr) PROVE x \in OpenNodes(fr) \ {fr[L].node}
    <3>1. PICK k \in 1 .. n : x = gr[k].node
      BY <1>3 DEF OpenNodes
    <3>2. k \in 1 .. L /\ x = fr[k].node /\ x < fr[L].node
      BY <1>3, <1>4, <1>6, <3>1
    <3> QED BY <1>2, <1>5, <3>2
  <2>2. ASSUME NEW x \in OpenNodes(fr) \ {fr[L].node} PROVE x \in OpenNodes(gr)
    <3>1. PICK k \in 1 .. n : x = fr[k].node
      BY <1>7
    <3>2. x = gr[k].node /\ k \in 1 .. Len(gr)
      BY <1>3, <3>1
    <3> QED BY <3>2 DEF OpenNodes
  <2> QED BY <2>1, <2>2
<1>10. Ordered(gr)
  <2> SUFFICES ASSUME NEW j \in 1 .. n, NEW k \in 1 .. n, j < k
               PROVE  gr[j].node < gr[k].node
    BY <1>3 DEF Ordered
  <2> QED BY <1>3, <1>4 DEF Ordered, L
<1> QED BY <1>2, <1>5, <1>8, <1>9, <1>10 DEF gr

(* Below the innermost open element is below every open element. *)
LEMMA WithinIsInside ==
  ASSUME NEW inp, IsInput(inp), NEW S, NEW fr \in Seq(S), Ordered(fr),
         NEW a, Passed(inp, a, OpenNodes(fr)),
         a \in Subtree(inp.nodes, IF fr = <<>> THEN inp.apex ELSE Last(fr).node)
  PROVE  Inside(inp, a, OpenNodes(fr))
<1> DEFINE m == inp.nodes
           O == OpenNodes(fr)
<1>1. \A x \in O : x \in Nodes(m) /\ x \in Nat /\ x \in Subtree(m, inp.apex)
  BY WrittenNodes DEF Passed
<1>2. CASE fr = <<>>
  <2>1. O = {}
    <3>1. Len(fr) = 0
      BY <1>2
    <3> HIDE <1>2
    <3> QED BY <3>1 DEF OpenNodes
  <2> QED BY <1>2, <2>1 DEF Inside
<1>3. CASE fr # <<>>
  <2> DEFINE e == Last(fr).node
  <2>1. e \in O /\ (\A x \in O : x <= e) /\ a \in Subtree(m, e)
    <3>1. O \subseteq Nat
      BY <1>1
    <3> QED BY <1>3, <3>1, InnermostIs
  <2> HIDE DEF e
  <2>2. /\ e \in Nodes(m) /\ e \in Nat /\ a \in Nodes(m) /\ a \in Nat
        /\ a < After(inp, e) /\ e < a /\ After(inp, e) \in Nat
    BY <1>1, <2>1, Shape DEF Passed
  <2>3. a \in Subtree(m, inp.apex)
    <3>1. e \in Subtree(m, inp.apex)
      BY <1>1, <2>1
    <3> QED BY <2>1, <3>1 DEF IsInput
  <2>4. ASSUME NEW x \in O PROVE a \in Subtree(m, x)
    <3>1. x \in Nodes(m) /\ x \in Nat /\ x <= e /\ a <= After(inp, x) /\ After(inp, x) \in Nat
      BY <1>1, <2>1, Shape DEF Passed
    <3>2. e \in Subtree(m, x)
      BY <2>2, <3>1, Shape
    <3>3. After(inp, e) <= After(inp, x)
      BY <3>1, <3>2, Shape
    <3>4. x <= a /\ a < After(inp, x)
      BY <2>2, <3>1, <3>3
    <3> QED BY <2>2, <3>1, <3>4, Shape
  <2> QED BY <2>3, <2>4 DEF Inside
<1> QED BY <1>2, <1>3

-----------------------------------------------------------------------------
(* The invariant of the walk and its output.                                *)
WInv ==
  /\ IInv
  /\ Ordered(open)
  /\ Passed(input, at, OpenNodes(open))
  /\ PrefixesStay(input) => Says(input, Printed(input, at, OpenNodes(open)), out)

(* At first nothing is passed, and nothing written. *)
LEMMA InitWInv == Init => WInv
<1> SUFFICES ASSUME Init PROVE WInv
  OBVIOUS
<1>1. IInv /\ IsInput(input)
  BY InitIInv, InputsAssumption DEF Init
<1>2. at = input.apex /\ Len(open) = 0 /\ Len(out) = 0 /\ IsSeq(out)
  <2>1. open = <<>> /\ out = <<>> /\ at = input.apex
    BY DEF Init
  <2>2. out \in Seq({})
    BY <2>1
  <2> QED BY <2>1, <2>2 DEF IsSeq
<1>3. Ordered(open) /\ OpenNodes(open) = {}
  BY <1>2 DEF Ordered, OpenNodes
<1>4. \A j \in Subtree(input.nodes, input.apex) : ~ (j < at)
  BY <1>1, <1>2, Shape DEF Subtree
<1>5. Passed(input, at, {})
  BY <1>1, <1>2, <1>4, Shape DEF Passed
<1>6. Printed(input, at, {}) = {}
  <2>1. \A i \in Written(input) : ~ (i < at)
    BY <1>1, <1>4, WrittenNodes
  <2> QED BY <1>1, <2>1, WrittenNodes DEF Printed
<1>7. Says(input, {}, out)
  BY <1>2, FS_EmptySet DEF Says
<1> QED BY <1>1, <1>3, <1>5, <1>6, <1>7 DEF WInv

(* Every step keeps it: what it writes is the next tag, and as it should be. *)
LEMMA NextWInv == WInv /\ [Next]_vars => WInv'
<1> SUFFICES ASSUME WInv, [Next]_vars PROVE WInv'
  OBVIOUS
<1> DEFINE O == OpenNodes(open)
           P == Printed(input, at, O)
           F == [node : Nodes(input.nodes), base_len : Nat]
<1>1. /\ IsInput(input) /\ IInv' /\ input' = input
      /\ Frames(input, open, rendered) /\ open \in Seq(F) /\ IsSeq(rendered)
      /\ Len(open) \in Nat
  <2>1. IsInput(input) /\ IInv' /\ IInv
    BY NextIInv, InputsAssumption DEF WInv, IInv
  <2>2. input' = input
    BY DEF Next, vars, Skip, WriteContent, OpenElement, CloseElement
  <2>3. Frames(input, open, rendered)
    BY <2>1 DEF IInv
  <2> QED BY <2>1, <2>2, <2>3, LenProperties DEF Frames
<1>2. Ordered(open) /\ Passed(input, at, O) /\ (PrefixesStay(input) => Says(input, P, out))
  BY DEF WInv
<1>3. ASSUME NEW fr, NEW a, NEW o, open' = fr, at' = a, out' = o,
             Ordered(fr), Passed(input, a, OpenNodes(fr)),
             PrefixesStay(input) => Says(input, Printed(input, a, OpenNodes(fr)), o)
      PROVE  WInv'
  BY <1>1, <1>3 DEF WInv
<1>4. /\ O \subseteq Nodes(input.nodes) /\ O \subseteq Nat
      /\ \A x \in O : x < at /\ at <= After(input, x)
      /\ at \in Nat
  <2>1. at \in Nat
    BY <1>1, <1>2, Shape DEF Passed
  <2>2. \A x \in O : x \in Elements(input) /\ x < at /\ at <= After(input, x)
    BY <1>2 DEF Passed
  <2>3. \A x \in Elements(input) : x \in Nodes(input.nodes) /\ x \in Nat
    BY <1>1, WrittenNodes
  <2> QED BY <2>1, <2>2, <2>3
<1>5. ASSUME Within PROVE Inside(input, at, O)
  BY <1>1, <1>2, <1>5, WithinIsInside DEF Within
<1>6. ASSUME Within
      PROVE  /\ at \notin O /\ Above(input, at) = O
             /\ at \in Written(input) <=>
                  at \notin input.omit /\ input.nodes[at].kind # "comment"
  BY <1>1, <1>2, <1>5, <1>6, Around DEF Above
<1>7. ASSUME Within, at \in Written(input)
      PROVE  Begin(at) \in Tags(input) /\ Ahead(Tags(input), Begin(at)) = P
  BY <1>1, <1>2, <1>5, <1>7, BeginsNext, TagFacts
<1>8. CASE Skip
  <2>1. Within /\ at' = After(input, at) /\ open' = open /\ out' = out
        /\ at \notin Written(input)
    BY <1>6, <1>8 DEF Skip, After
  <2>2. Passed(input, After(input, at), O) /\ Printed(input, After(input, at), O) = P
    BY <1>1, <1>2, <1>5, <2>1, SkipPasses
  <2> QED BY <1>2, <1>3, <2>1, <2>2
<1>9. CASE WriteContent
  <2>1. Within /\ at' = at + 1 /\ open' = open /\ out' = Append(out, Content(input.nodes, at))
        /\ at \in Written(input) /\ at \notin Elements(input)
    <3>1. input.nodes[at].kind # "comment" /\ input.nodes[at].kind # "element"
      BY <1>9 DEF WriteContent
    <3> QED BY <1>1, <1>6, <1>9, <3>1, WrittenNodes DEF WriteContent
  <2>2. Passed(input, at + 1, O) /\ Printed(input, at + 1, O) = P \cup {Begin(at)}
    BY <1>1, <1>2, <1>5, <2>1, ContentPasses
  <2>3. Walked(input)[Begin(at)] = Content(input.nodes, at)
    BY <1>1, <2>1, TextIs DEF Walked
  <2>4. PrefixesStay(input) => Says(input, P \cup {Begin(at)}, out')
    BY <1>1, <1>2, <1>7, <2>1, <2>3, SaysMore
  <2> QED BY <1>2, <1>3, <2>1, <2>2, <2>4
<1>10. CASE OpenElement
  <2> DEFINE f == [node |-> at, base_len |-> Len(rendered)]
  <2>1. /\ Within /\ at' = at + 1 /\ open' = Append(open, f)
        /\ out' = Append(out, StartTag(input.nodes, at, ToRender(input, at, rendered)))
        /\ at \in Elements(input)
    <3>1. input.nodes[at].kind = "element" /\ input.nodes[at].kind # "comment"
      BY <1>10 DEF OpenElement
    <3> QED BY <1>1, <1>6, <1>10, <3>1, WrittenNodes DEF OpenElement
  <2>2. at \in Written(input) /\ at \in Nodes(input.nodes)
    BY <1>1, <2>1, WrittenNodes
  <2>3. f \in F /\ f.node = at
    BY <1>1, <2>2, SeqFacts
  <2> HIDE DEF f, F
  <2>4. OpenNodes(Append(open, f)) = O \cup {at} /\ Ordered(Append(open, f))
    BY <1>1, <1>2, <1>4, <2>3, OpenedNodes
  <2>5. Passed(input, at + 1, O \cup {at})
        /\ Printed(input, at + 1, O \cup {at}) = P \cup {Begin(at)}
    BY <1>1, <1>2, <1>5, <2>1, OpenPasses
  <2>6. ASSUME PrefixesStay(input) PROVE Says(input, P \cup {Begin(at)}, out')
    <3>1. AgreesUpTo(input, open, Len(open), rendered, Len(rendered))
      <4>1. Len(open) \in 0 .. Len(open) /\ Top(open, rendered, Len(open)) = Len(rendered)
        BY <1>1 DEF Top
      <4> QED BY <1>1, <4>1 DEF Frames
    <3>2. \A p : current_binding(rendered, p) \ {NoUri} = {Inherited(input, O, p)} \ {NoUri}
      BY <1>1, <1>2, <1>4, <2>6, <3>1, StackInherits
    <3>3. \A x \in O : at \in Subtree(input.nodes, x)
      BY <1>5, <2>1 DEF Inside
    <3>4. ToRender(input, at, rendered) = RenderedFor(input, O, at)
      BY <1>1, <1>4, <2>6, <3>2, <3>3, ToRenderIs
    <3>5. Walked(input)[Begin(at)] = StartTag(input.nodes, at, RenderedFor(input, O, at))
      <4>1. Walked(input)[Begin(at)] = WalkedStarts(input)[at]
        BY <1>1, <2>1, TextIs DEF Walked
      <4>2. WalkedStarts(input)[at]
              = StartTag(input.nodes, at, RenderedFor(input, Above(input, at), at))
        BY <2>1 DEF WalkedStarts
      <4> QED BY <1>6, <2>1, <4>1, <4>2
    <3>6. out' = Append(out, Walked(input)[Begin(at)])
      BY <2>1, <3>4, <3>5
    <3> QED BY <1>1, <1>2, <1>7, <2>1, <2>2, <2>6, <3>6, SaysMore
  <2> QED BY <1>3, <2>1, <2>4, <2>5, <2>6
<1>11. CASE CloseElement
  <2> DEFINE e == Last(open).node
  <2>1. /\ at' = at /\ open # <<>> /\ open' = Front(open)
        /\ out' = Append(out, EndTag(input.nodes, e))
        /\ at \notin Subtree(input.nodes, e)
    BY <1>11 DEF CloseElement, Within
  <2>2. /\ e \in O /\ (\A x \in O : x <= e)
        /\ OpenNodes(Front(open)) = O \ {e} /\ Ordered(Front(open))
    BY <1>1, <1>2, <1>4, <2>1, InnermostIs
  <2> HIDE DEF e
  <2>3. /\ Ahead(Tags(input), Finish(input, e)) = P
        /\ Passed(input, at, O \ {e})
        /\ Printed(input, at, O \ {e}) = P \cup {Finish(input, e)}
    <3>1. \A x \in O : x <= e
      BY <2>2
    <3>2. Passed(input, at, O) /\ e \in O
      BY <1>2, <2>2
    <3> HIDE DEF O
    <3>3. /\ Ahead(Tags(input), Finish(input, e)) = Printed(input, at, O)
          /\ Passed(input, at, O \ {e})
      BY <1>1, <2>1, <3>1, <3>2, FinishesNext
    <3>4. Printed(input, at, O \ {e}) = Printed(input, at, O) \cup {Finish(input, e)}
      BY <1>1, <3>2, ClosePrinted
    <3> QED BY <3>3, <3>4
  <2>4. e \in Elements(input)
    BY <1>2, <2>2 DEF Passed
  <2>5. Finish(input, e) \in Tags(input)
        /\ Walked(input)[Finish(input, e)] = EndTag(input.nodes, e)
    BY <1>1, <2>4, TagFacts, TextIs DEF Walked
  <2>6. PrefixesStay(input) => Says(input, P \cup {Finish(input, e)}, out')
    BY <1>1, <1>2, <2>1, <2>3, <2>5, SaysMore
  <2> QED BY <1>3, <2>1, <2>2, <2>3, <2>6
<1>12. CASE UNCHANGED vars
  BY <1>2, <1>3, <1>12 DEF vars
<1> QED BY <1>8, <1>9, <1>10, <1>11, <1>12 DEF Next

(* When the walk is over, what is out was written by it in full. *)
LEMMA DoneWalked ==
  WInv /\ done /\ PrefixesStay(input) => IsInput(input) /\ out = InOrder(Walked(input))
<1> SUFFICES ASSUME WInv, done, PrefixesStay(input)
             PROVE  IsInput(input) /\ out = InOrder(Walked(input))
  OBVIOUS
<1>1. IsInput(input)
  BY InputsAssumption DEF WInv, IInv
<1>2. open = <<>> /\ at \notin Subtree(input.nodes, input.apex)
  BY DEF done, Within
<1>3. OpenNodes(open) = {}
  <2>1. Len(open) = 0
    BY <1>2
  <2> HIDE <1>2
  <2> QED BY <2>1 DEF OpenNodes
<1>4. Passed(input, at, {}) /\ Says(input, Printed(input, at, {}), out)
  BY <1>3 DEF WInv
<1>5. Printed(input, at, {}) = Tags(input)
  BY <1>1, <1>2, <1>4, EndPrinted
<1> QED BY <1>1, <1>4, <1>5, SaysAll

-----------------------------------------------------------------------------
(* Prefixes looked up.                                                      *)
LEMMA NotXml == NoPrefix # "xml"
BY Zenon DEF NoPrefix

(* Declaration d is the one found for a uri. *)
IsFound(m, i, uri, d) ==
  /\ Declaration(m, d)[2] = uri
  /\ lookup_prefix(m, i, uri) = {Declaration(m, d)[1]} \ {NoPrefix}

LEMMA LookupPrefix ==
  ASSUME NEW inp, IsInput(inp), NEW i, NEW uri, uri # XmlUri,
         NEW e \in Namespaces(inp.nodes, i), Declaration(inp.nodes, e)[2] = uri
  PROVE  \E d \in Namespaces(inp.nodes, i) : IsFound(inp.nodes, i, uri, d)
<1> DEFINE m == inp.nodes
           bound == {d \in Namespaces(m, i) : Declaration(m, d)[2] = uri}
           nearest == {d \in bound : \A f \in bound : f[1] <= d[1]}
           first == {d \in nearest : \A f \in nearest : d[2] <= f[2]}
           J == {d[1] : d \in bound}
<1>1. \A d \in bound : d[1] \in 1 .. Len(m) /\ d[1] \in Nat /\ d[2] \in Nat /\ d = <<d[1], d[2]>>
  BY ScopeTyped, InScope DEF Nodes
<1>2. Len(m) \in Nat
  BY Shape
<1>3. J \in SUBSET (1 .. Len(m)) /\ J # {}
  BY <1>1
<1>4. PICK x \in J : \A y \in J : y <= x
  BY <1>2, <1>3, Largest
<1>5. PICK c \in bound : c[1] = x
  BY <1>4
<1>6. c \in nearest
  BY <1>4, <1>5
<1> DEFINE K == {d[2] : d \in nearest}
<1>7. K \subseteq Nat /\ K # {}
  BY <1>1, <1>6
<1>8. First(K) \in K /\ \A k \in K : First(K) <= k
  BY <1>7, FirstIsLeast
<1>9. PICK b \in nearest : b[2] = First(K)
  BY <1>8
<1>10. b \in first
  BY <1>8, <1>9
<1>11. ASSUME NEW d \in first PROVE d = b
  <2>1. d \in bound /\ b \in bound /\ d[1] <= b[1] /\ b[1] <= d[1] /\ d[2] <= b[2] /\ b[2] <= d[2]
    BY <1>10
  <2>2. d[1] = b[1] /\ d[2] = b[2]
    BY <1>1, <2>1
  <2> QED BY <1>1, <2>1, <2>2
<1>12. first = {b}
  BY <1>10, <1>11
<1>13. lookup_prefix(m, i, uri) = {Declaration(m, d)[1] : d \in first} \ {NoPrefix}
  BY DEF lookup_prefix
<1> HIDE DEF first
<1>14. b \in Namespaces(m, i) /\ Declaration(m, b)[2] = uri
  BY <1>9
<1>15. IsFound(m, i, uri, b)
  BY <1>12, <1>13, <1>14 DEF IsFound
<1> QED BY <1>14, <1>15

(* The prefix an attribute gets is one of its namespace. *)
LEMMA AttrPrefixIn ==
  ASSUME NEW inp, IsInput(inp), NEW i \in Nodes(inp.nodes), NEW a \in inp.nodes[i].attrs
  PROVE  /\ a.prefix = NoPrefix => AttrPrefix(inp.nodes, i, a) = {}
         /\ a.prefix = "xml" => AttrPrefix(inp.nodes, i, a) = {"xml"}
         /\ a.prefix # NoPrefix /\ a.prefix # "xml" =>
              /\ AttrNamespace(inp.nodes, i, a) = lookup_namespace_uri(inp.nodes, i, a.prefix)
              /\ \E d \in Namespaces(inp.nodes, i) :
                   /\ AttrPrefix(inp.nodes, i, a) = {Declaration(inp.nodes, d)[1]} \ {NoPrefix}
                   /\ AttrNamespace(inp.nodes, i, a) = {Declaration(inp.nodes, d)[2]}
<1> DEFINE m == inp.nodes
<1>1. CASE a.prefix = NoPrefix
  <2>1. AttrNamespace(m, i, a) = {}
    BY <1>1, NotXml DEF AttrNamespace
  <2>2. AttrPrefix(m, i, a) = {}
    BY <2>1 DEF AttrPrefix
  <2> QED BY <1>1, <2>2, NotXml
<1>2. CASE a.prefix = "xml"
  <2>1. AttrNamespace(m, i, a) = {XmlUri}
    BY <1>2, NotXml DEF AttrNamespace
  <2>2. AttrPrefix(m, i, a) = {"xml"}
    BY <2>1 DEF AttrPrefix, lookup_prefix
  <2> QED BY <1>2, <2>2, NotXml
<1>3. CASE a.prefix # NoPrefix /\ a.prefix # "xml"
  <2>1. AttrNamespace(m, i, a) = lookup_namespace_uri(m, i, a.prefix)
    BY <1>3 DEF AttrNamespace
  <2>2. AttrNamespace(m, i, a) # {}
    BY <1>3 DEF IsInput
  <2>3. PICK e \in Namespaces(m, i) : Declaration(m, e)[1] = a.prefix
    BY <2>1, <2>2 DEF lookup_namespace_uri
  <2> DEFINE uri == Declaration(m, e)[2]
  <2>4. uri \in lookup_namespace_uri(m, i, a.prefix)
    BY <2>3 DEF lookup_namespace_uri
  <2>5. AttrNamespace(m, i, a) = {uri}
    <3>1. AtMostOne(lookup_namespace_uri(m, i, a.prefix))
      BY Lookups
    <3> HIDE DEF uri
    <3>2. \A u \in lookup_namespace_uri(m, i, a.prefix) : u = uri
      BY <2>4, <3>1 DEF AtMostOne
    <3> QED BY <2>1, <2>4, <3>2
  <2>6. uri # XmlUri
    <3>1. e[1] \in Nodes(m) /\ e[2] \in DOMAIN m[e[1]].decls
      BY ScopeTyped
    <3> QED BY <3>1 DEF IsInput, Declaration
  <2> HIDE DEF uri
  <2>7. AttrPrefix(m, i, a) = lookup_prefix(m, i, uri)
    BY <2>5 DEF AttrPrefix
  <2>8. Declaration(m, e)[2] = uri
    BY DEF uri
  <2>9. PICK d \in Namespaces(m, i) : IsFound(m, i, uri, d)
    BY <2>6, <2>8, LookupPrefix
  <2> QED BY <1>3, <2>1, <2>5, <2>7, <2>9 DEF IsFound
<1> QED BY <1>1, <1>2, <1>3

(* It is the one it was written with, if that can be told. *)
LEMMA AttrPrefixIs ==
  ASSUME NEW inp, IsInput(inp), Unambiguous(inp), NEW i \in Subtree(inp.nodes, inp.apex),
         NEW a \in inp.nodes[i].attrs
  PROVE  AttrPrefix(inp.nodes, i, a) = {a.prefix} \ {NoPrefix}
<1> DEFINE m == inp.nodes
<1>1. i \in Nodes(m)
  BY Shape
<1>2. CASE a.prefix = NoPrefix \/ a.prefix = "xml"
  BY <1>1, <1>2, NotXml, AttrPrefixIn
<1>3. CASE a.prefix # NoPrefix /\ a.prefix # "xml"
  <2>1. PICK d \in Namespaces(m, i) :
          /\ AttrPrefix(m, i, a) = {Declaration(m, d)[1]} \ {NoPrefix}
          /\ AttrNamespace(m, i, a) = {Declaration(m, d)[2]}
    BY <1>1, <1>3, AttrPrefixIn
  <2>2. Declaration(m, d)[1] = a.prefix
    BY <2>1 DEF Unambiguous
  <2> QED BY <2>1, <2>2
<1> QED BY <1>2, <1>3

LEMMA AttributeIs ==
  ASSUME NEW inp, IsInput(inp), Unambiguous(inp), NEW i \in Subtree(inp.nodes, inp.apex),
         NEW a \in inp.nodes[i].attrs
  PROVE  Attribute(inp.nodes, i, a) = <<a.prefix, a.local>>
<1>1. AttrPrefix(inp.nodes, i, a) = {a.prefix} \ {NoPrefix}
  BY AttrPrefixIs
<1>2. (IF AttrPrefix(inp.nodes, i, a) = {} THEN NoPrefix
       ELSE CHOOSE p \in AttrPrefix(inp.nodes, i, a) : TRUE) = a.prefix
  <2>1. CASE a.prefix = NoPrefix
    BY <1>1, <2>1
  <2>2. CASE a.prefix # NoPrefix
    <3>1. AttrPrefix(inp.nodes, i, a) = {a.prefix}
      BY <1>1, <2>2
    <3> QED BY <3>1
  <2> QED BY <2>1, <2>2
<1> QED BY <1>2 DEF Attribute

(* So what is utilized is what is seen, but for xml, which none declares. *)
LEMMA XmlUndeclared ==
  ASSUME NEW inp, IsInput(inp), NEW i
  PROVE  UriAt(inp.nodes, i, "xml") = NoUri
<1>1. ASSUME NEW d \in Namespaces(inp.nodes, i) PROVE Declaration(inp.nodes, d)[1] # "xml"
  <2>1. d[1] \in Nodes(inp.nodes) /\ d[2] \in DOMAIN inp.nodes[d[1]].decls
    BY ScopeTyped
  <2> QED BY <2>1 DEF IsInput, Declaration
<1>2. lookup_namespace_uri(inp.nodes, i, "xml") = {}
  BY <1>1 DEF lookup_namespace_uri
<1> QED BY <1>2 DEF UriAt

LEMMA VisibleIs ==
  ASSUME NEW inp, IsInput(inp), Unambiguous(inp), NEW i \in Subtree(inp.nodes, inp.apex),
         NEW p, p # "xml"
  PROVE  p \in Utilized(inp, i) <=> p \in Visible(inp, i)
<1> DEFINE attrs == inp.nodes[i].attrs
<1>1. (\E a \in attrs : p \in AttrPrefix(inp.nodes, i, a))
        <=> p \in {a.prefix : a \in attrs} \ {NoPrefix, "xml"}
  BY AttrPrefixIs
<1> QED BY <1>1 DEF Utilized, Visible

LEMMA RenderedAtIs ==
  ASSUME NEW inp, IsInput(inp), Unambiguous(inp), NEW i \in Subtree(inp.nodes, inp.apex)
  PROVE  RenderedFor(inp, Above(inp, i), i) = RenderedAt(inp, i)
<1> DEFINE m == inp.nodes
           O == Above(inp, i)
           Seen(p) == {j \in O : p \in Visible(inp, j)}
           Inh(p) == IF Seen(p) = {} THEN NoUri ELSE UriAt(m, Max(Seen(p)), p)
<1>1. RenderedAt(inp, i) =
        {<<p, UriAt(m, i, p)>> : p \in {p \in Visible(inp, i) : UriAt(m, i, p) # Inh(p)}}
  BY DEF RenderedAt, Above
<1>2. ASSUME NEW p, p # "xml" PROVE Inherited(inp, O, p) = Inh(p)
  <2>1. \A j \in O : j \in Subtree(m, inp.apex)
    BY DEF Above
  <2>2. Users(inp, O, p) = Seen(p)
    BY <1>2, <2>1, VisibleIs DEF Users
  <2> QED BY <2>2 DEF Inherited
<1>3. UriAt(m, i, "xml") = NoUri /\ Inherited(inp, O, "xml") = NoUri /\ Inh("xml") = NoUri
  BY XmlUndeclared DEF Inherited
<1> HIDE DEF Inh, O
<1>4. ASSUME NEW p
      PROVE  p \in {p2 \in Utilized(inp, i) : UriAt(m, i, p2) # Inherited(inp, O, p2)}
               <=> p \in {p2 \in Visible(inp, i) : UriAt(m, i, p2) # Inh(p2)}
  <2>1. CASE p = "xml"
    BY <1>3, <2>1
  <2>2. CASE p # "xml"
    BY <1>2, <2>2, VisibleIs
  <2> QED BY <2>1, <2>2
<1>5. {p \in Utilized(inp, i) : UriAt(m, i, p) # Inherited(inp, O, p)}
        = {p \in Visible(inp, i) : UriAt(m, i, p) # Inh(p)}
  BY <1>4
<1> QED BY <1>1, <1>5 DEF RenderedFor, O

-----------------------------------------------------------------------------
(* The definition's start tags. *)
MeantStarts(inp) ==
  [i \in Elements(inp) |->
     Token("start", Name(inp.nodes, i), RenderedAt(inp, i),
           {<<a.prefix, a.local>> : a \in inp.nodes[i].attrs})]

(* The octets of the definition are the tags with these start tags. *)
LEMMA OctetsIs ==
  ASSUME NEW inp, \A i \in Elements(inp) : i \in Nat /\ inp.nodes[i].size \in Nat
  PROVE  Octets(inp) = InOrder(Text(inp, MeantStarts(inp)))
<1> DEFINE doc == inp.nodes
           starts == Written(inp) \X {0}
           ends == {<<i + doc[i].size - 1, doc[i].size>> : i \in Elements(inp)}
           Start(i) == Token("start", Name(doc, i), RenderedAt(inp, i),
                             {<<a.prefix, a.local>> : a \in doc[i].attrs})
           f == [t \in starts \cup ends |->
                   CASE t \in ends -> EndTag(doc, t[1] - t[2] + 1)
                     [] t \in Elements(inp) \X {0} -> Start(t[1])
                     [] OTHER -> Content(doc, t[1])]
           s == MeantStarts(inp)
<1>1. Octets(inp) = InOrder(f)
  BY DEF Octets
<1>2. ends = Ends(inp) /\ starts \cup ends = Tags(inp)
  <2>1. \A i \in Elements(inp) : Finish(inp, i) = <<i + doc[i].size - 1, doc[i].size>>
    BY DEF Finish, After
  <2>2. ends = Ends(inp)
    BY <2>1 DEF Ends
  <2> QED BY <2>2 DEF Tags, Starts
<1>3. ASSUME NEW t \in Elements(inp) \X {0} PROVE s[t[1]] = Start(t[1])
  <2>1. t[1] \in Elements(inp)
    OBVIOUS
  <2> QED BY <2>1 DEF MeantStarts
<1> HIDE DEF ends, starts, Start, s
<1>4. f = Text(inp, s)
  <2>1. ASSUME NEW t \in Tags(inp)
        PROVE  (CASE t \in Ends(inp) -> EndTag(doc, t[1] - t[2] + 1)
                  [] t \in Elements(inp) \X {0} -> Start(t[1])
                  [] OTHER -> Content(doc, t[1]))
               = (CASE t \in Ends(inp) -> EndTag(doc, t[1] - t[2] + 1)
                    [] t \in Elements(inp) \X {0} -> s[t[1]]
                    [] OTHER -> Content(doc, t[1]))
    <3>1. CASE t \in Elements(inp) \X {0}
      BY <1>3, <3>1
    <3>2. CASE t \notin Elements(inp) \X {0}
      BY <3>2
    <3> QED BY <3>1, <3>2
  <2> QED BY <1>2, <2>1 DEF Text
<1> QED BY <1>1, <1>4 DEF s

(* The walk writes the start tags of the definition. *)
LEMMA WalkedIsMeant ==
  ASSUME NEW inp, IsInput(inp), Unambiguous(inp)
  PROVE  InOrder(Walked(inp)) = Octets(inp)
<1>1. ASSUME NEW i \in Elements(inp) PROVE WalkedStarts(inp)[i] = MeantStarts(inp)[i]
  <2>1. i \in Subtree(inp.nodes, inp.apex)
    BY WrittenNodes
  <2>2. {Attribute(inp.nodes, i, a) : a \in inp.nodes[i].attrs}
          = {<<a.prefix, a.local>> : a \in inp.nodes[i].attrs}
    BY <2>1, AttributeIs
  <2>3. RenderedFor(inp, Above(inp, i), i) = RenderedAt(inp, i)
    BY <2>1, RenderedAtIs
  <2> QED BY <2>2, <2>3 DEF WalkedStarts, MeantStarts, StartTag
<1>2. WalkedStarts(inp) = MeantStarts(inp)
  BY <1>1 DEF WalkedStarts, MeantStarts
<1>3. \A i \in Elements(inp) : i \in Nat /\ inp.nodes[i].size \in Nat
  BY WrittenNodes, Shape
<1> QED BY <1>2, <1>3, OctetsIs DEF Walked

-----------------------------------------------------------------------------
(* The walk as a judge. *)
LEMMA DoneStays == done /\ [Next]_vars => UNCHANGED <<input, open, out>> /\ done'
<1> SUFFICES ASSUME done, [Next]_vars PROVE UNCHANGED vars
  BY DEF vars, done, Within
<1>1. ~ Within /\ open = <<>>
  BY DEF done
<1> QED BY <1>1 DEF Next, vars, Skip, WriteContent, OpenElement, CloseElement

(* What is out in the end is what the definition says. *)
OutRight == done /\ Unambiguous(input) => out = Octets(input)

(* The walk gets there. *)
LEMMA WalkRight == WInv => OutRight
<1> SUFFICES ASSUME WInv, done, Unambiguous(input) PROVE out = Octets(input)
  BY DEF OutRight
<1>1. PrefixesStay(input)
  BY DEF Unambiguous
<1>2. IsInput(input) /\ out = InOrder(Walked(input))
  BY <1>1, DoneWalked
<1> QED BY <1>2, WalkedIsMeant

(* A step ends the walk rightly, or is no step of the judge. *)
LEMMA JudgedOnce == OutRight' /\ [Next]_vars => [Abstract!Next]_(Abstract!vars)
<1> SUFFICES ASSUME OutRight', [Next]_vars PROVE [Abstract!Next]_(Abstract!vars)
  OBVIOUS
<1> DEFINE verdict == IF done /\ Unambiguous(input) THEN {out} ELSE {}
<1>1. input' = input
  BY DEF Next, vars, Skip, WriteContent, OpenElement, CloseElement
<1>2. CASE done
  BY <1>1, <1>2, DoneStays DEF Abstract!vars
<1>3. CASE ~ done /\ ~ done'
  <2>1. done = FALSE /\ done' = FALSE
    BY <1>3 DEF done
  <2>2. verdict = {} /\ verdict' = {}
    BY <1>3
  <2> QED BY <1>1, <2>1, <2>2 DEF Abstract!vars
<1>4. CASE ~ done /\ done'
  <2>1. Unambiguous(input') => out' = Octets(input')
    BY <1>4 DEF OutRight
  <2>2. verdict' = Meaning(input)
    BY <1>1, <1>4, <2>1 DEF Meaning
  <2> QED BY <1>1, <1>4, <2>2 DEF Abstract!vars, Abstract!Next, Abstract!Judge
<1> QED BY <1>2, <1>3, <1>4

-----------------------------------------------------------------------------
(* The subtree on its own: every node is as many places further on.         *)
Lift(inp) == inp.apex - 1

Used(inp) == UNION {Visible(inp, i) : i \in Elements(inp)}

Scope(inp) ==
  {d \in Namespaces(inp.nodes, inp.apex) : Declaration(inp.nodes, d)[1] \in Used(inp)}

RootDecls(inp) == InOrder([d \in Scope(inp) |-> Declaration(inp.nodes, d)])

LEMMA LiftFacts ==
  ASSUME NEW inp, IsInput(inp)
  PROVE  /\ Lift(inp) \in Nat /\ inp.apex = Lift(inp) + 1
         /\ \A i \in Subtree(inp.nodes, inp.apex) :
              /\ i \in Nat /\ i \in Nodes(inp.nodes) /\ i - Lift(inp) \in Nat
              /\ i - Lift(inp) >= 1 /\ (i - Lift(inp)) + Lift(inp) = i
<1>1. inp.apex \in Nat /\ inp.apex >= 1
  BY Shape DEF Nodes
<1>2. Lift(inp) \in Nat /\ inp.apex = Lift(inp) + 1
  BY <1>1 DEF Lift
<1>3. \A i \in Subtree(inp.nodes, inp.apex) : i \in Nat /\ i \in Nodes(inp.nodes) /\ inp.apex <= i
  BY Shape
<1> QED BY <1>2, <1>3

(* What the document of the subtree has of it. *)
LEMMA StandaloneIs ==
  ASSUME NEW inp, IsInput(inp)
  PROVE  LET m == inp.nodes
             S == Standalone(inp)
             b == Lift(inp)
             T == Subtree(m, inp.apex)
         IN  /\ Nodes(S.nodes) = 1 .. m[inp.apex].size /\ S.apex = 1
             /\ S.incl = inp.incl
             /\ S.omit = {o - b : o \in inp.omit \cap T}
             /\ \A i \in T :
                  /\ i - b \in Nodes(S.nodes)
                  /\ S.nodes[i - b].kind = m[i].kind /\ S.nodes[i - b].size = m[i].size
                  /\ S.nodes[i - b].prefix = m[i].prefix /\ S.nodes[i - b].local = m[i].local
                  /\ S.nodes[i - b].attrs = m[i].attrs
                  /\ i # inp.apex => S.nodes[i - b].decls = m[i].decls
             /\ \A n \in Nodes(S.nodes) : n + b \in T /\ (n + b) - b = n
             /\ S.nodes[1].decls = RootDecls(inp)
<1> DEFINE m == inp.nodes
           S == Standalone(inp)
           b == Lift(inp)
           T == Subtree(m, inp.apex)
           N == m[inp.apex].size
           From(n) == m[inp.apex + n - 1]
           Alone(n) ==
             [kind |-> From(n).kind, size |-> From(n).size,
              prefix |-> From(n).prefix, local |-> From(n).local,
              decls |-> IF n = Root THEN RootDecls(inp) ELSE From(n).decls,
              attrs |-> From(n).attrs]
           A == [n \in 1 .. N |-> Alone(n)]
<1>1. /\ S.nodes = A /\ S.apex = 1 /\ S.incl = inp.incl
      /\ S.omit = {o - inp.apex + 1 : o \in inp.omit \cap T}
  <2>1. S = [nodes |-> A, apex |-> Root,
             omit |-> {o - inp.apex + 1 : o \in inp.omit \cap T}, incl |-> inp.incl]
    BY DEF Standalone, RootDecls, Scope, Used
  <2> HIDE DEF S, A
  <2> QED BY <2>1 DEF Root
<1>2. N \in Nat \ {0} /\ b \in Nat /\ inp.apex = b + 1 /\ T = b + 1 .. b + N
  <2>1. N \in Nat \ {0} /\ b \in Nat /\ inp.apex = b + 1
    BY Shape, LiftFacts
  <2> HIDE DEF N, b
  <2>2. inp.apex .. inp.apex + N - 1 = b + 1 .. b + N
    BY <2>1
  <2> QED BY <2>1, <2>2 DEF N, Subtree
<1> HIDE DEF S, b, T, N, Alone
<1>3. Len(A) = N /\ Nodes(A) = 1 .. N
  <2>1. N \in Nat
    BY <1>2
  <2>2. Len(A) = N
    BY <2>1
  <2> QED BY <2>2 DEF Nodes
<1>4. ASSUME NEW i \in T
      PROVE  /\ i \in Nat /\ i - b \in 1 .. N /\ A[i - b] = Alone(i - b)
             /\ inp.apex + (i - b) - 1 = i /\ (i - b = 1 <=> i = inp.apex)
  BY <1>2
<1>5. \A i \in T : i - inp.apex + 1 = i - b
  BY <1>2
<1>6. \A n \in 1 .. N : n + b \in T /\ (n + b) - b = n
  BY <1>2
<1> HIDE DEF A
<1>7. ASSUME NEW i \in T
      PROVE  /\ A[i - b].kind = m[i].kind /\ A[i - b].size = m[i].size
             /\ A[i - b].prefix = m[i].prefix /\ A[i - b].local = m[i].local
             /\ A[i - b].attrs = m[i].attrs
             /\ i # inp.apex => A[i - b].decls = m[i].decls
  <2>1. From(i - b) = m[i]
    BY <1>4
  <2>2. i # inp.apex => i - b # Root
    BY <1>4 DEF Root
  <2> DEFINE D == IF i - b = Root THEN RootDecls(inp) ELSE From(i - b).decls
             R == [kind |-> m[i].kind, size |-> m[i].size, prefix |-> m[i].prefix,
                   local |-> m[i].local, decls |-> D, attrs |-> m[i].attrs]
  <2>3. Alone(i - b) = R
    BY <2>1 DEF Alone
  <2>4. i # inp.apex => D = m[i].decls
    BY <2>1, <2>2
  <2>5. A[i - b] = R
    BY <1>4, <2>3
  <2> HIDE DEF D
  <2>6. /\ R.kind = m[i].kind /\ R.size = m[i].size /\ R.prefix = m[i].prefix
        /\ R.local = m[i].local /\ R.attrs = m[i].attrs /\ R.decls = D
    OBVIOUS
  <2> HIDE DEF R
  <2> QED BY <2>4, <2>5, <2>6
<1>8. A[1].decls = RootDecls(inp)
  <2>1. inp.apex \in T /\ inp.apex - b = 1
    BY <1>2
  <2>2. A[1] = Alone(1)
    BY <1>4, <2>1
  <2> QED BY <2>2 DEF Alone, Root
<1>9. S.omit = {o - b : o \in inp.omit \cap T}
  <2>1. {o - inp.apex + 1 : o \in inp.omit \cap T} = {o - b : o \in inp.omit \cap T}
    BY <1>5
  <2> QED BY <1>1, <2>1
<1> QED BY <1>1, <1>3, <1>4, <1>6, <1>7, <1>8, <1>9 DEF S, b, T, N

(* Shape, contents and what is written of it are the same. *)
LEMMA LiftedNodes ==
  ASSUME NEW inp, IsInput(inp), NEW i \in Subtree(inp.nodes, inp.apex)
  PROVE  LET m == inp.nodes
             S == Standalone(inp)
             b == Lift(inp)
         IN  /\ \A j \in Subtree(m, inp.apex) :
                  /\ j - b \in Ancestors(S.nodes, i - b) <=> j \in Ancestors(m, i)
                  /\ j - b = i - b <=> j = i
                  /\ j > i <=> j - b > i - b
             /\ i - b \in Subtree(S.nodes, S.apex)
             /\ i - b \in Written(S) <=> i \in Written(inp)
             /\ i - b \in Elements(S) <=> i \in Elements(inp)
             /\ Visible(S, i - b) = Visible(inp, i)
             /\ Name(S.nodes, i - b) = Name(m, i)
<1> DEFINE m == inp.nodes
           S == Standalone(inp)
           b == Lift(inp)
           T == Subtree(m, inp.apex)
           N == m[inp.apex].size
<1>1. /\ Nodes(S.nodes) = 1 .. N /\ S.apex = 1 /\ S.incl = inp.incl
      /\ S.omit = {o - b : o \in inp.omit \cap T}
      /\ \A n \in Nodes(S.nodes) : n + b \in T /\ (n + b) - b = n
  BY StandaloneIs
<1>2. ASSUME NEW j \in T
      PROVE  /\ j - b \in Nodes(S.nodes)
             /\ S.nodes[j - b].kind = m[j].kind /\ S.nodes[j - b].size = m[j].size
             /\ S.nodes[j - b].prefix = m[j].prefix /\ S.nodes[j - b].local = m[j].local
             /\ S.nodes[j - b].attrs = m[j].attrs
  BY StandaloneIs
<1>3. /\ b \in Nat /\ inp.apex = b + 1
      /\ \A j \in T : j \in Nat /\ j \in Nodes(m) /\ j - b \in Nat /\ m[j].size \in Nat
  BY LiftFacts, Shape
<1>4. inp.apex \in T /\ inp.apex - b = 1
  <2>1. inp.apex \in T
    BY Shape
  <2> HIDE DEF b
  <2> QED BY <1>3, <2>1
<1> HIDE DEF S, b, T, N
<1>5. ASSUME NEW j \in T, NEW k \in T
      PROVE  k - b \in Subtree(S.nodes, j - b) <=> k \in Subtree(m, j)
  <2>1. S.nodes[j - b].size = m[j].size
    BY <1>2
  <2> QED BY <1>3, <2>1 DEF Subtree
<1>6. ASSUME NEW j \in T, NEW k \in T
      PROVE  j - b \in Ancestors(S.nodes, k - b) <=> j \in Ancestors(m, k)
  BY <1>2, <1>3, <1>5 DEF Ancestors
<1>7. ASSUME NEW j \in T PROVE j - b \in S.omit <=> j \in inp.omit
  <2>1. ASSUME NEW o \in T, o - b = j - b PROVE o = j
    BY <1>3, <2>1
  <2> QED BY <1>1, <2>1
<1>8. ASSUME NEW k \in T PROVE k - b \in Subtree(S.nodes, S.apex)
  BY <1>1, <1>4, <1>5 DEF T
<1>9. ASSUME NEW n PROVE n \in Subtree(S.nodes, S.apex) <=> n \in Nodes(S.nodes)
  <2>1. S.nodes[1].size = N
    BY <1>2, <1>4 DEF N
  <2>2. N \in Nat
    BY <1>3, <1>4 DEF N
  <2> QED BY <1>1, <2>1, <2>2 DEF Subtree
<1>10. ASSUME NEW k \in T PROVE k - b \in Written(S) <=> k \in Written(inp)
  <2> DEFINE X == Ancestors(S.nodes, k - b) \cap Subtree(S.nodes, S.apex) \cap S.omit
             Y == Ancestors(m, k) \cap T \cap inp.omit
  <2>1. ASSUME NEW n \in X PROVE Y # {}
    <3>1. n \in Nodes(S.nodes)
      BY <1>9
    <3>2. n + b \in T /\ (n + b) - b = n
      BY <1>1, <3>1
    <3>3. n + b \in Y
      BY <1>6, <1>7, <3>2
    <3> QED BY <3>3
  <2>2. ASSUME NEW j \in Y PROVE X # {}
    <3>1. j - b \in X
      BY <1>6, <1>7, <1>8
    <3> QED BY <3>1
  <2>3. X = {} <=> Y = {}
    BY <2>1, <2>2
  <2>4. k - b \in Written(S) <=>
          k - b \in Subtree(S.nodes, S.apex) /\ S.nodes[k - b].kind # "comment" /\ X = {}
    BY DEF Written
  <2>5. k \in Written(inp) <=> k \in T /\ m[k].kind # "comment" /\ Y = {}
    BY DEF Written, T
  <2> HIDE DEF X, Y
  <2> QED BY <1>2, <1>8, <2>3, <2>4, <2>5
<1>11. i \in T
  BY DEF T
<1>12. i - b \in Elements(S) <=> i \in Elements(inp)
  BY <1>2, <1>10, <1>11 DEF Elements
<1>13. Visible(S, i - b) = Visible(inp, i) /\ Name(S.nodes, i - b) = Name(m, i)
  BY <1>1, <1>2, <1>11 DEF Visible, Name
<1>14. \A j \in T : (j - b = i - b <=> j = i) /\ (j > i <=> j - b > i - b)
  BY <1>3, <1>11
<1> QED BY <1>6, <1>8, <1>10, <1>11, <1>12, <1>13, <1>14 DEF S, b, T

-----------------------------------------------------------------------------
(* Its root declares what is in scope of what is used. *)
LEMMA ScopePairs ==
  ASSUME NEW inp, IsInput(inp), NEW i
  PROVE  IsPairs(Namespaces(inp.nodes, i))
<1> DEFINE m == inp.nodes
           A == Ancestors(m, i)
           D == UNION {{j} \X DOMAIN m[j].decls : j \in A}
<1>1. A \subseteq Nodes(m) /\ IsFiniteSet(Nodes(m))
  <2>1. Len(m) \in Nat
    BY Shape
  <2>2. IsFiniteSet(1 .. Len(m))
    BY <2>1, FS_Interval
  <2> QED BY <2>2 DEF Nodes, Ancestors
<1>2. IsFiniteSet(A)
  BY <1>1, FS_Subset
<1> HIDE DEF A
<1>3. IsFiniteSet({{j} \X DOMAIN m[j].decls : j \in A})
  <2> DEFINE F == [j \in A |-> {j} \X DOMAIN m[j].decls]
  <2>1. {F[j] : j \in A} = {{j} \X DOMAIN m[j].decls : j \in A}
    OBVIOUS
  <2>2. F \in [A -> {F[j] : j \in A}]
    OBVIOUS
  <2>3. F \in Surjection(A, {F[j] : j \in A})
    <3> HIDE DEF F
    <3> QED BY <2>2 DEF Surjection
  <2> HIDE DEF F
  <2>4. IsFiniteSet({F[j] : j \in A})
    BY <1>2, <2>3, FS_Surjection
  <2> QED BY <2>1, <2>4
<1>4. ASSUME NEW j \in A PROVE IsFiniteSet({j} \X DOMAIN m[j].decls)
  <2>1. DOMAIN m[j].decls = 1 .. Len(m[j].decls) /\ Len(m[j].decls) \in Nat
    BY <1>1 DEF IsInput
  <2>2. IsFiniteSet(DOMAIN m[j].decls)
    BY <2>1, FS_Interval
  <2> QED BY <2>2, FS_Singleton, FS_Product
<1>5. IsFiniteSet(D)
  BY <1>3, <1>4, FS_UNION
<1>6. Namespaces(m, i) \subseteq D
  BY DEF Namespaces, A
<1>7. IsFiniteSet(Namespaces(m, i))
  BY <1>5, <1>6, FS_Subset
<1>8. Namespaces(m, i) \subseteq Nat \X Nat
  BY ScopeTyped, InScope
<1> QED BY <1>7, <1>8 DEF IsPairs

LEMMA RootDeclsAre ==
  ASSUME NEW inp, IsInput(inp)
  PROVE  /\ \A d \in Scope(inp) : \E k \in DOMAIN RootDecls(inp) :
              RootDecls(inp)[k] = Declaration(inp.nodes, d)
         /\ \A k \in DOMAIN RootDecls(inp) : \E d \in Scope(inp) :
              RootDecls(inp)[k] = Declaration(inp.nodes, d)
<1> DEFINE f == [d \in Scope(inp) |-> Declaration(inp.nodes, d)]
           A == Scope(inp)
<1>1. DOMAIN f = A /\ \A d \in A : f[d] = Declaration(inp.nodes, d)
  OBVIOUS
<1>2. IsPairs(A)
  <2>1. IsPairs(Namespaces(inp.nodes, inp.apex)) /\ A \subseteq Namespaces(inp.nodes, inp.apex)
    BY ScopePairs DEF Scope
  <2> HIDE DEF A
  <2> QED BY <2>1, FS_Subset DEF IsPairs
<1>3. RootDecls(inp) = InOrder(f)
  BY DEF RootDecls
<1> HIDE DEF f, A
<1>4. /\ DOMAIN InOrder(f) = 1 .. Cardinality(A)
      /\ \A t \in A : InOrder(f)[Position(A, t)] = f[t]
  BY <1>1, <1>2, InOrderIs
<1>5. /\ \A t \in A : Position(A, t) \in 1 .. Cardinality(A)
      /\ \A n \in 1 .. Cardinality(A) : \E t \in A : Position(A, t) = n
  BY <1>2, Ranked
<1>6. \A d \in A : \E k \in DOMAIN RootDecls(inp) : RootDecls(inp)[k] = Declaration(inp.nodes, d)
  BY <1>1, <1>3, <1>4, <1>5
<1>7. ASSUME NEW k \in DOMAIN RootDecls(inp)
      PROVE  \E d \in A : RootDecls(inp)[k] = Declaration(inp.nodes, d)
  <2>1. PICK t \in A : Position(A, t) = k
    BY <1>3, <1>4, <1>5, <1>7
  <2> QED BY <1>1, <1>3, <1>4, <2>1
<1> QED BY <1>6, <1>7 DEF A

(* So every prefix used has its namespace there.                            *)
LEMMA LiftedUri ==
  ASSUME NEW inp, IsInput(inp), NEW i \in Subtree(inp.nodes, inp.apex),
         NEW p \in Used(inp)
  PROVE  UriAt(Standalone(inp).nodes, i - Lift(inp), p) = UriAt(inp.nodes, i, p)
<1> DEFINE m == inp.nodes
           s == Standalone(inp).nodes
           b == Lift(inp)
           T == Subtree(m, inp.apex)
           r == inp.apex
           n == i - b
<1>1. /\ \A k \in Nodes(s) : k + b \in T /\ (k + b) - b = k
      /\ \A j \in T : j # r => s[j - b].decls = m[j].decls
      /\ s[1].decls = RootDecls(inp)
  BY StandaloneIs
<1>2. \A j \in T : j - b \in Ancestors(s, n) <=> j \in Ancestors(m, i)
  BY LiftedNodes
<1>3. /\ b \in Nat /\ r = b + 1 /\ r \in Nat /\ r \in T /\ r - b = 1
      /\ \A j \in T : j \in Nat /\ j \in Nodes(m) /\ j - b \in Nat /\ r <= j
  <2>1. b \in Nat /\ r = b + 1 /\ \A j \in T : j \in Nat /\ j \in Nodes(m) /\ j - b \in Nat
    BY LiftFacts
  <2>2. r \in T /\ \A j \in T : r <= j
    BY Shape
  <2> HIDE DEF b, T
  <2> QED BY <2>1, <2>2
<1>4. i \in T
  OBVIOUS
<1>5. ASSUME NEW j \in Ancestors(m, i)
      PROVE  /\ j \in Nat /\ j \in Nodes(m)
             /\ j > r => j \in T
             /\ j <= r => j \in Ancestors(m, r)
  <2>1. j \in Nodes(m) /\ i \in Subtree(m, j)
    BY DEF Ancestors
  <2>2. /\ j \in Nat /\ i \in Nat /\ i < After(inp, j) /\ After(inp, j) \in Nat /\ j <= i
        /\ i < After(inp, r) /\ After(inp, r) \in Nat
    BY <1>3, <1>4, <2>1, Shape
  <2>3. CASE j > r
    <3>1. r <= j /\ j < After(inp, r)
      BY <1>3, <2>2, <2>3
    <3>2. j \in T
      BY <1>3, <2>1, <3>1, Shape
    <3> QED BY <1>3, <2>1, <2>2, <2>3, <3>2
  <2>4. CASE j <= r
    <3>1. r < After(inp, j)
      BY <1>3, <1>4, <2>2
    <3>2. r \in Subtree(m, j)
      BY <1>3, <2>1, <2>4, <3>1, Shape
    <3> QED BY <1>3, <2>1, <2>2, <2>4, <3>2 DEF Ancestors
  <2> QED BY <1>3, <2>2, <2>3, <2>4
<1>6. ASSUME NEW j \in Ancestors(m, r) PROVE j \in Ancestors(m, i) /\ j <= r
  <2>1. j \in Nodes(m) /\ r \in Subtree(m, j)
    BY DEF Ancestors
  <2>2. i \in Subtree(m, j) /\ j <= r
    BY <1>4, <2>1, Shape DEF IsInput
  <2> QED BY <2>1, <2>2 DEF Ancestors
<1>7. ASSUME NEW k \in Ancestors(s, n)
      PROVE  /\ k \in Nat /\ k >= 1 /\ k + b \in Ancestors(m, i) /\ k + b \in T
             /\ (k + b) - b = k
             /\ k > 1 => k + b > r /\ s[k].decls = m[k + b].decls
  <2>1. k \in Nodes(s)
    BY DEF Ancestors
  <2>2. k + b \in T /\ (k + b) - b = k /\ k \in Nat /\ k >= 1
    BY <1>1, <2>1 DEF Nodes
  <2>3. k + b \in Ancestors(m, i)
    BY <1>2, <2>2
  <2> HIDE DEF b, s, T
  <2>4. k > 1 => k + b > r /\ k + b # r
    BY <1>3, <2>2
  <2> QED BY <1>1, <2>2, <2>3, <2>4
<1>8. ASSUME NEW j \in Ancestors(m, i), j > r
      PROVE  j - b \in Ancestors(s, n) /\ s[j - b].decls = m[j].decls /\ j - b > 1
             /\ j - b \in Nat
  <2>1. j \in T /\ j # r /\ j \in Nat
    BY <1>3, <1>5, <1>8
  <2>2. j - b > 1
    BY <1>3, <1>8, <2>1
  <2> QED BY <1>1, <1>2, <1>3, <2>1, <2>2
<1> HIDE DEF s, b, T, r, n
<1>9. ASSUME NEW d \in Namespaces(m, i), Declaration(m, d)[1] = p
      PROVE  \E e \in Namespaces(s, n) : Declaration(s, e) = Declaration(m, d)
  <2>1. /\ d = <<d[1], d[2]>> /\ d[1] \in Ancestors(m, i) /\ d[2] \in DOMAIN m[d[1]].decls
        /\ \A j \in Ancestors(m, i) : j > d[1] => ~ Declares(m, j, p)
    BY <1>9, InScope
  <2>2. d[1] \in Nat /\ r \in Nat
    BY <1>3, <1>5, <2>1
  <2>3. CASE d[1] > r
    <3> DEFINE e == <<d[1] - b, d[2]>>
    <3>1. /\ d[1] - b \in Ancestors(s, n) /\ s[d[1] - b].decls = m[d[1]].decls
          /\ d[1] - b > 1 /\ d[1] - b \in Nat
      BY <1>8, <2>1, <2>3
    <3>2. Declaration(s, e) = Declaration(m, d)
      BY <3>1 DEF Declaration
    <3>3. ASSUME NEW k \in Ancestors(s, n), k > d[1] - b PROVE ~ Declares(s, k, p)
      <4>1. k > 1 /\ k + b > d[1]
        BY <1>3, <1>7, <2>2, <3>1, <3>3
      <4>2. k + b \in Ancestors(m, i) /\ s[k].decls = m[k + b].decls
        BY <1>7, <4>1
      <4>3. ~ Declares(m, k + b, p)
        BY <2>1, <4>1, <4>2
      <4> QED BY <4>2, <4>3 DEF Declares
    <3>4. e \in Namespaces(s, n)
      <4>1. e[1] = d[1] - b /\ e[2] = d[2] /\ e = <<e[1], e[2]>>
        OBVIOUS
      <4> HIDE DEF e
      <4> QED BY <1>9, <2>1, <3>1, <3>2, <3>3, <4>1, InScope
    <3> QED BY <3>2, <3>4
  <2>4. CASE d[1] <= r
    <3>1. d \in Namespaces(m, r)
      <4>1. d[1] \in Ancestors(m, r)
        BY <1>5, <2>1, <2>4
      <4>2. \A j \in Ancestors(m, r) : j > d[1] => ~ Declares(m, j, Declaration(m, d)[1])
        BY <1>6, <1>9, <2>1
      <4> QED BY <2>1, <4>1, <4>2, InScope
    <3>2. d \in Scope(inp)
      BY <1>9, <3>1 DEF Scope, r
    <3>3. PICK k \in DOMAIN RootDecls(inp) : RootDecls(inp)[k] = Declaration(m, d)
      BY <3>2, RootDeclsAre
    <3> DEFINE e == <<1, k>>
    <3>4. e[1] = 1 /\ e[2] = k /\ e = <<e[1], e[2]>>
      OBVIOUS
    <3> HIDE DEF e
    <3>5. Declaration(s, e) = Declaration(m, d) /\ e[2] \in DOMAIN s[e[1]].decls
      BY <1>1, <3>3, <3>4 DEF Declaration
    <3>6. e[1] \in Ancestors(s, n)
      <4>1. i \in Subtree(m, r) /\ r \in Nodes(m)
        BY <1>3, <1>4 DEF T, r
      <4>2. r \in Ancestors(m, i)
        BY <4>1 DEF Ancestors
      <4> QED BY <1>2, <1>3, <3>4, <4>2
    <3>7. ASSUME NEW k2 \in Ancestors(s, n), k2 > e[1] PROVE ~ Declares(s, k2, p)
      <4>1. k2 > 1
        BY <3>4, <3>7
      <4>2. k2 + b > r /\ k2 + b \in Ancestors(m, i) /\ s[k2].decls = m[k2 + b].decls
        BY <1>7, <4>1
      <4>3. k2 + b > d[1]
        BY <1>5, <2>2, <2>4, <4>2
      <4>4. ~ Declares(m, k2 + b, p)
        BY <2>1, <4>2, <4>3
      <4> QED BY <4>2, <4>4 DEF Declares
    <3>8. e \in Namespaces(s, n)
      BY <1>9, <3>4, <3>5, <3>6, <3>7, InScope
    <3> QED BY <3>5, <3>8
  <2> QED BY <2>2, <2>3, <2>4
<1>10. ASSUME NEW e \in Namespaces(s, n), Declaration(s, e)[1] = p
       PROVE  \E d \in Namespaces(m, i) : Declaration(m, d) = Declaration(s, e)
  <2>1. /\ e = <<e[1], e[2]>> /\ e[1] \in Ancestors(s, n) /\ e[2] \in DOMAIN s[e[1]].decls
        /\ \A k \in Ancestors(s, n) : k > e[1] => ~ Declares(s, k, p)
    BY <1>10, InScope
  <2>2. e[1] \in Nat /\ e[1] >= 1 /\ e[1] + b \in Ancestors(m, i)
    BY <1>7, <2>1
  <2>3. CASE e[1] > 1
    <3> DEFINE d == <<e[1] + b, e[2]>>
    <3>1. d[1] = e[1] + b /\ d[2] = e[2] /\ d = <<d[1], d[2]>>
      OBVIOUS
    <3> HIDE DEF d
    <3>2. s[e[1]].decls = m[d[1]].decls /\ d[1] > r /\ d[1] \in Ancestors(m, i)
      BY <1>7, <2>1, <2>3, <3>1
    <3>3. Declaration(m, d) = Declaration(s, e) /\ d[2] \in DOMAIN m[d[1]].decls
      BY <2>1, <3>1, <3>2 DEF Declaration
    <3>4. ASSUME NEW j \in Ancestors(m, i), j > d[1] PROVE ~ Declares(m, j, p)
      <4>1. j > r /\ j \in Nat
        BY <1>3, <1>5, <2>2, <3>1, <3>2, <3>4
      <4>2. j - b \in Ancestors(s, n) /\ s[j - b].decls = m[j].decls
        BY <1>8, <4>1
      <4>3. j - b > e[1]
        BY <1>3, <2>2, <3>1, <3>4, <4>1
      <4>4. ~ Declares(s, j - b, p)
        BY <2>1, <4>2, <4>3
      <4> QED BY <4>2, <4>4 DEF Declares
    <3>5. d \in Namespaces(m, i)
      BY <1>10, <3>1, <3>2, <3>3, <3>4, InScope
    <3> QED BY <3>3, <3>5
  <2>4. CASE e[1] = 1
    <3>1. PICK d \in Scope(inp) : RootDecls(inp)[e[2]] = Declaration(m, d)
      BY <1>1, <2>1, <2>4, RootDeclsAre
    <3>2. Declaration(m, d) = Declaration(s, e)
      BY <1>1, <2>4, <3>1 DEF Declaration
    <3>3. d \in Namespaces(m, r)
      BY DEF Scope, r
    <3>4. /\ d = <<d[1], d[2]>> /\ d[1] \in Ancestors(m, r) /\ d[2] \in DOMAIN m[d[1]].decls
          /\ \A j \in Ancestors(m, r) : j > d[1] => ~ Declares(m, j, p)
      BY <1>10, <3>2, <3>3, InScope
    <3>5. ASSUME NEW j \in Ancestors(m, i), j > d[1] PROVE ~ Declares(m, j, p)
      <4>1. CASE j > r
        <5>1. j - b \in Ancestors(s, n) /\ s[j - b].decls = m[j].decls /\ j - b > 1
          BY <1>8, <4>1
        <5>2. ~ Declares(s, j - b, p)
          BY <2>1, <2>4, <5>1
        <5> QED BY <5>1, <5>2 DEF Declares
      <4>2. CASE j <= r
        BY <1>5, <3>4, <3>5, <4>2
      <4>3. j \in Nat /\ r \in Nat
        BY <1>3, <1>5
      <4> QED BY <4>1, <4>2, <4>3
    <3>6. d[1] \in Ancestors(m, i)
      BY <1>6, <3>4
    <3>7. d \in Namespaces(m, i)
      BY <1>10, <3>2, <3>4, <3>5, <3>6, InScope
    <3> QED BY <3>2, <3>7
  <2> QED BY <2>2, <2>3, <2>4
<1>11. lookup_namespace_uri(s, n, p) = lookup_namespace_uri(m, i, p)
  <2>1. ASSUME NEW u \in lookup_namespace_uri(m, i, p) PROVE u \in lookup_namespace_uri(s, n, p)
    <3>1. PICK d \in Namespaces(m, i) : Declaration(m, d)[1] = p /\ Declaration(m, d)[2] = u
      BY DEF lookup_namespace_uri
    <3>2. PICK e \in Namespaces(s, n) : Declaration(s, e) = Declaration(m, d)
      BY <1>9, <3>1
    <3> QED BY <3>1, <3>2 DEF lookup_namespace_uri
  <2>2. ASSUME NEW u \in lookup_namespace_uri(s, n, p) PROVE u \in lookup_namespace_uri(m, i, p)
    <3>1. PICK e \in Namespaces(s, n) : Declaration(s, e)[1] = p /\ Declaration(s, e)[2] = u
      BY DEF lookup_namespace_uri
    <3>2. PICK d \in Namespaces(m, i) : Declaration(m, d) = Declaration(s, e)
      BY <1>10, <3>1
    <3> QED BY <3>1, <3>2 DEF lookup_namespace_uri
  <2> QED BY <2>1, <2>2
<1>12. UriAt(s, n, p) = UriAt(m, i, p)
  BY <1>11 DEF UriAt
<1> QED BY <1>12 DEF s, n, b

(* Its start tags declare the same. *)
LEMMA LiftedRendered ==
  ASSUME NEW inp, IsInput(inp), NEW i \in Elements(inp)
  PROVE  RenderedAt(Standalone(inp), i - Lift(inp)) = RenderedAt(inp, i)
<1> DEFINE m == inp.nodes
           S == Standalone(inp)
           b == Lift(inp)
           T == Subtree(m, inp.apex)
           O == Above(inp, i)
           Q == (Ancestors(S.nodes, i - b) \ {i - b}) \cap Subtree(S.nodes, S.apex)
           U(p) == {j \in O : p \in Visible(inp, j)}
           V(p) == {j \in Q : p \in Visible(S, j)}
           Inh(p) == IF U(p) = {} THEN NoUri ELSE UriAt(m, Max(U(p)), p)
           Jnh(p) == IF V(p) = {} THEN NoUri ELSE UriAt(S.nodes, Max(V(p)), p)
<1>1. RenderedAt(inp, i) =
        {<<p, UriAt(m, i, p)>> : p \in {p \in Visible(inp, i) : UriAt(m, i, p) # Inh(p)}}
  BY DEF RenderedAt, Above
<1>2. RenderedAt(S, i - b) =
        {<<p, UriAt(S.nodes, i - b, p)>> :
           p \in {p \in Visible(S, i - b) : UriAt(S.nodes, i - b, p) # Jnh(p)}}
  BY DEF RenderedAt
<1>3. i \in T /\ Visible(inp, i) \subseteq Used(inp) /\ Visible(S, i - b) = Visible(inp, i)
  BY WrittenNodes, LiftedNodes DEF Used
<1>4. /\ b \in Nat
      /\ \A j \in T : j \in Nat /\ j - b \in Nat /\ j - b >= 1
      /\ T \subseteq 1 .. Len(m) /\ Len(m) \in Nat
  BY LiftFacts, Shape DEF Nodes
<1>5. \A j \in T : j - b \in Q <=> j \in O
  <2> SUFFICES ASSUME NEW j \in T PROVE j - b \in Q <=> j \in O
    OBVIOUS
  <2>1. j - b \in Subtree(S.nodes, S.apex)
    BY LiftedNodes
  <2>2. /\ j - b \in Ancestors(S.nodes, i - b) <=> j \in Ancestors(m, i)
        /\ j - b = i - b <=> j = i
    BY <1>3, LiftedNodes
  <2>3. j \in O <=> j \in Ancestors(m, i) /\ j # i
    BY DEF Above
  <2> HIDE DEF O, T
  <2> QED BY <2>1, <2>2, <2>3
<1>6. \A n \in Q : n + b \in T /\ (n + b) - b = n
  BY StandaloneIs DEF Ancestors
<1>7. \A j \in T : Visible(S, j - b) = Visible(inp, j)
  BY LiftedNodes
<1>8. O \subseteq T
  BY DEF Above
<1>9. ASSUME NEW p \in Used(inp), NEW j \in T
      PROVE  UriAt(S.nodes, j - b, p) = UriAt(m, j, p)
  BY LiftedUri
<1> HIDE DEF S, b, T, O, Q, m
<1>10. ASSUME NEW p \in Used(inp) PROVE Inh(p) = Jnh(p)
  <2>1. \A j \in T : j - b \in V(p) <=> j \in U(p)
    BY <1>5, <1>7
  <2>2. \A n \in V(p) : n + b \in U(p) /\ (n + b) - b = n
    <3> SUFFICES ASSUME NEW n \in V(p) PROVE n + b \in U(p) /\ (n + b) - b = n
      OBVIOUS
    <3>1. n + b \in T /\ (n + b) - b = n
      BY <1>6
    <3> QED BY <2>1, <3>1
  <2>3. U(p) \subseteq T
    BY <1>8
  <2> HIDE DEF U, V
  <2>4. CASE U(p) = {}
    <3>1. V(p) = {}
      BY <2>2, <2>4
    <3> QED BY <2>4, <3>1
  <2>5. CASE U(p) # {}
    <3>1. U(p) \in SUBSET (1 .. Len(m)) /\ Len(m) \in Nat
      BY <1>4, <2>3
    <3>2. PICK x \in U(p) : \A y \in U(p) : y <= x
      BY <2>5, <3>1, Largest
    <3>3. x \in T /\ x \in Nat /\ x - b \in V(p) /\ x - b \in Nat
      BY <1>4, <2>1, <2>3
    <3>4. Max(U(p)) = x
      <4>1. U(p) \in SUBSET Nat
        BY <1>4, <2>3
      <4> QED BY <3>2, <4>1, MaxIs
    <3>5. ASSUME NEW n \in V(p) PROVE n \in Nat /\ n <= x - b
      <4>1. n + b \in U(p) /\ (n + b) - b = n
        BY <2>2
      <4>2. n + b \in T /\ n + b <= x
        BY <2>3, <3>2, <4>1
      <4> DEFINE k == n + b
      <4>3. k \in Nat /\ k - b \in Nat /\ k - b = n /\ k <= x
        BY <1>4, <4>1, <4>2
      <4> HIDE DEF k
      <4> QED BY <1>4, <3>3, <4>3
    <3>6. Max(V(p)) = x - b
      <4>1. V(p) \in SUBSET Nat
        BY <3>5
      <4> QED BY <3>3, <3>5, <4>1, MaxIs
    <3>7. V(p) # {}
      BY <3>3
    <3>8. UriAt(S.nodes, x - b, p) = UriAt(m, x, p)
      BY <1>9, <3>3
    <3> QED BY <2>5, <3>4, <3>6, <3>7, <3>8
  <2> QED BY <2>4, <2>5
<1> HIDE DEF Inh, Jnh
<1>11. ASSUME NEW p \in Visible(inp, i)
       PROVE  UriAt(S.nodes, i - b, p) = UriAt(m, i, p) /\ Inh(p) = Jnh(p)
  BY <1>3, <1>9, <1>10
<1>12. {p \in Visible(S, i - b) : UriAt(S.nodes, i - b, p) # Jnh(p)}
         = {p \in Visible(inp, i) : UriAt(m, i, p) # Inh(p)}
  BY <1>3, <1>11
<1>13. RenderedAt(S, i - b) = RenderedAt(inp, i)
  <2> DEFINE R == {p \in Visible(inp, i) : UriAt(m, i, p) # Inh(p)}
  <2>1. \A p \in R : UriAt(S.nodes, i - b, p) = UriAt(m, i, p)
    BY <1>11
  <2>2. RenderedAt(S, i - b) = {<<p, UriAt(S.nodes, i - b, p)>> : p \in R}
    BY <1>2, <1>12
  <2>3. RenderedAt(inp, i) = {<<p, UriAt(m, i, p)>> : p \in R}
    BY <1>1
  <2> HIDE DEF R
  <2> QED BY <2>1, <2>2, <2>3
<1> QED BY <1>13 DEF S, b

-----------------------------------------------------------------------------
(* The tags are the same, as many places further on. *)
LEMMA LiftedTags ==
  ASSUME NEW inp, IsInput(inp)
  PROVE  LET S == Standalone(inp)
             b == Lift(inp)
         IN  /\ \A i \in Written(inp) : i - b \in Written(S) /\ i - b \in Nat /\ i \in Nat
             /\ \A i \in Elements(inp) :
                  /\ i - b \in Elements(S)
                  /\ Finish(S, i - b) = <<Finish(inp, i)[1] - b, Finish(inp, i)[2]>>
             /\ \A n \in Written(S) : n + b \in Written(inp) /\ (n + b) - b = n
             /\ \A n \in Elements(S) :
                  /\ n + b \in Elements(inp) /\ (n + b) - b = n
                  /\ n \in Nat /\ S.nodes[n].size \in Nat \ {0}
<1> DEFINE m == inp.nodes
           S == Standalone(inp)
           b == Lift(inp)
           T == Subtree(m, inp.apex)
<1>1. /\ b \in Nat
      /\ \A i \in T : /\ i \in Nat /\ i - b \in Nat /\ m[i].size \in Nat \ {0}
                      /\ S.nodes[i - b].size = m[i].size
                      /\ i - b \in Written(S) <=> i \in Written(inp)
                      /\ i - b \in Elements(S) <=> i \in Elements(inp)
  BY LiftFacts, Shape, StandaloneIs, LiftedNodes
<1>2. \A i \in Written(inp) : i \in T
  BY WrittenNodes
<1>3. \A i \in Elements(inp) : i \in Written(inp)
  BY WrittenNodes
<1>4. ASSUME NEW n \in Written(S) PROVE n + b \in T /\ (n + b) - b = n
  <2>1. Nodes(S.nodes) = 1 .. m[inp.apex].size /\ S.apex = 1 /\ S.nodes[1].size = m[inp.apex].size
        /\ \A k \in Nodes(S.nodes) : k + b \in T /\ (k + b) - b = k
    <3>1. inp.apex \in T /\ inp.apex - b = 1
      <4>1. inp.apex \in T
        BY Shape
      <4>2. b \in Nat /\ inp.apex = b + 1
        BY LiftFacts
      <4> HIDE DEF b
      <4> QED BY <4>1, <4>2
    <3>2. S.nodes[inp.apex - b].size = m[inp.apex].size
      BY <3>1, StandaloneIs
    <3>3. S.nodes[1].size = m[inp.apex].size
      <4> HIDE DEF b, S
      <4> QED BY <3>1, <3>2
    <3> QED BY <3>3, StandaloneIs
  <2>2. n \in Subtree(S.nodes, S.apex)
    BY DEF Written
  <2>3. m[inp.apex].size \in Nat
    BY Shape
  <2> HIDE DEF S, b, T, m
  <2>4. n \in 1 .. m[inp.apex].size
    BY <2>1, <2>2, <2>3 DEF Subtree
  <2> QED BY <2>1, <2>4
<1>5. \A n \in Elements(S) : n \in Written(S)
  BY DEF Elements
<1> HIDE DEF S, b, T, m
<1>6. ASSUME NEW i \in Elements(inp)
      PROVE  Finish(S, i - b) = <<Finish(inp, i)[1] - b, Finish(inp, i)[2]>>
  <2>1. i \in Nat /\ m[i].size \in Nat /\ S.nodes[i - b].size = m[i].size /\ b \in Nat
    BY <1>1, <1>2, <1>3
  <2> QED BY <2>1 DEF Finish, After, m
<1>7. \A n \in Written(S) : n + b \in Written(inp)
  BY <1>1, <1>4
<1>8. ASSUME NEW n \in Elements(S)
      PROVE  n + b \in Elements(inp) /\ n \in Nat /\ S.nodes[n].size \in Nat \ {0}
  <2>1. n + b \in T /\ (n + b) - b = n
    BY <1>4, <1>5
  <2> DEFINE i == n + b
  <2>2. i \in T /\ i - b = n
    BY <2>1
  <2> HIDE DEF i
  <2>3. i \in Elements(inp) /\ n \in Nat /\ S.nodes[n].size \in Nat \ {0}
    BY <1>1, <2>2
  <2> QED BY <2>3 DEF i
<1> QED BY <1>1, <1>2, <1>3, <1>4, <1>5, <1>6, <1>7, <1>8 DEF S, b

(* So its octets are the same. *)
LEMMA StandaloneOctets ==
  ASSUME NEW inp, IsInput(inp)
  PROVE  Octets(Standalone(inp)) = Octets(inp)
<1> DEFINE m == inp.nodes
           S == Standalone(inp)
           b == Lift(inp)
           f == Text(inp, MeantStarts(inp))
           g == Text(S, MeantStarts(S))
           A == Tags(inp)
           B == Tags(S)
           h == [t \in A |-> <<t[1] - b, t[2]>>]
<1>1. Octets(inp) = InOrder(f)
  <2>1. \A i \in Elements(inp) : i \in Nat /\ inp.nodes[i].size \in Nat
    BY WrittenNodes, Shape
  <2> QED BY <2>1, OctetsIs
<1>2. Octets(S) = InOrder(g)
  <2>1. \A n \in Elements(S) : n \in Nat /\ S.nodes[n].size \in Nat
    BY LiftedTags
  <2> QED BY <2>1, OctetsIs
<1>3. b \in Nat
  BY LiftFacts
<1>4. DOMAIN f = A /\ IsPairs(A) /\ DOMAIN g = B
  BY TextIs, TagFacts DEF Text
<1>5. ASSUME NEW i \in Written(inp)
      PROVE  /\ Begin(i) \in A /\ h[Begin(i)] = Begin(i - b) /\ Begin(i - b) \in B
             /\ Begin(i - b) \notin Ends(S)
  <2>1. Begin(i) \in A /\ Begin(i)[1] = i /\ Begin(i)[2] = 0
    BY TagFacts DEF Begin
  <2>2. h[Begin(i)] = Begin(i - b)
    BY <2>1 DEF Begin
  <2>3. i - b \in Written(S)
    BY LiftedTags
  <2>4. Begin(i - b) \in B
    BY <2>3 DEF Tags, Starts, Begin
  <2>5. ASSUME NEW n \in Elements(S) PROVE Begin(i - b) # Finish(S, n)
    <3>1. S.nodes[n].size # 0
      BY LiftedTags
    <3> QED BY <3>1 DEF Begin, Finish
  <2>6. Begin(i - b) \notin Ends(S)
    BY <2>5 DEF Ends
  <2> QED BY <2>1, <2>2, <2>4, <2>6
<1>6. ASSUME NEW i \in Elements(inp)
      PROVE  /\ Finish(inp, i) \in A /\ h[Finish(inp, i)] = Finish(S, i - b)
             /\ Finish(S, i - b) \in Ends(S) /\ Finish(S, i - b) \in B
             /\ Finish(S, i - b)[1] - Finish(S, i - b)[2] + 1 = i - b
  <2>1. Finish(inp, i) \in A
    BY TagFacts
  <2>2. i - b \in Elements(S) /\ Finish(S, i - b) = <<Finish(inp, i)[1] - b, Finish(inp, i)[2]>>
    BY LiftedTags
  <2>3. h[Finish(inp, i)] = Finish(S, i - b)
    BY <2>1, <2>2
  <2>4. Finish(S, i - b) \in Ends(S) /\ Finish(S, i - b) \in B
    BY <2>2 DEF Ends, Tags
  <2>5. i - b \in Nat /\ S.nodes[i - b].size \in Nat
    BY <2>2, LiftedTags
  <2> HIDE DEF b, S
  <2>6. Finish(S, i - b)[1] - Finish(S, i - b)[2] + 1 = i - b
    BY <2>5 DEF Finish, After
  <2> QED BY <2>1, <2>3, <2>4, <2>6
<1>7. \A t \in A : \/ \E i \in Written(inp) : t = Begin(i)
                   \/ \E i \in Elements(inp) : t = Finish(inp, i)
  BY TagFacts
<1>8. \A i \in Elements(inp) : i \in Written(inp)
  BY WrittenNodes
<1>9. ASSUME NEW t \in A PROVE h[t] = <<t[1] - b, t[2]>> /\ t[1] \in Nat /\ t[2] \in Nat
  BY <1>4 DEF IsPairs
<1>10. ASSUME NEW t \in A PROVE h[t] \in B
  BY <1>5, <1>6, <1>7
<1>11. ASSUME NEW u \in B PROVE \E t \in A : h[t] = u
  <2>1. CASE u \in Starts(S)
    <3>1. PICK n \in Written(S) : u = Begin(n)
      BY <2>1 DEF Starts, Begin
    <3>2. n + b \in Written(inp) /\ (n + b) - b = n
      BY LiftedTags
    <3> HIDE DEF h
    <3> QED BY <1>5, <3>1, <3>2
  <2>2. CASE u \in Ends(S)
    <3>1. PICK n \in Elements(S) : u = Finish(S, n)
      BY <2>2 DEF Ends
    <3>2. n + b \in Elements(inp) /\ (n + b) - b = n
      BY LiftedTags
    <3> HIDE DEF h
    <3> QED BY <1>6, <3>1, <3>2
  <2> QED BY <2>1, <2>2 DEF Tags
<1>12. IsPairs(B)
  <2>1. h \in Surjection(A, B)
    <3>1. h \in [A -> B]
      BY <1>10
    <3> HIDE DEF h
    <3> QED BY <1>11, <3>1 DEF Surjection
  <2>2. IsFiniteSet(B)
    BY <1>4, <2>1, FS_Surjection DEF IsPairs
  <2>3. ASSUME NEW u \in B PROVE u \in Nat \X Nat
    <3>1. CASE u \in Starts(S)
      <4>1. PICK n \in Written(S) : u = <<n, 0>>
        BY <3>1 DEF Starts
      <4>2. n + b \in Written(inp) /\ (n + b) - b = n
        BY LiftedTags
      <4>3. (n + b) - b \in Nat
        BY <4>2, LiftedTags
      <4>4. n \in Nat
        BY <4>2, <4>3
      <4> QED BY <4>1, <4>4
    <3>2. CASE u \in Ends(S)
      <4>1. PICK n \in Elements(S) : u = Finish(S, n)
        BY <3>2 DEF Ends
      <4>2. n \in Nat /\ S.nodes[n].size \in Nat \ {0}
        BY LiftedTags
      <4> QED BY <4>1, <4>2 DEF Finish, After
    <3> QED BY <3>1, <3>2 DEF Tags
  <2> QED BY <2>2, <2>3 DEF IsPairs
<1>13. Carries(h, A, B)
  <2>1. ASSUME NEW t \in A, NEW u \in A, Precedes(t, u) PROVE Precedes(h[t], h[u])
    <3> HIDE DEF h, b, A
    <3>1. /\ t[1] \in Nat /\ t[2] \in Nat /\ u[1] \in Nat /\ u[2] \in Nat
          /\ h[t] = <<t[1] - b, t[2]>> /\ h[u] = <<u[1] - b, u[2]>>
      BY <1>9
    <3> QED BY <1>3, <2>1, <3>1 DEF Precedes
  <2>2. h \in [A -> B]
    BY <1>10
  <2> HIDE DEF h, A, B
  <2> QED BY <1>11, <2>1, <2>2 DEF Carries
<1>14. ASSUME NEW i \in Elements(inp) PROVE g[Begin(i - b)] = f[Begin(i)]
  <2>1. f[Begin(i)] = MeantStarts(inp)[i]
    BY TextIs
  <2>2. i - b \in Elements(S)
    BY LiftedTags
  <2>3. Begin(i - b) \in B /\ Begin(i - b) \notin Ends(S) /\ Begin(i - b)[1] = i - b
        /\ Begin(i - b) \in Elements(S) \X {0}
    BY <1>5, <1>8, <2>2 DEF Begin
  <2>4. g[Begin(i - b)] = MeantStarts(S)[i - b]
    <3> HIDE DEF S, b
    <3> QED BY <2>3 DEF Text
  <2>5. i \in Subtree(m, inp.apex)
    BY WrittenNodes
  <2>6. /\ S.nodes[i - b].attrs = m[i].attrs
        /\ Name(S.nodes, i - b) = Name(m, i)
        /\ RenderedAt(S, i - b) = RenderedAt(inp, i)
    BY <2>5, StandaloneIs, LiftedNodes, LiftedRendered
  <2>7. MeantStarts(S)[i - b] = MeantStarts(inp)[i]
    <3> HIDE DEF S, b
    <3> QED BY <2>2, <2>6 DEF MeantStarts
  <2> QED BY <2>1, <2>4, <2>7
<1>15. ASSUME NEW i \in Written(inp), i \notin Elements(inp) PROVE g[Begin(i - b)] = f[Begin(i)]
  <2>1. f[Begin(i)] = Content(m, i)
    BY <1>15, TextIs
  <2>2. i \in Subtree(m, inp.apex)
    BY WrittenNodes
  <2>3. /\ S.nodes[i - b].kind = m[i].kind /\ Name(S.nodes, i - b) = Name(m, i)
        /\ i - b \notin Elements(S)
    BY <1>15, <2>2, StandaloneIs, LiftedNodes
  <2>4. Begin(i - b) \in B /\ Begin(i - b) \notin Ends(S) /\ Begin(i - b)[1] = i - b
        /\ Begin(i - b) \notin Elements(S) \X {0}
    BY <1>5, <2>3 DEF Begin
  <2> HIDE DEF S, b
  <2>5. g[Begin(i - b)] = Content(S.nodes, i - b)
    BY <2>4 DEF Text
  <2>6. Content(S.nodes, i - b) = Content(m, i)
    BY <2>3 DEF Content
  <2> QED BY <2>1, <2>5, <2>6
<1>16. ASSUME NEW i \in Elements(inp) PROVE g[Finish(S, i - b)] = f[Finish(inp, i)]
  <2>1. f[Finish(inp, i)] = EndTag(m, i)
    BY TextIs
  <2>2. Name(S.nodes, i - b) = Name(m, i)
    BY WrittenNodes, LiftedNodes
  <2> DEFINE t == Finish(S, i - b)
  <2>3. t \in B /\ t \in Ends(S) /\ t[1] - t[2] + 1 = i - b
    BY <1>6
  <2>4. t \notin Elements(S) \X {0}
    <3>1. i - b \in Elements(S)
      BY LiftedTags
    <3>2. S.nodes[i - b].size # 0
      BY <3>1, LiftedTags
    <3> QED BY <3>2 DEF Finish
  <2> HIDE DEF S, b, t
  <2>5. g[t] = EndTag(S.nodes, t[1] - t[2] + 1)
    BY <2>3, <2>4 DEF Text
  <2>6. g[t] = EndTag(m, i)
    BY <2>2, <2>3, <2>5 DEF EndTag
  <2> QED BY <2>1, <2>6 DEF t
<1> HIDE DEF f, g, h, A, B, S, b
<1>17. ASSUME NEW t \in A PROVE g[h[t]] = f[t]
  BY <1>5, <1>6, <1>7, <1>14, <1>15, <1>16
<1>18. InOrder(f) = InOrder(g)
  BY <1>4, <1>12, <1>13, <1>17, InOrderCarried
<1> QED BY <1>1, <1>2, <1>18 DEF S

-----------------------------------------------------------------------------
(* Where the tags of an element are in the output.                          *)
StartAt(inp, i) == Position(Tags(inp), Begin(i))
EndAt(inp, i) == Position(Tags(inp), Finish(inp, i))

(* They follow one another as the elements are nested. *)
LEMMA Places ==
  ASSUME NEW inp, IsInput(inp)
  PROVE  /\ \A i \in Elements(inp) :
              /\ StartAt(inp, i) \in 1 .. Cardinality(Tags(inp)) /\ StartAt(inp, i) \in Nat
              /\ EndAt(inp, i) \in 1 .. Cardinality(Tags(inp)) /\ EndAt(inp, i) \in Nat
         /\ \A i, j \in Elements(inp) :
              /\ StartAt(inp, i) < StartAt(inp, j) <=> i < j
              /\ StartAt(inp, i) = StartAt(inp, j) <=> i = j
              /\ StartAt(inp, i) < EndAt(inp, j) <=> i < After(inp, j)
              /\ EndAt(inp, i) < StartAt(inp, j) <=> After(inp, i) <= j
              /\ EndAt(inp, i) < EndAt(inp, j) <=>
                   After(inp, i) < After(inp, j) \/ (After(inp, i) = After(inp, j) /\ j < i)
              /\ EndAt(inp, i) = EndAt(inp, j) <=> i = j
<1> DEFINE A == Tags(inp)
<1>1. IsPairs(A) /\ Cardinality(A) \in Nat
  BY TagFacts, AheadFinite
<1>2. ASSUME NEW i \in Elements(inp)
      PROVE  i \in Written(inp) /\ Begin(i) \in A /\ Finish(inp, i) \in A
  BY WrittenNodes, TagFacts
<1> HIDE DEF A
<1>3. /\ \A t \in A : Position(A, t) \in 1 .. Cardinality(A)
      /\ \A s, t \in A : Position(A, s) = Position(A, t) => s = t
      /\ \A s, t \in A : Precedes(s, t) <=> Position(A, s) < Position(A, t)
  BY <1>1, Ranked
<1>4. ASSUME NEW i \in Elements(inp)
      PROVE  /\ StartAt(inp, i) \in 1 .. Cardinality(A) /\ StartAt(inp, i) \in Nat
             /\ EndAt(inp, i) \in 1 .. Cardinality(A) /\ EndAt(inp, i) \in Nat
  BY <1>1, <1>2, <1>3 DEF StartAt, EndAt, A
<1>5. ASSUME NEW i \in Elements(inp), NEW j \in Elements(inp)
      PROVE  /\ StartAt(inp, i) < StartAt(inp, j) <=> i < j
             /\ StartAt(inp, i) < EndAt(inp, j) <=> i < After(inp, j)
             /\ EndAt(inp, i) < StartAt(inp, j) <=> After(inp, i) <= j
             /\ EndAt(inp, i) < EndAt(inp, j) <=>
                  After(inp, i) < After(inp, j) \/ (After(inp, i) = After(inp, j) /\ j < i)
  BY <1>2, <1>3, TagOrder DEF StartAt, EndAt, A
<1>6. ASSUME NEW i \in Elements(inp), NEW j \in Elements(inp), StartAt(inp, i) = StartAt(inp, j)
      PROVE  i = j
  <2>1. Begin(i) = Begin(j)
    BY <1>2, <1>3, <1>6 DEF StartAt, A
  <2> QED BY <2>1 DEF Begin
<1>7. ASSUME NEW i \in Elements(inp), NEW j \in Elements(inp), EndAt(inp, i) = EndAt(inp, j)
      PROVE  i = j
  <2>1. Finish(inp, i) = Finish(inp, j)
    BY <1>2, <1>3, <1>7 DEF EndAt, A
  <2> QED BY <2>1, TagFacts
<1> QED BY <1>4, <1>5, <1>6, <1>7 DEF A

(* The tokens read back. *)
TokensAt(o, tok) == {n \in DOMAIN o : o[n].tok = tok}

CountOf(o, tok, m, n) == Cardinality(TokensAt(o, tok) \cap m .. n)

AroundTag(o, n) ==
  {m \in 1 .. n : \A k \in m .. n : CountOf(o, "end", m, k) < CountOf(o, "start", m, k)}

DeclaringTags(o, n, p) == {m \in AroundTag(o, n) : \E b \in o[m].decls : b[1] = p}

UriRead(o, n, p) ==
  IF p = "xml" THEN XmlUri
  ELSE IF DeclaringTags(o, n, p) = {} THEN NoUri
  ELSE (CHOOSE b \in o[Max(DeclaringTags(o, n, p))].decls : b[1] = p)[2]

ReadTag(o, n) ==
  [element |-> <<UriRead(o, n, o[n].name[1]), o[n].name[2]>>,
   attrs |-> {<<IF a[1] = NoPrefix THEN NoUri ELSE UriRead(o, n, a[1]), a[2]>> :
                a \in o[n].attrs}]

LEMMA NamesReadIs ==
  ASSUME NEW o
  PROVE  NamesRead(o) = InOrder([t \in TokensAt(o, "start") \X {0} |-> ReadTag(o, t[1])])
BY DEF NamesRead, ReadTag, UriRead, DeclaringTags, AroundTag, CountOf, TokensAt

(* The start and end tags in the output of the walk are at these places. *)
LEMMA WalkedTokens ==
  ASSUME NEW inp, IsInput(inp), NEW o, o = InOrder(Walked(inp))
  PROVE  /\ \A i \in Elements(inp) :
              o[StartAt(inp, i)] = StartTag(inp.nodes, i, RenderedFor(inp, Above(inp, i), i))
         /\ TokensAt(o, "start") = {StartAt(inp, i) : i \in Elements(inp)}
         /\ TokensAt(o, "end") = {EndAt(inp, i) : i \in Elements(inp)}
         /\ IsFiniteSet(DOMAIN o)
<1> DEFINE A == Tags(inp)
           f == Walked(inp)
<1>1. IsPairs(A) /\ DOMAIN f = A
  BY TagFacts, TextIs DEF Walked
<1>2. /\ \A i \in Elements(inp) : f[Begin(i)] = WalkedStarts(inp)[i]
      /\ \A i \in Written(inp) : i \notin Elements(inp) => f[Begin(i)] = Content(inp.nodes, i)
      /\ \A i \in Elements(inp) : f[Finish(inp, i)] = EndTag(inp.nodes, i)
  BY TextIs DEF Walked
<1>3. /\ \A i \in Written(inp) : Begin(i) \in A
      /\ \A i \in Elements(inp) : i \in Written(inp) /\ Finish(inp, i) \in A
      /\ \A t \in A : \/ \E i \in Written(inp) : t = Begin(i)
                      \/ \E i \in Elements(inp) : t = Finish(inp, i)
  BY TagFacts, WrittenNodes
<1> HIDE DEF A, f
<1>4. /\ DOMAIN o = 1 .. Cardinality(A) /\ Cardinality(A) \in Nat
      /\ \A t \in A : o[Position(A, t)] = f[t]
  BY <1>1, InOrderIs DEF f
<1>5. /\ \A t \in A : Position(A, t) \in DOMAIN o
      /\ \A n \in DOMAIN o : \E t \in A : Position(A, t) = n
  BY <1>1, <1>4, Ranked
<1>6. ASSUME NEW i \in Elements(inp)
      PROVE  /\ o[StartAt(inp, i)] = StartTag(inp.nodes, i, RenderedFor(inp, Above(inp, i), i))
             /\ o[StartAt(inp, i)].tok = "start" /\ StartAt(inp, i) \in DOMAIN o
             /\ o[EndAt(inp, i)].tok = "end" /\ EndAt(inp, i) \in DOMAIN o
  <2>1. /\ o[StartAt(inp, i)] = f[Begin(i)] /\ StartAt(inp, i) \in DOMAIN o
        /\ o[EndAt(inp, i)] = f[Finish(inp, i)] /\ EndAt(inp, i) \in DOMAIN o
    BY <1>3, <1>4, <1>5 DEF StartAt, EndAt, A
  <2>2. f[Begin(i)] = StartTag(inp.nodes, i, RenderedFor(inp, Above(inp, i), i))
    BY <1>2 DEF WalkedStarts
  <2>3. f[Begin(i)].tok = "start"
    BY <2>2 DEF StartTag, Token
  <2>4. f[Finish(inp, i)].tok = "end"
    <3>1. f[Finish(inp, i)] = EndTag(inp.nodes, i)
      BY <1>2
    <3> QED BY <3>1 DEF EndTag, Token
  <2> QED BY <2>1, <2>2, <2>3, <2>4
<1>7. ASSUME NEW n \in DOMAIN o
      PROVE  \/ \E i \in Elements(inp) : n = StartAt(inp, i)
             \/ \E i \in Elements(inp) : n = EndAt(inp, i)
             \/ o[n].tok # "start" /\ o[n].tok # "end"
  <2>1. PICK t \in A : Position(A, t) = n
    BY <1>5
  <2>2. ASSUME NEW i \in Written(inp), i \notin Elements(inp), t = Begin(i)
        PROVE  o[n].tok # "start" /\ o[n].tok # "end"
    <3>1. o[n] = Content(inp.nodes, i)
      BY <1>2, <1>4, <2>1, <2>2
    <3>2. o[n].tok = inp.nodes[i].kind
      BY <3>1 DEF Content, Token
    <3>3. inp.nodes[i].kind \in {"element", "text", "pi", "comment"}
      BY WrittenNodes DEF IsInput
    <3> QED BY <3>2, <3>3
  <2> QED BY <1>3, <2>1, <2>2 DEF StartAt, EndAt, A
<1>8. TokensAt(o, "start") = {StartAt(inp, i) : i \in Elements(inp)}
  BY <1>6, <1>7 DEF TokensAt
<1>9. TokensAt(o, "end") = {EndAt(inp, i) : i \in Elements(inp)}
  BY <1>6, <1>7 DEF TokensAt
<1>10. IsFiniteSet(DOMAIN o)
  BY <1>4, FS_Interval
<1> QED BY <1>6, <1>8, <1>9, <1>10

-----------------------------------------------------------------------------
(* Counting tags: the end tags in a stretch of the output are no more than  *)
(* the start tags when each has its start tag there, and the other way.     *)
OneToOne(p, D) == \A x, y \in D : p[x] = p[y] => x = y

Values(p, D) == {p[x] : x \in D}

Sends(p, X, q, Y, D) == \A x \in D : p[x] \in X => q[x] \in Y

LEMMA Matched ==
  ASSUME NEW D, NEW p, NEW q, OneToOne(p, D), OneToOne(q, D),
         NEW X \in SUBSET Values(p, D), NEW Y, IsFiniteSet(Y),
         Sends(p, X, q, Y, D)
  PROVE  /\ Cardinality(X) \in Nat /\ Cardinality(Y) \in Nat
         /\ Cardinality(X) <= Cardinality(Y)
         /\ \A y \in Y : (\A x \in D : p[x] \in X => q[x] # y) =>
              Cardinality(X) < Cardinality(Y)
<1> DEFINE Of(n) == CHOOSE x \in D : p[x] = n
           g == [n \in X |-> q[Of(n)]]
<1>1. ASSUME NEW n \in X PROVE Of(n) \in D /\ p[Of(n)] = n
  <2>1. \E x \in D : p[x] = n
    BY DEF Values
  <2> QED BY <2>1
<1> HIDE DEF Of
<1>2. \A n \in X : g[n] = q[Of(n)] /\ g[n] \in Y
  BY <1>1 DEF Sends
<1>3. g \in [X -> Y]
  BY <1>2
<1> HIDE DEF g
<1>4. ASSUME NEW m \in X, NEW n \in X, g[m] = g[n] PROVE m = n
  <2>1. Of(m) = Of(n)
    BY <1>1, <1>2, <1>4 DEF OneToOne
  <2> QED BY <1>1, <2>1
<1>5. g \in Injection(X, Y)
  BY <1>3, <1>4 DEF Injection, IsInjective
<1>6. /\ IsFiniteSet(X) /\ Cardinality(X) <= Cardinality(Y)
      /\ Cardinality(X) = Cardinality(Y) <=> g \in Surjection(X, Y)
  BY <1>5, FS_Injection
<1>7. Cardinality(X) \in Nat /\ Cardinality(Y) \in Nat
  BY <1>6, FS_CardinalityType
<1>8. ASSUME NEW y \in Y, \A x \in D : p[x] \in X => q[x] # y
      PROVE  Cardinality(X) # Cardinality(Y)
  <2>1. \A n \in X : g[n] # y
    BY <1>1, <1>2, <1>8
  <2> QED BY <1>6, <2>1 DEF Surjection
<1> QED BY <1>6, <1>7, <1>8

(* The tags around a start tag are those of the elements around. *)
Enclosing(inp, i) == {j \in Elements(inp) : i \in Subtree(inp.nodes, j)}

LEMMA AroundIs ==
  ASSUME NEW inp, IsInput(inp), NEW o, o = InOrder(Walked(inp)), NEW i \in Elements(inp)
  PROVE  AroundTag(o, StartAt(inp, i)) = {StartAt(inp, j) : j \in Enclosing(inp, i)}
<1> DEFINE D == Elements(inp)
           R(x) == StartAt(inp, x)
           E(x) == EndAt(inp, x)
           p == [x \in D |-> R(x)]
           q == [x \in D |-> E(x)]
           SS == TokensAt(o, "start")
           EE == TokensAt(o, "end")
<1>1. SS = {R(x) : x \in D} /\ EE = {E(x) : x \in D} /\ IsFiniteSet(DOMAIN o)
  BY WalkedTokens
<1>2. \A x \in D : R(x) \in Nat /\ R(x) >= 1 /\ E(x) \in Nat
  BY Places
<1>3. \A x, y \in D : /\ R(x) < R(y) <=> x < y
                      /\ R(x) = R(y) <=> x = y
                      /\ R(x) < E(y) <=> x < After(inp, y)
                      /\ E(x) < R(y) <=> After(inp, x) <= y
                      /\ E(x) < E(y) <=> After(inp, x) < After(inp, y)
                                           \/ (After(inp, x) = After(inp, y) /\ y < x)
                      /\ E(x) = E(y) <=> x = y
  BY Places
<1>4. \A x \in D : /\ x \in Nat /\ x \in Nodes(inp.nodes) /\ After(inp, x) \in Nat
                   /\ x < After(inp, x)
  BY WrittenNodes, Shape
<1>5. \A x, y \in D : /\ x \in Subtree(inp.nodes, y) <=> y <= x /\ x < After(inp, y)
                      /\ y <= x /\ x < After(inp, y) => After(inp, x) <= After(inp, y)
  <2> SUFFICES ASSUME NEW x \in D, NEW y \in D
               PROVE  /\ x \in Subtree(inp.nodes, y) <=> y <= x /\ x < After(inp, y)
                      /\ y <= x /\ x < After(inp, y) => After(inp, x) <= After(inp, y)
    OBVIOUS
  <2>1. x \in Subtree(inp.nodes, y) <=> y <= x /\ x < After(inp, y)
    BY <1>4, Shape
  <2>2. x \in Subtree(inp.nodes, y) => After(inp, x) <= After(inp, y)
    BY <1>4, Shape
  <2> QED BY <2>1, <2>2
<1>6. \A x \in D : p[x] = R(x) /\ q[x] = E(x)
  OBVIOUS
<1> HIDE DEF R, E, D, p, q, SS, EE
<1>7. OneToOne(p, D) /\ OneToOne(q, D)
  BY <1>3, <1>6 DEF OneToOne
<1>8. SS = Values(p, D) /\ EE = Values(q, D)
  BY <1>1, <1>6 DEF Values
<1>9. ASSUME NEW X PROVE IsFiniteSet(SS \cap X) /\ IsFiniteSet(EE \cap X)
  <2>1. SS \cap X \in SUBSET DOMAIN o /\ EE \cap X \in SUBSET DOMAIN o
    BY DEF SS, EE, TokensAt
  <2> QED BY <1>1, <2>1, FS_Subset
<1>10. i \in D
  BY DEF D
<1>11. ASSUME NEW j \in D, i \in Subtree(inp.nodes, j) PROVE R(j) \in AroundTag(o, R(i))
  <2>1. j <= i /\ i < After(inp, j)
    BY <1>5, <1>10, <1>11
  <2>2. R(j) <= R(i)
    BY <1>2, <1>3, <1>4, <1>10, <2>1
  <2>3. R(j) \in 1 .. R(i)
    BY <1>2, <1>10, <2>2
  <2>4. ASSUME NEW k \in R(j) .. R(i)
        PROVE  Cardinality(EE \cap R(j) .. k) < Cardinality(SS \cap R(j) .. k)
    <3> DEFINE X == EE \cap R(j) .. k
               Y == SS \cap R(j) .. k
    <3>1. k \in Nat /\ R(j) <= k /\ k <= R(i) /\ R(j) \in Nat /\ R(i) \in Nat
      BY <1>2, <1>10
    <3>2. ASSUME NEW x \in D, q[x] \in X PROVE p[x] \in Y /\ p[x] # R(j)
      <4>1. R(j) <= E(x) /\ E(x) <= k /\ E(x) \in Nat /\ R(x) \in Nat
        BY <1>2, <1>6, <3>1, <3>2
      <4>2. ~ (E(x) < R(j)) /\ ~ (R(i) < E(x))
        BY <3>1, <4>1
      <4>3. ~ (After(inp, x) <= j) /\ ~ (i < After(inp, x))
        BY <1>3, <1>10, <4>2
      <4>4. j < After(inp, x) /\ After(inp, x) <= i /\ x < After(inp, x)
        BY <1>4, <1>10, <4>3
      <4>5. j < x
        <5> SUFFICES ASSUME x <= j PROVE FALSE
          BY <1>4
        <5>1. After(inp, j) <= After(inp, x)
          BY <1>5, <4>4
        <5> QED BY <1>4, <1>10, <2>1, <4>4, <5>1
      <4>6. R(j) < R(x) /\ R(x) < E(x)
        BY <1>3, <4>4, <4>5
      <4>7. R(x) \in R(j) .. k /\ R(x) \in SS /\ R(x) # R(j)
        BY <1>1, <3>1, <4>1, <4>6
      <4> QED BY <1>6, <4>7
    <3>3. R(j) \in Y
      BY <1>1, <3>1
    <3>4. IsFiniteSet(Y) /\ X \in SUBSET Values(q, D)
      BY <1>8, <1>9
    <3> HIDE DEF X, Y
    <3>5. Cardinality(X) < Cardinality(Y)
      <4>1. \A x \in D : q[x] \in X => p[x] \in Y
        BY <3>2
      <4>2. \A x \in D : q[x] \in X => p[x] # R(j)
        BY <3>2
      <4>3. Sends(q, X, p, Y, D)
        BY <4>1 DEF Sends
      <4> QED BY <1>7, <3>3, <3>4, <4>2, <4>3, Matched
    <3> QED BY <3>5 DEF X, Y
  <2> QED BY <2>3, <2>4 DEF AroundTag, CountOf, SS, EE
<1>12. ASSUME NEW m \in AroundTag(o, R(i))
       PROVE  \E j \in D : m = R(j) /\ i \in Subtree(inp.nodes, j)
  <2>1. /\ m \in 1 .. R(i)
        /\ \A k \in m .. R(i) :
             Cardinality(EE \cap m .. k) < Cardinality(SS \cap m .. k)
    BY DEF AroundTag, CountOf, SS, EE
  <2>2. m \in Nat /\ m <= R(i) /\ R(i) \in Nat /\ m \in m .. R(i)
    BY <1>2, <1>10, <2>1
  <2>3. m \in SS
    <3> SUFFICES ASSUME m \notin SS PROVE FALSE
      OBVIOUS
    <3>1. SS \cap m .. m = {}
      BY <2>2
    <3>2. Cardinality(SS \cap m .. m) = 0
      BY <3>1, FS_EmptySet
    <3>3. Cardinality(EE \cap m .. m) \in Nat
      BY <1>9, FS_CardinalityType
    <3>4. Cardinality(EE \cap m .. m) < Cardinality(SS \cap m .. m)
      BY <2>1, <2>2
    <3> QED BY <3>2, <3>3, <3>4
  <2>4. PICK j \in D : m = R(j)
    BY <1>1, <2>3
  <2>5. j <= i
    BY <1>2, <1>3, <1>4, <1>10, <2>2, <2>4
  <2>6. i < After(inp, j)
    <3> SUFFICES ASSUME After(inp, j) <= i PROVE FALSE
      BY <1>4, <1>10
    <3>1. E(j) < R(i) /\ R(j) < E(j) /\ E(j) \in Nat /\ E(j) \in m .. R(i)
      BY <1>2, <1>3, <1>4, <1>10, <2>2, <2>4
    <3> DEFINE k == E(j)
               X == EE \cap m .. k
               Y == SS \cap m .. k
    <3>2. ASSUME NEW x \in D, p[x] \in Y PROVE q[x] \in X
      <4>1. m <= R(x) /\ R(x) <= E(j) /\ R(x) \in Nat /\ E(x) \in Nat
        BY <1>2, <1>6, <2>2, <3>1, <3>2
      <4>2. ~ (R(x) < R(j)) /\ ~ (E(j) < R(x))
        BY <2>2, <2>4, <3>1, <4>1
      <4>3. ~ (x < j) /\ ~ (After(inp, j) <= x)
        BY <1>3, <4>2
      <4>4. After(inp, x) <= After(inp, j) /\ j <= x
        BY <1>4, <1>5, <4>3
      <4>5. ~ (E(j) < E(x))
        <5>1. ~ (After(inp, j) < After(inp, x)) /\ ~ (x < j)
          BY <1>4, <4>4
        <5> QED BY <1>3, <5>1
      <4>6. R(x) < E(x)
        BY <1>3, <1>4
      <4>7. E(x) \in m .. k /\ E(x) \in EE
        BY <1>1, <2>2, <3>1, <4>1, <4>5, <4>6
      <4> QED BY <1>6, <4>7
    <3>3. IsFiniteSet(X) /\ Y \in SUBSET Values(p, D)
      BY <1>8, <1>9
    <3>4. Cardinality(X) < Cardinality(Y)
      BY <2>1, <3>1
    <3> HIDE DEF X, Y
    <3>5. Cardinality(Y) <= Cardinality(X) /\ Cardinality(X) \in Nat /\ Cardinality(Y) \in Nat
      <4>1. \A x \in D : p[x] \in Y => q[x] \in X
        BY <3>2
      <4>2. Sends(p, Y, q, X, D)
        BY <4>1 DEF Sends
      <4> QED BY <1>7, <3>3, <4>2, Matched
    <3> QED BY <3>4, <3>5
  <2> QED BY <1>5, <1>10, <2>4, <2>5, <2>6
<1>13. AroundTag(o, R(i)) = {R(j) : j \in Enclosing(inp, i)}
  <2>1. ASSUME NEW m \in AroundTag(o, R(i)) PROVE m \in {R(j) : j \in Enclosing(inp, i)}
    BY <1>12 DEF Enclosing, D
  <2>2. ASSUME NEW j \in Enclosing(inp, i) PROVE R(j) \in AroundTag(o, R(i))
    BY <1>11 DEF Enclosing, D
  <2> QED BY <2>1, <2>2
<1> QED BY <1>13 DEF R

-----------------------------------------------------------------------------
(* Where a prefix in the output gets its namespace.                         *)
LEMMA AboveElements ==
  ASSUME NEW inp, IsInput(inp), NEW c \in Elements(inp), NEW x \in Above(inp, c)
  PROVE  x \in Elements(inp) /\ x < c /\ c \in Subtree(inp.nodes, x)
<1> DEFINE m == inp.nodes
           T == Subtree(m, inp.apex)
<1>1. x \in Nodes(m) /\ c \in Subtree(m, x) /\ x # c /\ x \in T
  BY DEF Above, Ancestors
<1>2. c \in Written(inp) /\ c \in Nodes(m) /\ c \in Nat /\ x \in Nat
  BY <1>1, WrittenNodes, Shape
<1>3. x < c
  <2>1. x <= c
    BY <1>1, Shape
  <2> QED BY <1>1, <1>2, <2>1
<1>4. m[x].kind = "element"
  <2> SUFFICES ASSUME m[x].kind # "element" PROVE FALSE
    OBVIOUS
  <2>1. m[x].size = 1
    BY <1>1 DEF IsInput
  <2>2. c < x + 1
    BY <1>1, <2>1, Shape DEF After
  <2> QED BY <1>2, <1>3, <2>2
<1>5. Ancestors(m, x) \subseteq Ancestors(m, c)
  <2> SUFFICES ASSUME NEW y \in Ancestors(m, x) PROVE y \in Ancestors(m, c)
    OBVIOUS
  <2>1. y \in Nodes(m) /\ x \in Subtree(m, y)
    BY DEF Ancestors
  <2>2. c \in Subtree(m, y)
    BY <1>1, <2>1 DEF IsInput
  <2> QED BY <2>1, <2>2 DEF Ancestors
<1>6. x \in Written(inp)
  BY <1>1, <1>2, <1>4, <1>5 DEF Written
<1> QED BY <1>1, <1>3, <1>4, <1>6 DEF Elements

(* The elements around that declare a prefix. *)
Renderers(inp, i, p) ==
  {j \in Enclosing(inp, i) :
     p \in Utilized(inp, j) /\ UriAt(inp.nodes, j, p) # Inherited(inp, Above(inp, j), p)}

(* The innermost of them says what it is, and no element since said         *)
(* otherwise: take the first that has it differently; it would declare it.  *)
LEMMA UriCarried ==
  ASSUME NEW inp, IsInput(inp), NEW i \in Elements(inp), NEW p \in Utilized(inp, i)
  PROVE  UriAt(inp.nodes, i, p)
           = IF Renderers(inp, i, p) = {} THEN NoUri
             ELSE UriAt(inp.nodes, Max(Renderers(inp, i, p)), p)
<1> DEFINE m == inp.nodes
           U(j) == UriAt(m, j, p)
           D == Renderers(inp, i, p)
           v == IF D = {} THEN NoUri ELSE U(Max(D))
           Chain == {j \in Enclosing(inp, i) : p \in Utilized(inp, j) /\ \A d \in D : d <= j}
           C == {j \in Chain : U(j) # v}
<1>1. \A j \in Enclosing(inp, i) : /\ j \in Elements(inp) /\ j \in Nodes(m) /\ j \in Nat
                                   /\ i \in Subtree(m, j) /\ j <= i /\ j \in 1 .. Len(m)
  <2> SUFFICES ASSUME NEW j \in Enclosing(inp, i)
               PROVE  /\ j \in Elements(inp) /\ j \in Nodes(m) /\ j \in Nat
                      /\ i \in Subtree(m, j) /\ j <= i /\ j \in 1 .. Len(m)
    OBVIOUS
  <2>1. j \in Elements(inp) /\ i \in Subtree(m, j)
    BY DEF Enclosing
  <2>2. j \in Nodes(m)
    BY <2>1, WrittenNodes
  <2> QED BY <2>1, <2>2, Shape DEF Nodes
<1>2. i \in Enclosing(inp, i) /\ i \in Nat /\ i \in Nodes(m)
  BY WrittenNodes, Shape DEF Enclosing
<1>3. \A j \in D : j \in Enclosing(inp, i) /\ p \in Utilized(inp, j)
  BY DEF Renderers
<1>4. ASSUME D # {}
      PROVE  Max(D) \in D /\ \A d \in D : d <= Max(D)
  <2>1. D \in SUBSET (1 .. Len(m)) /\ D \in SUBSET Nat /\ Len(m) \in Nat
    BY <1>1, <1>3, Shape
  <2> HIDE DEF D
  <2>2. PICK x \in D : \A y \in D : y <= x
    BY <1>4, <2>1, Largest
  <2>3. Max(D) = x
    BY <2>1, <2>2, MaxIs
  <2> QED BY <2>2, <2>3
<1>5. i \in Chain
  BY <1>1, <1>2, <1>3
<1> SUFFICES ASSUME i \in C PROVE FALSE
  BY <1>5
<1>6. C \in SUBSET Nat /\ C # {}
  BY <1>1
<1> DEFINE c == First(C)
<1>7. c \in C /\ \A j \in C : c <= j
  BY <1>6, FirstIsLeast
<1> HIDE DEF c
<1>8. c \in Elements(inp) /\ c \in Nat /\ c \in Nodes(m) /\ i \in Subtree(m, c) /\ p \in Utilized(inp, c)
      /\ U(c) # v /\ \A d \in D : d <= c
  BY <1>1, <1>7
<1> DEFINE O == Above(inp, c)
           US == Users(inp, O, p)
<1>9. c \notin D
  <2> SUFFICES ASSUME c \in D PROVE FALSE
    OBVIOUS
  <2>1. Max(D) \in D /\ c <= Max(D) /\ Max(D) <= c
    BY <1>4, <1>8
  <2>2. Max(D) \in Nat
    BY <1>1, <1>3, <2>1
  <2>3. Max(D) = c
    BY <1>8, <2>1, <2>2
  <2>4. v = U(Max(D))
    OBVIOUS
  <2> QED BY <1>8, <2>3, <2>4
<1>10. U(c) = Inherited(inp, O, p)
  <2>1. c \in Enclosing(inp, i)
    BY <1>8 DEF Enclosing
  <2> QED BY <1>8, <1>9, <2>1 DEF Renderers
<1>11. \A x \in O : x \in Elements(inp) /\ x < c /\ c \in Subtree(m, x)
  BY <1>8, AboveElements
<1>12. ASSUME NEW d \in D PROVE d \in US /\ d < c
  <2>1. d \in Elements(inp) /\ d \in Nodes(m) /\ d \in Nat /\ i \in Subtree(m, d) /\ d <= c
        /\ p \in Utilized(inp, d)
    BY <1>1, <1>3, <1>8
  <2>2. d < c
    BY <1>8, <1>9, <2>1
  <2>3. c \in Subtree(m, d)
    <3>1. c <= i /\ i < After(inp, d) /\ After(inp, d) \in Nat
      BY <1>2, <1>8, <2>1, Shape
    <3>2. c < After(inp, d)
      BY <1>2, <1>8, <3>1
    <3> QED BY <1>8, <2>1, <3>2, Shape
  <2>4. d \in Subtree(m, inp.apex)
    BY <2>1, WrittenNodes
  <2>5. d \in O
    BY <2>1, <2>2, <2>3, <2>4 DEF Above, Ancestors
  <2> QED BY <2>1, <2>2, <2>5 DEF Users
<1>13. CASE US = {}
  <2>1. D = {}
    <3> HIDE DEF D, US
    <3> QED BY <1>12, <1>13
  <2>2. U(c) = NoUri
    BY <1>10, <1>13 DEF Inherited
  <2>3. v = NoUri
    BY <2>1
  <2> HIDE DEF v
  <2> QED BY <1>8, <2>2, <2>3
<1>14. CASE US # {}
  <2>1. US \in SUBSET (1 .. Len(m)) /\ US \in SUBSET Nat /\ Len(m) \in Nat
    <3>1. \A x \in US : x \in Elements(inp)
      BY <1>11 DEF Users
    <3>2. \A x \in Elements(inp) : x \in Nodes(m) /\ x \in Nat
      BY WrittenNodes
    <3> HIDE DEF US, m
    <3> QED BY <3>1, <3>2, Shape DEF Nodes, m
  <2>2. PICK u \in US : \A x \in US : x <= u
    BY <1>14, <2>1, Largest
  <2>3. Max(US) = u
    <3> HIDE DEF US
    <3> QED BY <2>1, <2>2, MaxIs
  <2>4. U(c) = U(u)
    BY <1>10, <1>14, <2>3 DEF Inherited
  <2>5. u \in O /\ p \in Utilized(inp, u)
    BY <2>2 DEF Users
  <2>6. u \in Elements(inp) /\ u < c /\ c \in Subtree(m, u) /\ u \in Nodes(m) /\ u \in Nat
    BY <1>11, <2>5, WrittenNodes
  <2>7. i \in Subtree(m, u)
    BY <1>8, <2>6 DEF IsInput
  <2>8. u \in Enclosing(inp, i)
    BY <2>6, <2>7 DEF Enclosing
  <2>9. \A d \in D : d <= u
    BY <1>12, <2>2
  <2> HIDE DEF D, v, O, US
  <2>10. u \in Chain
    BY <2>5, <2>8, <2>9
  <2>11. u \notin C
    <3>1. u \in C => c <= u
      BY <1>7
    <3> QED BY <1>8, <2>6, <3>1
  <2>12. U(u) = v
    BY <2>10, <2>11
  <2> QED BY <1>8, <2>4, <2>12
<1> QED BY <1>13, <1>14

(* What a start tag declares of a prefix.                                   *)
LEMMA DeclaredIn ==
  ASSUME NEW inp, NEW O, NEW j, NEW p
  PROVE  (\E b \in RenderedFor(inp, O, j) : b[1] = p) <=>
           p \in Utilized(inp, j) /\ UriAt(inp.nodes, j, p) # Inherited(inp, O, p)
<1> DEFINE R == {q \in Utilized(inp, j) : UriAt(inp.nodes, j, q) # Inherited(inp, O, q)}
<1>1. RenderedFor(inp, O, j) = {<<q, UriAt(inp.nodes, j, q)>> : q \in R}
  BY DEF RenderedFor
<1>2. p \in R <=> p \in Utilized(inp, j) /\ UriAt(inp.nodes, j, p) # Inherited(inp, O, p)
  OBVIOUS
<1> HIDE DEF R
<1>3. (\E b \in RenderedFor(inp, O, j) : b[1] = p) <=> p \in R
  <2>1. ASSUME NEW b \in RenderedFor(inp, O, j), b[1] = p PROVE p \in R
    <3>1. PICK q \in R : b = <<q, UriAt(inp.nodes, j, q)>>
      BY <1>1
    <3>2. q = p
      BY <2>1, <3>1
    <3> QED BY <3>2
  <2>2. ASSUME p \in R PROVE \E b \in RenderedFor(inp, O, j) : b[1] = p
    <3>1. <<p, UriAt(inp.nodes, j, p)>> \in RenderedFor(inp, O, j)
      BY <1>1, <2>2
    <3>2. <<p, UriAt(inp.nodes, j, p)>>[1] = p
      OBVIOUS
    <3> QED BY <3>1, <3>2
  <2> QED BY <2>1, <2>2
<1> QED BY <1>2, <1>3

LEMMA DeclaredUri ==
  ASSUME NEW inp, NEW O, NEW j, NEW b \in RenderedFor(inp, O, j)
  PROVE  b[2] = UriAt(inp.nodes, j, b[1])
<1>1. PICK q : b = <<q, UriAt(inp.nodes, j, q)>>
  BY DEF RenderedFor
<1>2. q = b[1] /\ b[2] = UriAt(inp.nodes, j, q)
  BY <1>1
<1> QED BY <1>2

(* Read back, a prefix an element utilizes has the namespace of the source. *)
LEMMA UriReadIs ==
  ASSUME NEW inp, IsInput(inp), NEW o, o = InOrder(Walked(inp)), NEW i \in Elements(inp),
         NEW p \in Utilized(inp, i), p # "xml"
  PROVE  UriRead(o, StartAt(inp, i), p) = UriAt(inp.nodes, i, p)
<1> DEFINE R(x) == StartAt(inp, x)
           D == Renderers(inp, i, p)
           W == DeclaringTags(o, R(i), p)
<1>1. AroundTag(o, R(i)) = {R(j) : j \in Enclosing(inp, i)}
  BY AroundIs
<1>2. \A j \in Enclosing(inp, i) : j \in Elements(inp) /\ j \in Nat /\ j \in 1 .. Len(inp.nodes)
  <2>1. \A j \in Enclosing(inp, i) : j \in Elements(inp)
    BY DEF Enclosing
  <2>2. \A j \in Elements(inp) : j \in Nodes(inp.nodes) /\ j \in Nat
    BY WrittenNodes
  <2> QED BY <2>1, <2>2 DEF Nodes
<1>3. \A j \in Elements(inp) : o[R(j)].decls = RenderedFor(inp, Above(inp, j), j)
  <2> SUFFICES ASSUME NEW j \in Elements(inp)
               PROVE  o[R(j)].decls = RenderedFor(inp, Above(inp, j), j)
    OBVIOUS
  <2>1. o[R(j)] = StartTag(inp.nodes, j, RenderedFor(inp, Above(inp, j), j))
    BY WalkedTokens
  <2> QED BY <2>1 DEF StartTag, Token
<1>4. \A j \in Enclosing(inp, i) : j \in D <=> \E b \in o[R(j)].decls : b[1] = p
  <2> SUFFICES ASSUME NEW j \in Enclosing(inp, i)
               PROVE  j \in D <=> \E b \in o[R(j)].decls : b[1] = p
    OBVIOUS
  <2>1. o[R(j)].decls = RenderedFor(inp, Above(inp, j), j)
    BY <1>2, <1>3
  <2>2. (\E b \in RenderedFor(inp, Above(inp, j), j) : b[1] = p) <=>
          p \in Utilized(inp, j) /\ UriAt(inp.nodes, j, p) # Inherited(inp, Above(inp, j), p)
    BY DeclaredIn
  <2>3. j \in D <=>
          p \in Utilized(inp, j) /\ UriAt(inp.nodes, j, p) # Inherited(inp, Above(inp, j), p)
    BY DEF Renderers
  <2> HIDE DEF R, D
  <2> QED BY <2>1, <2>2, <2>3
<1>5. D \subseteq Enclosing(inp, i)
  BY DEF Renderers
<1>6. \A x, y \in Elements(inp) : R(x) \in Nat /\ (R(x) < R(y) <=> x < y) /\ (R(x) = R(y) <=> x = y)
  BY Places
<1> HIDE DEF R, D
<1>7. W = {R(j) : j \in D}
  <2>1. ASSUME NEW n \in W PROVE n \in {R(j) : j \in D}
    BY <1>1, <1>4 DEF DeclaringTags
  <2>2. ASSUME NEW j \in D PROVE R(j) \in W
    BY <1>1, <1>4, <1>5 DEF DeclaringTags
  <2> QED BY <2>1, <2>2
<1> HIDE DEF W
<1>8. CASE D = {}
  <2>1. W = {}
    BY <1>7, <1>8
  <2>2. UriRead(o, R(i), p) = NoUri
    BY <2>1 DEF UriRead, W
  <2>3. UriAt(inp.nodes, i, p) = NoUri
    BY <1>8, UriCarried DEF D
  <2> QED BY <2>2, <2>3 DEF R
<1>9. CASE D # {}
  <2>1. D \in SUBSET (1 .. Len(inp.nodes)) /\ D \in SUBSET Nat /\ Len(inp.nodes) \in Nat
    BY <1>2, <1>5, Shape
  <2>2. PICK x \in D : \A y \in D : y <= x
    BY <1>9, <2>1, Largest
  <2>3. Max(D) = x
    BY <2>1, <2>2, MaxIs
  <2>4. UriAt(inp.nodes, i, p) = UriAt(inp.nodes, x, p)
    BY <1>9, <2>3, UriCarried DEF D
  <2>5. x \in Elements(inp) /\ x \in Nat /\ R(x) \in W /\ W \in SUBSET Nat
    BY <1>2, <1>5, <1>6, <1>7
  <2>6. ASSUME NEW n \in W PROVE n <= R(x)
    <3>1. PICK y \in D : n = R(y)
      BY <1>7
    <3>2. y \in Elements(inp) /\ y \in Nat /\ y <= x
      BY <1>2, <1>5, <2>2
    <3>3. y < x \/ y = x
      BY <2>5, <3>2
    <3>4. R(y) < R(x) \/ R(y) = R(x)
      BY <1>6, <2>5, <3>2, <3>3
    <3> QED BY <1>6, <2>5, <3>1, <3>2, <3>4
  <2>7. Max(W) = R(x)
    BY <2>5, <2>6, MaxIs
  <2> DEFINE B == o[R(x)].decls
             b == CHOOSE b \in B : b[1] = p
  <2>8. b \in B /\ b[1] = p
    <3>1. \E e \in B : e[1] = p
      BY <1>4, <1>5, <2>2
    <3> QED BY <3>1
  <2>9. b[2] = UriAt(inp.nodes, x, p)
    <3>1. B = RenderedFor(inp, Above(inp, x), x)
      BY <1>3, <2>5
    <3> HIDE DEF B, b
    <3>2. b \in RenderedFor(inp, Above(inp, x), x)
      BY <2>8, <3>1
    <3>3. b[2] = UriAt(inp.nodes, x, b[1])
      BY <3>2, DeclaredUri
    <3> QED BY <2>8, <3>3
  <2>10. UriRead(o, R(i), p) = b[2]
    <3>1. W # {} /\ R(x) = Max(W)
      BY <2>5, <2>7
    <3>2. UriRead(o, R(i), p) = (CHOOSE e \in o[Max(W)].decls : e[1] = p)[2]
      BY <3>1 DEF UriRead, W
    <3> QED BY <3>1, <3>2
  <2> QED BY <2>4, <2>9, <2>10 DEF R
<1> QED BY <1>8, <1>9

(* The prefix an attribute is written with has its namespace. *)
UriMeant(inp, i, p) == IF p = "xml" THEN XmlUri ELSE UriAt(inp.nodes, i, p)

AttrUri(p, uri) == IF p = NoPrefix THEN NoUri ELSE uri

(* A guessed prefix too, unless it is guessed to be the default. *)
LEMMA AttributeMeans ==
  ASSUME NEW inp, IsInput(inp), ~ DefaultShadowsAttribute(inp),
         NEW i \in Elements(inp), NEW a \in inp.nodes[i].attrs
  PROVE  \E q : /\ Attribute(inp.nodes, i, a) = <<q, a.local>>
                /\ q = NoPrefix \/ q \in Utilized(inp, i)
                /\ AttrUri(q, UriMeant(inp, i, q)) = AttrUri(a.prefix, UriMeant(inp, i, a.prefix))
<1> DEFINE m == inp.nodes
           P == AttrPrefix(m, i, a)
           q == IF P = {} THEN NoPrefix ELSE CHOOSE p \in P : TRUE
<1>1. i \in Nodes(m) /\ i \in Subtree(m, inp.apex)
  BY WrittenNodes
<1>2. Attribute(m, i, a) = <<q, a.local>>
  BY DEF Attribute
<1>3. P \subseteq Utilized(inp, i)
  BY DEF Utilized
<1>4. \A p : P = {p} => q = p
  OBVIOUS
<1>5. P = {} => q = NoPrefix
  OBVIOUS
<1> HIDE DEF P, q
<1>6. CASE a.prefix = NoPrefix
  <2>1. q = NoPrefix
    BY <1>1, <1>5, <1>6, AttrPrefixIn DEF P
  <2> QED BY <1>2, <1>6, <2>1
<1>7. CASE a.prefix = "xml"
  <2>1. P = {"xml"}
    BY <1>1, <1>7, AttrPrefixIn DEF P
  <2>2. q = "xml" /\ q \in Utilized(inp, i)
    BY <1>3, <1>4, <2>1
  <2> QED BY <1>2, <1>7, <2>2
<1>8. CASE a.prefix # NoPrefix /\ a.prefix # "xml"
  <2>1. /\ AttrNamespace(m, i, a) = lookup_namespace_uri(m, i, a.prefix)
        /\ \E d \in Namespaces(m, i) :
             P = {Declaration(m, d)[1]} \ {NoPrefix} /\ AttrNamespace(m, i, a) = {Declaration(m, d)[2]}
    BY <1>1, <1>8, AttrPrefixIn DEF P
  <2>2. PICK d \in Namespaces(m, i) :
          P = {Declaration(m, d)[1]} \ {NoPrefix} /\ AttrNamespace(m, i, a) = {Declaration(m, d)[2]}
    BY <2>1
  <2> DEFINE dp == Declaration(m, d)[1]
             du == Declaration(m, d)[2]
  <2>3. du \in lookup_namespace_uri(m, i, dp)
    BY DEF lookup_namespace_uri
  <2>4. du = UriAt(m, i, dp)
    BY <2>3, UriIs
  <2>5. du = UriAt(m, i, a.prefix)
    <3>1. du \in lookup_namespace_uri(m, i, a.prefix)
      BY <2>1, <2>2
    <3> QED BY <3>1, UriIs
  <2>6. dp # "xml"
    <3>1. d[1] \in Nodes(m) /\ d[2] \in DOMAIN m[d[1]].decls
      BY ScopeTyped
    <3> QED BY <3>1 DEF IsInput, Declaration
  <2> HIDE DEF dp, du
  <2>7. dp # NoPrefix
    <3> SUFFICES ASSUME dp = NoPrefix PROVE FALSE
      OBVIOUS
    <3>1. AttrNamespace(m, i, a) = {UriAt(m, i, NoPrefix)}
      BY <2>2, <2>4 DEF du
    <3> QED BY <1>1, <1>8, <3>1 DEF DefaultShadowsAttribute
  <2>8. P = {dp}
    BY <2>2, <2>7 DEF dp
  <2>9. q = dp /\ q \in Utilized(inp, i)
    BY <1>3, <1>4, <2>8
  <2>10. UriMeant(inp, i, q) = du /\ UriMeant(inp, i, a.prefix) = du
    BY <1>8, <2>4, <2>5, <2>6, <2>9 DEF UriMeant
  <2> QED BY <1>2, <1>8, <2>7, <2>9, <2>10 DEF AttrUri
<1> QED BY <1>6, <1>7, <1>8

(* The name an element and its attributes were meant to have. *)
Meant(inp, i) ==
  [element |-> <<UriMeant(inp, i, inp.nodes[i].prefix), inp.nodes[i].local>>,
   attrs |-> {<<AttrUri(a.prefix, UriMeant(inp, i, a.prefix)), a.local>> :
                a \in inp.nodes[i].attrs}]

LEMMA NamesMeantIs ==
  ASSUME NEW inp
  PROVE  NamesMeant(inp) = InOrder([t \in Elements(inp) \X {0} |-> Meant(inp, t[1])])
BY DEF NamesMeant, Meant, UriMeant, AttrUri

(* A start tag read back is its element. *)
LEMMA TagMeans ==
  ASSUME NEW inp, IsInput(inp), ~ DefaultShadowsAttribute(inp),
         NEW o, o = InOrder(Walked(inp)), NEW i \in Elements(inp)
  PROVE  ReadTag(o, StartAt(inp, i)) = Meant(inp, i)
<1> DEFINE m == inp.nodes
           n == StartAt(inp, i)
           Read(p) == UriRead(o, n, p)
<1>1. o[n] = StartTag(m, i, RenderedFor(inp, Above(inp, i), i))
  BY WalkedTokens
<1>2. /\ o[n].name = <<m[i].prefix, m[i].local>>
      /\ o[n].attrs = {Attribute(m, i, a) : a \in m[i].attrs}
  BY <1>1 DEF StartTag, Token, Name
<1>3. ASSUME NEW p \in Utilized(inp, i) PROVE Read(p) = UriMeant(inp, i, p)
  <2>1. CASE p = "xml"
    BY <2>1 DEF UriRead, UriMeant
  <2>2. CASE p # "xml"
    BY <2>2, UriReadIs DEF UriMeant
  <2> QED BY <2>1, <2>2
<1>4. m[i].prefix \in Utilized(inp, i)
  BY DEF Utilized
<1> DEFINE F(x) == <<AttrUri(x[1], Read(x[1])), x[2]>>
           G(a) == <<AttrUri(a.prefix, UriMeant(inp, i, a.prefix)), a.local>>
<1>5. ReadTag(o, n) = [element |-> <<Read(o[n].name[1]), o[n].name[2]>>,
                       attrs |-> {F(x) : x \in o[n].attrs}]
  BY DEF ReadTag, AttrUri
<1> HIDE DEF n, Read
<1>6. ASSUME NEW a \in m[i].attrs PROVE F(Attribute(m, i, a)) = G(a)
  <2>1. PICK q : /\ Attribute(m, i, a) = <<q, a.local>>
                 /\ q = NoPrefix \/ q \in Utilized(inp, i)
                 /\ AttrUri(q, UriMeant(inp, i, q)) = AttrUri(a.prefix, UriMeant(inp, i, a.prefix))
    BY AttributeMeans
  <2>2. AttrUri(q, Read(q)) = AttrUri(q, UriMeant(inp, i, q))
    BY <1>3, <2>1 DEF AttrUri
  <2> QED BY <2>1, <2>2
<1> HIDE DEF F, G
<1>7. {F(x) : x \in o[n].attrs} = {G(a) : a \in m[i].attrs}
  BY <1>2, <1>6
<1>8. <<Read(o[n].name[1]), o[n].name[2]>> = <<UriMeant(inp, i, m[i].prefix), m[i].local>>
  BY <1>2, <1>3, <1>4
<1>9. ReadTag(o, n) = Meant(inp, i)
  BY <1>5, <1>7, <1>8 DEF Meant, G
<1> QED BY <1>9 DEF n

(* So is the output as a whole. *)
LEMMA NamesSame ==
  ASSUME NEW inp, IsInput(inp), ~ DefaultShadowsAttribute(inp),
         NEW o, o = InOrder(Walked(inp))
  PROVE  NamesRead(o) = NamesMeant(inp)
<1> DEFINE D == Elements(inp)
           A == D \X {0}
           B == TokensAt(o, "start") \X {0}
           f == [t \in A |-> Meant(inp, t[1])]
           g == [t \in B |-> ReadTag(o, t[1])]
           h == [t \in A |-> <<StartAt(inp, t[1]), 0>>]
<1>1. NamesMeant(inp) = InOrder(f) /\ NamesRead(o) = InOrder(g)
  BY NamesMeantIs, NamesReadIs
<1>2. DOMAIN f = A /\ DOMAIN g = B
  OBVIOUS
<1>3. TokensAt(o, "start") = {StartAt(inp, i) : i \in D} /\ IsFiniteSet(TokensAt(o, "start"))
  <2>1. IsFiniteSet(DOMAIN o) /\ TokensAt(o, "start") = {StartAt(inp, i) : i \in D}
    BY WalkedTokens
  <2>2. TokensAt(o, "start") \in SUBSET DOMAIN o
    BY DEF TokensAt
  <2> QED BY <2>1, <2>2, FS_Subset
<1>4. \A x, y \in D : /\ StartAt(inp, x) \in Nat
                      /\ StartAt(inp, x) < StartAt(inp, y) <=> x < y
  BY Places
<1>5. D \subseteq Nat /\ IsFiniteSet(D)
  <2>1. \A i \in D : i \in Nodes(inp.nodes) /\ i \in Nat
    BY WrittenNodes
  <2>2. IsFiniteSet(1 .. Len(inp.nodes))
    BY Shape, FS_Interval
  <2>3. D \in SUBSET (1 .. Len(inp.nodes))
    BY <2>1 DEF Nodes
  <2> HIDE DEF D
  <2> QED BY <2>1, <2>2, <2>3, FS_Subset
<1> HIDE DEF D
<1>6. IsPairs(A)
  <2>1. IsFiniteSet(A)
    BY <1>5, FS_Singleton, FS_Product
  <2>2. A \subseteq Nat \X Nat
    <3>1. D \subseteq Nat /\ 0 \in Nat
      BY <1>5
    <3> QED BY <3>1
  <2> HIDE DEF A
  <2> QED BY <2>1, <2>2 DEF IsPairs
<1>7. IsPairs(B)
  <2>1. IsFiniteSet(B)
    BY <1>3, FS_Singleton, FS_Product
  <2>2. B \subseteq Nat \X Nat
    BY <1>3, <1>4
  <2> HIDE DEF B
  <2> QED BY <2>1, <2>2 DEF IsPairs
<1>8. ASSUME NEW t \in A
      PROVE  /\ t[1] \in D /\ t[1] \in Nat /\ t[2] = 0
             /\ h[t] = <<StartAt(inp, t[1]), 0>> /\ h[t] \in B
  BY <1>3, <1>5
<1>9. ASSUME NEW u \in B PROVE \E t \in A : h[t] = u
  <2>1. PICK x \in D : u = <<StartAt(inp, x), 0>>
    BY <1>3
  <2>2. <<x, 0>> \in A /\ h[<<x, 0>>] = u
    BY <2>1
  <2> QED BY <2>2
<1>10. Carries(h, A, B)
  <2>1. h \in [A -> B]
    BY <1>8
  <2>2. ASSUME NEW s \in A, NEW t \in A, Precedes(s, t) PROVE Precedes(h[s], h[t])
    <3>1. s[1] < t[1]
      BY <1>8, <2>2 DEF Precedes
    <3>2. StartAt(inp, s[1]) < StartAt(inp, t[1])
      BY <1>4, <1>8, <3>1
    <3> HIDE DEF h, A
    <3> QED BY <1>8, <3>2 DEF Precedes
  <2> HIDE DEF h, A, B
  <2> QED BY <1>9, <2>1, <2>2 DEF Carries
<1>11. ASSUME NEW t \in A PROVE g[h[t]] = f[t]
  <2>1. g[h[t]] = ReadTag(o, StartAt(inp, t[1])) /\ f[t] = Meant(inp, t[1])
    BY <1>8
  <2> QED BY <1>8, <2>1, TagMeans DEF D
<1> HIDE DEF f, g, h, A, B
<1>12. InOrder(f) = InOrder(g)
  BY <1>2, <1>6, <1>7, <1>10, <1>11, InOrderCarried
<1> QED BY <1>1, <1>12

-----------------------------------------------------------------------------
(* The inductive invariant: at every depth of the walk, the declarations    *)
(* pushed up to that depth agree with the elements open up to it            *)
(* (c14n.rs:113-197).                                                       *)
THEOREM Invariant == Spec => []IInv
<1>1. Init => IInv
  BY InitIInv
<1>2. IInv /\ [Next]_vars => IInv'
  BY NextIInv
<1> QED BY <1>1, <1>2, PTL DEF Spec

(* Whatever the document, the open elements are nested, base_len is within  *)
(* the stack and grows with depth, no start tag declares a prefix twice,    *)
(* and the stack is empty when the walk ends (c14n.rs:113-166, 197).        *)
THEOREM TypeCorrect == Spec => []TypeOK
<1>1. IInv => TypeOK
  <2> SUFFICES ASSUME IInv PROVE TypeOK
    OBVIOUS
  <2>1. /\ Frames(input, open, rendered) /\ Walk(input, at, open)
        /\ open \in Seq([node : Nodes(input.nodes), base_len : Nat])
        /\ Len(open) \in Nat /\ DOMAIN open = 1 .. Len(open)
        /\ IsSeq(rendered) /\ Len(rendered) \in Nat
    BY SeqFacts, LenProperties DEF IInv, Frames
  <2>2. ASSUME NEW n \in DOMAIN open
        PROVE  LET base == open[n].base_len
                   top == IF n = Len(open) THEN Len(rendered) ELSE open[n + 1].base_len
               IN  /\ 0 <= base /\ base <= top
                   /\ \A j, k \in base + 1 .. top :
                        rendered[j][1] = rendered[k][1] => j = k
                   /\ n > 1 => open[n].node \in Subtree(input.nodes, open[n - 1].node)
    <3>1. n \in 1 .. Len(open) /\ n \in 0 .. Len(open) /\ n - 1 \in 0 .. n
          /\ n - 1 # Len(open) /\ (n - 1) + 1 = n
      BY <2>1
    <3>2. open[n].base_len = Top(open, rendered, n - 1)
      BY <3>1 DEF Top
    <3>3. Top(open, rendered, n - 1) <= Top(open, rendered, n)
          /\ Top(open, rendered, n - 1) \in 0 .. Len(rendered)
      BY <2>1, <3>1 DEF Frames
    <3>4. DeclaresOnce(rendered, open[n].base_len, Top(open, rendered, n))
      BY <2>1, <3>1 DEF Frames
    <3>5. n > 1 => open[n].node \in Subtree(input.nodes, open[n - 1].node)
      BY <2>1, <3>1 DEF Walk
    <3>6. 0 <= open[n].base_len /\ open[n].base_len <= Top(open, rendered, n)
      BY <3>2, <3>3
    <3> QED BY <3>4, <3>5, <3>6 DEF Top, DeclaresOnce
  <2>3. at \in input.apex .. input.apex + input.nodes[input.apex].size
    BY <2>1 DEF Walk
  <2>4. open = <<>> => rendered = <<>>
    <3>1. open = <<>> => Len(open) = 0
      OBVIOUS
    <3>2. Len(open) = 0 => Len(rendered) = 0
      BY <2>1 DEF Frames, Top
    <3> QED BY <2>1, <3>1, <3>2, SeqFacts
  <2> QED BY <2>2, <2>3, <2>4 DEF TypeOK
<1> QED BY <1>1, Invariant, PTL

(* Whatever was opened, closed and left out on the way, a utilized prefix   *)
(* is bound in the output as the source binds it, and nothing else is       *)
(* bound (c14n.rs:113-166, 197, 218-227).                                   *)
THEOREM InForce == Spec => []BindingsInForce
<1>1. IInv => BindingsInForce
  <2> SUFFICES ASSUME IInv PROVE BindingsInForce
    OBVIOUS
  <2>1. /\ Frames(input, open, rendered) /\ IsSeq(rendered)
        /\ Len(open) \in Nat /\ DOMAIN open = 1 .. Len(open)
        /\ DOMAIN rendered = 1 .. Len(rendered)
    BY SeqFacts, LenProperties DEF IInv, Frames
  <2>2. AgreesUpTo(input, open, Len(open), rendered, Len(rendered))
    <3>1. Len(open) \in 0 .. Len(open) /\ Top(open, rendered, Len(open)) = Len(rendered)
      BY <2>1 DEF Top
    <3> QED BY <2>1, <3>1 DEF Frames
  <2>3. \A p : current_binding(rendered, p) = Bound(rendered, Len(rendered), p)
    BY <2>1, CurrentBinding
  <2> QED BY <2>1, <2>2, <2>3 DEF AgreesUpTo, BindingsInForce, Source, Binds
<1> QED BY <1>1, Invariant, PTL

(* The invariant of the output: it consists of the tags passed so far, in   *)
(* document order, and each start tag declares what the elements around it  *)
(* make necessary, whatever was closed or left out before (c14n.rs:79-198). *)
THEOREM WalkInvariant == Spec => []WInv
<1> QED BY InitWInv, NextWInv, PTL DEF Spec

(* C14n implements the safety part of Verdict: the walk of any input ends,  *)
(* if it ends, with the octets of the definition, when no prefix is a       *)
(* guess, and nothing is written afterwards (c14n.rs:34-44, 79-198).        *)
THEOREM Implements == Spec => Abstract!Safety
<1>1. Init => Abstract!Init
  <2> SUFFICES ASSUME Init PROVE ~ done
    <3>1. ~ done => done = FALSE
      BY DEF done
    <3>2. ~ done => (IF done /\ Unambiguous(input) THEN {out} ELSE {}) = {}
      OBVIOUS
    <3> QED BY <3>1, <3>2 DEF Abstract!Init
  <2>1. IsInput(input) /\ at = input.apex /\ open = <<>>
    BY InputsAssumption DEF Init
  <2>2. input.apex \in Subtree(input.nodes, input.apex)
    BY <2>1, Shape
  <2> QED BY <2>1, <2>2 DEF done, Within
<1>2. WInv => OutRight
  BY WalkRight
<1>3. OutRight' /\ [Next]_vars => [Abstract!Next]_(Abstract!vars)
  BY JudgedOnce
<1> QED BY <1>1, <1>2, <1>3, WalkInvariant, PTL DEF Spec, Abstract!Safety

(* Whatever surrounds the subtree in the document and whatever else it has  *)
(* in scope, the octets are those of the subtree as a document of its own   *)
(* that declares just what is used (c14n.rs:6-8, 15-20).                    *)
THEOREM Lifted == Spec => []LiftInvariance
<1>1. WInv => LiftInvariance
  <2> SUFFICES ASSUME WInv, done, Unambiguous(input) PROVE out = Octets(Standalone(input))
    BY DEF LiftInvariance
  <2>1. out = Octets(input)
    BY WalkRight DEF OutRight
  <2>2. IsInput(input)
    BY InputsAssumption DEF WInv, IInv
  <2> QED BY <2>1, <2>2, StandaloneOctets
<1> QED BY <1>1, WalkInvariant, PTL

(* Read back from the octets alone, every element and attribute kept has    *)
(* the namespace it has in the document, also where the prefix of an        *)
(* attribute was guessed (c14n.rs:95-104, 113-142).                         *)
THEOREM Names == Spec => []NamesSurvive
<1>1. WInv => NamesSurvive
  <2> SUFFICES ASSUME WInv, done, PrefixesStay(input), ~ DefaultShadowsAttribute(input)
               PROVE  NamesRead(out) = NamesMeant(input)
    BY DEF NamesSurvive
  <2>1. IsInput(input) /\ out = InOrder(Walked(input))
    BY DoneWalked
  <2> QED BY <2>1, NamesSame
<1> QED BY <1>1, WalkInvariant, PTL
=============================================================================
