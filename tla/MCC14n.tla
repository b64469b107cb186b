------------------------------- MODULE MCC14n -------------------------------
(* One shape, with an ancestor and a following sibling outside the subtree, *)
(* an element with a child, and a later sibling; every way of declaring and *)
(* using the default namespace and one prefix along it.                     *)
EXTENDS C14n

Element(local, size, use, attrs) ==
  [kind |-> "element", size |-> size, prefix |-> use[1], local |-> local,
   decls |-> use[2], attrs |-> attrs]

Other(kind) ==
  [kind |-> kind, size |-> 1, prefix |-> "", local |-> kind, decls |-> <<>>,
   attrs |-> {}]

Plain == {<<"", <<>>>>, <<"p", <<>>>>}
Redeclared == Plain \cup {<<"", <<<<"", "v">>>>>>, <<"p", <<<<"p", "v">>>>>>}
AnyUse == Redeclared \cup {<<"", <<<<"", "">>>>>>, <<"p", <<<<"p", "u">>>>>>}

Contexts ==
  {<<<<"p", "u">>>>,
   <<<<"", "v">>, <<"p", "u">>>>,
   <<<<"p", "u">>, <<"q", "u">>>>,
   <<<<"", "u">>, <<"p", "u">>, <<"q", "w">>>>}

Attr(prefix, local) == [prefix |-> prefix, local |-> local]

(* wrapper > apex > (child > grandchild text) comment pi sibling, after *)
Tree(context, apex, child, grandchild, sibling, childAttrs, siblingAttrs) ==
  <<Element("wrapper", 9, <<"p", context>>, {}),
    Element("apex", 7, apex, {}),
    Element("child", 3, child, childAttrs),
    Element("grandchild", 1, grandchild, {}),
    Other("text"),
    Other("comment"),
    Other("pi"),
    Element("sibling", 1, sibling, siblingAttrs),
    Element("after", 1, <<"p", <<>>>>, {})>>

Declared(context, prefix) == \E k \in DOMAIN context : context[k][1] = prefix

Trees ==
  {Tree(context, apex, child, grandchild, sibling, attrs[1], attrs[2]) :
     context \in Contexts, apex \in Redeclared, child \in AnyUse,
     grandchild \in AnyUse, sibling \in Plain,
     attrs \in {<<{}, {}>>,
               <<{Attr("p", "a"), Attr("", "a")}, {Attr("q", "a"), Attr("xml", "lang")}>>}}

(* What the engine asks for: a signed element with or without a Signature   *)
(* to leave out, or SignedInfo with a PrefixList.                           *)
Asked == {<<{}, {}>>, <<{4}, {}>>, <<{}, {"", "p"}>>}

MCInputs ==
  {[nodes |-> nodes, apex |-> 2, omit |-> ask[1], incl |-> ask[2]] :
     nodes \in {t \in Trees : t[8].attrs # {} => Declared(t[1].decls, "q")},
     ask \in Asked}
=============================================================================
