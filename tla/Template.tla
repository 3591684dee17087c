------------------------------ MODULE Template ------------------------------
(***************************************************************************)
(* JSON values and the templates of HTTP tools: httpbinding/template.go,   *)
(* and the validation of templates in config/http.go.                      *)
(*                                                                         *)
(* Both are trees, and a tree is a function from positions to nodes: <<>>  *)
(* is the root, and p \o <<k>> is what p has under the key k.  The code    *)
(* walks a tree from the root, one level deeper with each call, so that    *)
(* the depth of a call is the length of its position.                      *)
(*                                                                         *)
(* A template's leaves are literals, $arg markers (with an optional        *)
(* $default, itself a template, and $omit_if_missing) and $format strings, *)
(* reduced to the set of names that they interpolate.  Maps have no order, *)
(* so a template in which several things are wrong may report any of them: *)
(* Faults is the set of what it may report.                                *)
(***************************************************************************)
EXTENDS Integers, Sequences

CONSTANT MaxTemplateDepth  \* 64 in both packages

ASSUME TemplateAssumption == MaxTemplateDepth \in Nat

-----------------------------------------------------------------------------
(* Trees. *)

\* A tree of its root and what the keys of `of' stand for.
Tree(node, of) ==
  [p \in {<<>>} \cup UNION {{<<k>> \o q : q \in DOMAIN of[k]} : k \in DOMAIN of} |->
     IF p = <<>> THEN node ELSE of[Head(p)][Tail(p)]]

Leaf(node) == [p \in {<<>>} |-> node]

Children(t, p) == {q \in DOMAIN t : Len(q) = Len(p) + 1 /\ SubSeq(q, 1, Len(p)) = p}

\* Both packages stop below this.
DepthOK(p) == Len(p) <= MaxTemplateDepth

-----------------------------------------------------------------------------
(* Values.  Numbers count halves, so that there are fractions. *)

Null == Leaf([kind |-> "null"])
Bool == Leaf([kind |-> "boolean"])
Text(x) == Leaf([kind |-> "string", text |-> x])
Number(h) == Leaf([kind |-> "number", half |-> h])
Array(of) == Tree([kind |-> "array"], of)
Object(of) == Tree([kind |-> "object"], of)

Kind(v) == v[<<>>].kind

\* scalarString accepts what stands at p.
Scalar(v, p) == v[p].kind \in {"string", "boolean", "number"}

\* cloneJSONValue refuses v.
TooDeep(v, depth) == \E p \in DOMAIN v : depth + Len(p) > MaxTemplateDepth

-----------------------------------------------------------------------------
(* Templates.  `default' holds the $default, or nothing. *)

Literal(v) == Leaf([tag |-> "literal", value |-> v])
Arg(name, default, omit) ==
  Tree([tag |-> "arg", name |-> name, omit |-> omit],
       [k \in {"$default" : d \in default} |-> CHOOSE d \in default : TRUE])
Format(names) == Leaf([tag |-> "format", names |-> names])
Map(of) == Tree([tag |-> "map"], of)
List(of) == Tree([tag |-> "list"], of)

HasDefault(t, p) == p \o <<"$default">> \in DOMAIN t

\* An input that is not given has a value all the same, or the call is refused.
AlwaysPresent(input) == input.required \/ input.default # Null

\* Fault: an optional input needs neither $default nor $omit_if_missing.
TemplateOKAnyOptional(t, inputs) ==
  \A p \in DOMAIN t :
    /\ DepthOK(p)
    /\ t[p].tag = "arg" => t[p].name \in DOMAIN inputs
    /\ t[p].tag = "format" =>
         \A n \in t[p].names : n \in DOMAIN inputs /\ AlwaysPresent(inputs[n])

\* validateHTTPTemplate accepts t.
TemplateOK(t, inputs) ==
  \A p \in DOMAIN t :
    /\ DepthOK(p)
    /\ t[p].tag = "arg" =>
         /\ t[p].name \in DOMAIN inputs
         /\ AlwaysPresent(inputs[t[p].name]) \/ HasDefault(t, p) \/ t[p].omit
    /\ t[p].tag = "format" =>
         \A n \in t[p].names : n \in DOMAIN inputs /\ AlwaysPresent(inputs[n])

-----------------------------------------------------------------------------
(* renderTemplate. *)

\* A marker whose argument is given is replaced by it; its $default is not looked at.
Supplied(node, args) == node.tag = "arg" /\ node.name \in DOMAIN args

\* The positions that the renderer comes to.
Visited(t, args) ==
  {p \in DOMAIN t : \A i \in 0..Len(p) - 1 : ~Supplied(t[SubSeq(p, 1, i)], args)}

\* What may be reported of the node at p.
FaultsAt(t, args, p) ==
  LET node == t[p]
      named == IF node.tag = "format" THEN node.names ELSE {}
  IN  IF ~DepthOK(p) THEN {"deep"}
      ELSE {"missing" : x \in {n \in {p} : node.tag = "arg" /\ ~Supplied(node, args)
                                             /\ ~HasDefault(t, p) /\ ~node.omit}}
           \cup {"argument too deep" : x \in {n \in {p} :
                    Supplied(node, args) /\ TooDeep(args[node.name], Len(p) + 1)}}
           \cup {"missing" : n \in named \ DOMAIN args}
           \cup {"not a scalar" : n \in {m \in named \cap DOMAIN args :
                                           Kind(args[m]) \in {"object", "array"}}}

\* What may be reported when t is rendered with args; nothing when it can be rendered.
Faults(t, args) == UNION {FaultsAt(t, args, p) : p \in Visited(t, args)}

\* A marker that is not supplied gives way to its $default, and that to its own: where
\* what stands for p is.
Standing(t, args, p) ==
  LET chain == {q \in DOMAIN t :
                  /\ Len(q) >= Len(p) /\ SubSeq(q, 1, Len(p)) = p
                  /\ \A i \in Len(p)..Len(q) - 1 :
                       LET node == t[SubSeq(q, 1, i)]
                       IN  node.tag = "arg" /\ ~Supplied(node, args)}
  IN  CHOOSE q \in chain : \A r \in chain : Len(r) <= Len(q)

\* What is at p renders to something, which a key or an item of its parent then gets.
Present(t, args, p) ==
  LET node == t[Standing(t, args, p)]
  IN  node.tag = "arg" => Supplied(node, args) \/ ~node.omit

\* The value of what is at p, present and without a fault, but for what is in it.
Shallow(t, args, p) ==
  LET node == t[Standing(t, args, p)]
  IN  CASE node.tag = "literal" -> node.value
        [] node.tag = "arg" -> args[node.name]
        [] node.tag = "format" -> Text("formatted")
        [] node.tag = "map" -> Leaf([kind |-> "object"])
        [] node.tag = "list" -> Leaf([kind |-> "array"])

\* The value of t, with its items if it is a list; the fields of a map are not looked at
\* any more.
Rendered(t, args) ==
  LET root == Standing(t, args, <<>>)
      items == {p \in Children(t, root) : Present(t, args, p)}
  IN  IF t[root].tag # "list" THEN Shallow(t, args, root)
      ELSE Array([k \in {p[Len(p)] : p \in items} |-> Shallow(t, args, Append(root, k))])

=============================================================================
