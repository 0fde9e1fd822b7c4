------------------------------- MODULE Compiling -------------------------------
(***************************************************************************)
(* A layout's source into a blueprint (Layout/LayoutCompiler.cpp): the tree   *)
(* of elements the layout's function builds, its components expanded, walked *)
(* breadth first, every node given the path of local names as its id, every  *)
(* function prop parsed as a binding.                                        *)
(*                                                                         *)
(* What the script engine evaluates is given: a source is [scope, signals,   *)
(* tree], the tree is made by Element, and a function is <<"function", its   *)
(* tokens>>.                                                                 *)
(***************************************************************************)
EXTENDS Blueprints, Expressions

CONSTANTS
  Components,        \* the functions the source uses as element names
  Made(_, _, _)      \* what one returns, for its name, its props and its children

-----------------------------------------------------------------------------
(* The tree                                                                *)

RECURSIVE Flattened(_), Expanded(_, _), Walked(_)

\* flattenInto: arrays of children are spliced, what is nothing is dropped.
Flattened(args) ==
  FoldLeft(LAMBDA s, arg : s \o CASE arg[1] = "array"   -> Flattened(arg[2])
                                  [] arg[1] = "nothing" -> <<>>
                                  [] OTHER              -> <<arg[2]>>,
           <<>>, args)

\* js_h.  props are <<name, value>>; an argument is an element, an array or nothing.
Element(type, props, args) ==
  <<"element", [type |-> type, props |-> props, children |-> Flattened(args)]>>

PropNamed(props, key) ==
  LET found == SelectSeq(props, LAMBDA p : p[1] = key)
  IN IF found = <<>> THEN <<"none">> ELSE found[1][2]

HasProp(props, key) == PropNamed(props, key)[1] # "none"

\* JS_SetPropertyStr: in the place of the property of that name, or after the rest.
WithProp(props, key, value) ==
  IF HasProp(props, key)
    THEN [i \in DOMAIN props |-> IF props[i][1] = key THEN <<key, value>> ELSE props[i]]
    ELSE Append(props, <<key, value>>)

MaxNesting == 64

\* expandComponents: what the component returns stands in its place, under the id
\* it was used with.  A node with no type is one that could not be expanded.
Expanded(node, depth) ==
  IF node.type \notin Components THEN node
  ELSE IF depth = MaxNesting THEN [node EXCEPT !.type = ""]
  ELSE LET made == Made(node.type, node.props, node.children)
           id   == PropNamed(node.props, "id")
       IN Expanded(IF id[1] = "text" THEN [made EXCEPT !.props = WithProp(@, "id", id)]
                   ELSE made,
                   depth + 1)

-----------------------------------------------------------------------------
(* Signals a layout declares for itself                                    *)

\* collectSignals: the name is the file's own and the authored one, unless global.
ScopedName(source, s) == IF s.global THEN s.name ELSE source.scope \o "/" \o s.name

Storable(value) == value[1] \in {"bool", "number", "text"}

\* The names a binding writes one way and the table another.
DeclaredNames(source) ==
  [n \in {s.name : s \in {t \in ToSet(source.signals) : ~t.global}} |->
     source.scope \o "/" \o n]

-----------------------------------------------------------------------------
(* The walk                                                                *)

Capitals == {"A", "B", "C", "D", "H", "S"}

NamesAnEvent(key) ==
  Len(key) > 2 /\ SubSeq(key, 1, 2) = "on" /\ SubSeq(key, 3, 3) \in Capitals

\* A name the layout declared is stored scoped; one with a mark is left alone.
Scoped(name, declared) ==
  IF SubSeq(name, 1, 1) \in {"@", "#"} \/ name \notin DOMAIN declared
    THEN name ELSE declared[name]

WithScopes(program, declared) ==
  [program EXCEPT !.names = [i \in DOMAIN @ |-> Scoped(@[i], declared)]]

\* readBinding, of what parsing it gave.
WithBinding(c, n, key, parsed) ==
  IF ~parsed.ok THEN [c EXCEPT !.bad = TRUE]
  ELSE [c EXCEPT !.b = AddBinding(@, n, key, IF NamesAnEvent(key) THEN "event" ELSE "value",
                                  WithScopes(parsed.program, c.declared))]

ReadBinding(c, n, key, src, rowParam) ==
  WithBinding(c, n, key, ParseBinding(src, NamesAnEvent(key), rowParam))

\* readProps, for one prop.
ReadProp(c, n, type, rowParam, p) ==
  IF c.bad \/ p[1] \in {"id", "children"} \/ (p[1] = "row" /\ type = "list") THEN c
  ELSE CASE Storable(p[2])         -> [c EXCEPT !.b = AddProp(c.b, n, p[1], p[2])]
         [] p[2][1] = "function"   -> ReadBinding(c, n, p[1], p[2][2], rowParam)
         [] OTHER                  -> [c EXCEPT !.bad = TRUE]

\* The children's own numbers are counted per parent and local name.
AskedBefore(c, parent, local) == Cardinality({i \in DOMAIN c.locals : c.locals[i] = <<parent, local>>})

\* What a node is called under its parent: the id it was given, or its type.
LocalName(node) ==
  LET id == PropNamed(node.props, "id")
  IN IF id[1] = "text" /\ id[2] # "" THEN id[2] ELSE node.type

\* The id stored: the parent's path and the local name, numbered when taken.
PathOf(c, parent, local) ==
  LET seen == AskedBefore(c, parent, local)
      name == IF seen > 0 THEN local \o "#" \o ToString(seen + 1) ELSE local
  IN IF parent = NoParent THEN name ELSE c.paths[parent] \o "/" \o name

\* The first node carries the layout's own signals as props.
WithSignals(c, n, source) ==
  IF n # 1 THEN c
  ELSE [c EXCEPT !.b = FoldLeft(LAMBDA b, s :
          AddProp(b, 1, "!signal " \o ScopedName(source, s), s.value), c.b, source.signals)]

\* The template of a list's row, or what is none.
RowTemplate(node) == IF node.type = "list" THEN PropNamed(node.props, "row") ELSE <<"none">>

\* The node under its name, with its props.
Named(c, node, parent, row, local, path) ==
  [c EXCEPT !.b = AddNode(@, node.type, path, parent),
            !.paths = Append(@, path),
            !.locals = Append(@, <<parent, local>>),
            !.bad = row[1] = "template" /\ row[2] = ""]

ReadProps(c, n, node, rowParam, source) ==
  FoldLeft(LAMBDA d, p : ReadProp(d, n, node.type, rowParam, p),
           WithSignals(c, n, source), node.props)

\* Its row template and then its children are queued.
Queued(c, n, node, rowParam, row) ==
  LET under(child, param) == [node |-> child, parent |-> n, rowParam |-> param]
  IN [c EXCEPT !.queue = Tail(@)
        \o (IF row[1] = "template" THEN <<under(row[3][2], row[2])>> ELSE <<>>)
        \o [i \in DOMAIN node.children |-> under(node.children[i], rowParam)]]

\* One turn of the loop in flatten: the next pending node becomes the next node
\* of the blueprint.
Flattening(c, pending, node, n) ==
  LET local == LocalName(node)
      row   == RowTemplate(node)
  IN IF node.type = "" THEN [c EXCEPT !.bad = TRUE]
     ELSE Queued(ReadProps(Named(c, node, pending.parent, row, local,
                                 PathOf(c, pending.parent, local)),
                           n, node, pending.rowParam, c.source),
                 n, node, pending.rowParam, row)

Step(c) == Flattening(c, c.queue[1], Expanded(c.queue[1].node, 0), Len(c.paths) + 1)

\* flatten, until nothing is pending or something was refused.
Walked(c) ==
  IF c.bad \/ c.queue = <<>> THEN c ELSE Walked(Step(c))

ChildrenOf(c, n) == {i \in DOMAIN c.locals : c.locals[i][1] = n}

\* The children of every node are next to one another.
Ranged(c) ==
  LET first(n) == CHOOSE i \in ChildrenOf(c, n) : \A j \in ChildrenOf(c, n) : i <= j
  IN FoldLeft(LAMBDA b, n : IF ChildrenOf(c, n) = {} THEN b
                            ELSE SetChildRange(b, n, first(n), Cardinality(ChildrenOf(c, n))),
              c.b, [i \in DOMAIN c.paths |-> i])

FileOf(c) ==
  IF c.bad \/ \E s \in ToSet(c.source.signals) : ~Storable(s.value)
    THEN [ok |-> FALSE]
    ELSE [ok |-> TRUE, file |-> Finish(Ranged(c))]

\* compileFile: a blueprint, or the error the compiler shows.
Compiled(source) ==
  FileOf(Walked([b |-> EmptyBuilder, source |-> source, bad |-> FALSE,
                 queue |-> <<[node |-> source.tree[2], parent |-> NoParent, rowParam |-> ""]>>,
                 declared |-> DeclaredNames(source), paths |-> <<>>, locals |-> <<>>]))
=============================================================================
