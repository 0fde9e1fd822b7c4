-------------------------------- MODULE Loading --------------------------------
(***************************************************************************)
(* A blueprint made into widgets and what drives them                       *)
(* (Layout/LayoutLoader.cpp), and the bindings run afterwards               *)
(* (Layout/Bindings.cpp, ListView::rebind).                                 *)
(*                                                                         *)
(* A world is what the loader resolves names against: the signals' values,   *)
(* the commands the application declared, and each table's columns.  An      *)
(* instance is [widgets, binds, watches].  A widget made for a list's row     *)
(* names the list and its slot, counted from 1.                              *)
(***************************************************************************)
EXTENDS Widgets, Blueprints

CONSTANT KPoolSize       \* bound: the rows a list keeps when nobody says, 40 in the code

EmptyInstance == [widgets |-> <<>>, binds |-> <<>>, watches |-> <<>>]

Marked(name, mark) == SubSeq(name, 1, 1) = mark
Unmarked(name)     == SubSeq(name, 2, Len(name))

-----------------------------------------------------------------------------
(* Names                                                                   *)

\* resolveNames: a signal nobody declared is made, as a number ...
WithNames(signals, names) ==
  signals @@ [n \in {m \in ToSet(names) : ~Marked(m, "#") /\ ~Marked(m, "@")} |-> Number(0)]

\* ... while a command or a column nobody declared stays unresolved.
Resolved(world, names, columns) ==
  [i \in DOMAIN names |->
     LET n == names[i]
     IN CASE Marked(n, "#") -> IF Unmarked(n) \in columns THEN Unmarked(n) ELSE ""
          [] Marked(n, "@") -> IF Unmarked(n) \in world.commands THEN Unmarked(n) ELSE ""
          [] OTHER          -> n]

ReadsRow(program) == \E i \in DOMAIN program.code : program.code[i][1] = "PushRowField"

SignalsReadBy(program, ids) ==
  {ids[program.code[i][2]] :
     i \in {j \in DOMAIN program.code : program.code[j][1] \in {"LoadSignal", "StoreSignal"}}}

-----------------------------------------------------------------------------
(* Widgets                                                                 *)

\* attachEvent: the events a widget of each type answers.
Answers ==
  [t \in Types |-> {"onHover"} \cup
     CASE t = "button" -> {"onClick"}
       [] t \in {"checkbox", "slider", "tabs", "select"} -> {"onChange"}
       [] t = "textfield" -> {"onChange", "onCaret", "onAccept", "onDismiss", "onSubmit"}
       [] t = "popup" -> {"onClose"}
       [] OTHER -> {}]

\* What each hands its handler.
Hands(type, event) ==
  CASE event = "onHover" -> "bool"
    [] event = "onCaret" -> "number"
    [] event = "onChange" -> CASE type = "checkbox" -> "bool"
                               [] type \in {"slider", "tabs"} -> "number"
                               [] OTHER -> "text"
    [] OTHER -> "none"

\* makeWidget, applyCommon and applyTyped.
MakeWidget(bp, n, prefix, parent, list, slot) ==
  LET type == bp.strings[bp.nodes[n].type]
  IN [type |-> type, id |-> prefix \o bp.strings[bp.nodes[n].id], parent |-> parent,
      list |-> list, slot |-> slot, on |-> <<>>,
      fields |-> Read(type, LAMBDA key : PropOf(bp, n, key))]

TypeAt(bp, n) == bp.strings[bp.nodes[n].type]

\* What a pass over the nodes has come to: the instance, the widget each node
\* became (0 for none), and the templates it met.
Placed(acc, bp, n, prefix, into, list, slot) ==
  IF TypeAt(bp, n) \notin Types THEN acc
  ELSE [acc EXCEPT !.inst.widgets = Append(@, MakeWidget(bp, n, prefix, into, list, slot)),
                   !.made[n] = Len(acc.inst.widgets) + 1]

NodesOf(bp) == [i \in DOMAIN bp.nodes |-> i]

\* The first pass of instantiate.  A node whose parent was skipped is skipped, and
\* what stands in a list is a template.
Trunk(bp) ==
  FoldLeft(
    LAMBDA acc, n :
      LET p    == bp.nodes[n].parent
          into == IF p = NoParent THEN 0 ELSE acc.made[p]
      IN CASE p = NoParent -> Placed(acc, bp, n, "", 0, 0, 0)
           [] p # NoParent /\ into = 0 -> acc
           [] into # 0 /\ acc.inst.widgets[into].type = "list" ->
                [acc EXCEPT !.templates = Append(@, n)]
           [] OTHER -> Placed(acc, bp, n, "", into, 0, 0),
    [inst |-> EmptyInstance, made |-> [n \in DOMAIN bp.nodes |-> 0], templates |-> <<>>],
    NodesOf(bp))

-----------------------------------------------------------------------------
(* Bindings                                                                *)

\* One binding of a node's widget.  In a row, one that reads the row belongs to
\* the list, which watches the other signals it reads, once for all the copies.
Bound(acc, w, target, key, kind, program, ids) ==
  LET rowed == w.list # 0 /\ ReadsRow(program)
      reads == SignalsReadBy(program, ids)
  IN IF kind = "event"
       THEN IF key \notin Answers[w.type] THEN acc
            ELSE [acc EXCEPT !.inst.widgets[target].on =
                    (key :> [program |-> program, ids |-> ids]) @@ @]
     ELSE [acc EXCEPT
             !.inst.binds = Append(@, [target |-> target, key |-> key, program |-> program,
                                       ids |-> ids, rowed |-> rowed, live |-> TRUE]),
             !.inst.watches = IF rowed /\ w.slot = 1 /\ reads # {}
                                THEN Append(@, [list |-> w.list, reads |-> reads]) ELSE @]

\* attach: every name the program has is a signal from here on.
AttachProgram(acc, target, key, kind, program, columns) ==
  Bound([acc EXCEPT !.world.signals = WithNames(@, program.names)],
        acc.inst.widgets[target], target, key, kind, program,
        Resolved(acc.world, program.names, columns))

Attached(acc, bp, b, target, columns) ==
  AttachProgram(acc, target, bp.strings[b.key], b.kind, ProgramFor(bp, b), columns)

AttachedAll(acc, bp, made, columns) ==
  FoldLeft(LAMBDA a, b : IF made[b.node] = 0 THEN a ELSE Attached(a, bp, b, made[b.node], columns),
           acc, bp.bindings)

\* buildPooledRow: one copy of a template.
PooledRow(acc, bp, root, list, slot, columns) ==
  LET into(a, n) == IF n = root THEN list
                    ELSE IF bp.nodes[n].parent = NoParent THEN 0 ELSE a.made[bp.nodes[n].parent]
      placed(a, n) == IF n < root \/ into(a, n) = 0 THEN a
                      ELSE Placed(a, bp, n, "#" \o ToString(slot - 1) \o "/", into(a, n), list, slot)
      attached(copy) == AttachedAll([acc EXCEPT !.inst = copy.inst], bp, copy.made, columns)
  IN attached(FoldLeft(placed, [inst |-> acc.inst, made |-> [n \in DOMAIN bp.nodes |-> 0]],
                       NodesOf(bp)))

\* The copies of a template its list keeps.
PooledRows(acc, bp, n, made) ==
  LET holder  == bp.nodes[n].parent
      list    == made[holder]
      table   == acc.inst.widgets[list].fields["of"]
      columns == IF table \in DOMAIN acc.world.columns THEN acc.world.columns[table] ELSE {}
      asked   == PropOf(bp, holder, "poolSize")
      copies  == IF asked[1] = "number" /\ asked[2] > 0 THEN asked[2] ELSE KPoolSize
  IN FoldLeft(LAMBDA a, k : PooledRow(a, bp, n, list, k, columns), acc,
              [k \in 1 .. copies |-> k])

SignalProp(key) == Len(key) > 8 /\ SubSeq(key, 1, 8) = "!signal "

\* The signals a layout declares are defined again with every load.
WithDeclared(bp, signals) ==
  LET props == Slice(bp.props, bp.nodes[1].firstProp, bp.nodes[1].propCount)
      mine  == SelectSeq(props, LAMBDA p : SignalProp(bp.strings[p.key]))
      value(p) == IF p.kind = "text" THEN Text(bp.strings[p.text]) ELSE <<p.kind, p.number>>
  IN FoldLeft(LAMBDA t, p :
                Defined(t, SubSeq(bp.strings[p.key], 9, Len(bp.strings[p.key])), value(p)),
              signals, mine)

\* instantiate: the signals, the tree, the rows, and then what drives the tree.
Grown(bp, world, trunk) ==
  AttachedAll(FoldLeft(LAMBDA a, n : PooledRows(a, bp, n, trunk.made),
                       [inst |-> trunk.inst, world |-> world], trunk.templates),
              bp, trunk.made, {})

Instantiated(bp, world) ==
  Grown(bp, [world EXCEPT !.signals = WithDeclared(bp, @)], Trunk(bp))

-----------------------------------------------------------------------------
(* Running them                                                            *)

\* rowRefFor: the row a slot shows, <<>> for none.  The list is at its top.
RowOf(inst, w, rows) ==
  LET table == inst.widgets[inst.widgets[w].list].fields["of"]
      slot  == inst.widgets[w].slot
  IN IF inst.widgets[w].list = 0 \/ table \notin DOMAIN rows THEN <<>>
     ELSE IF slot > Len(rows[table]) THEN <<>> ELSE <<rows[table][slot]>>

\* Signals::mark: the bindings and the lists a change of these signals reaches.
Reached(inst, wrote) ==
  {<<"bind", i>> : i \in {j \in DOMAIN inst.binds :
      /\ inst.binds[j].live /\ ~inst.binds[j].rowed
      /\ ToSet(inst.binds[j].ids) \cap wrote # {}}}
  \cup {<<"list", inst.watches[k].list>> :
          k \in {l \in DOMAIN inst.watches : inst.watches[l].reads \cap wrote # {}}}

\* applyOne, for a binding that evaluates something: one that cannot be evaluated,
\* drives nothing or gives a size a text that spells none is stopped for good.
\* ListView::rebind says so and goes on.
Stops(b, type, m) ==
  m.bad \/ b.key \notin Drives[type] \/ Refuses(type, b.key, ValueOf(m))

AfterOne(scene, i, b, type, m) ==
  IF Stops(b, type, m)
    THEN IF b.rowed THEN scene ELSE [scene EXCEPT !.inst.binds[i].live = FALSE]
    ELSE [scene EXCEPT !.inst.widgets[b.target].fields = Applied(type, @, b.key, ValueOf(m))]

\* What a program that ran wrote, and whom that reaches.
Heard(scene, m) ==
  [scene EXCEPT !.signals = m.table, !.dirty = @ \cup Reached(scene.inst, m.wrote)]

Driven(scene, i, b, m) == AfterOne(Heard(scene, m), i, b, scene.inst.widgets[b.target].type, m)

Drove(scene, i, row) ==
  LET b == scene.inst.binds[i]
  IN IF ~b.live THEN scene
     ELSE Driven(scene, i, b, Evaluate(b.program, b.ids, scene.signals, <<>>, row))

\* applyAll and applyDirty, over a scene [inst, signals, dirty, stale] and a set of
\* observers: a list is only told to rebind its rows.
AppliedTo(scene, pending) ==
  LET cleared == [scene EXCEPT !.dirty = {},
                    !.stale = @ \cup {p[2] : p \in {q \in pending : q[1] = "list"}}]
  IN FoldLeft(LAMBDA s, i : IF <<"bind", i>> \in pending THEN Drove(s, i, <<>>) ELSE s,
              cleared, [i \in DOMAIN scene.inst.binds |-> i])

EveryObserver(inst) ==
  {<<"bind", i>> : i \in {j \in DOMAIN inst.binds : ~inst.binds[j].rowed}}
  \cup {<<"list", inst.watches[k].list>> : k \in DOMAIN inst.watches}

\* ListView::paint: the rows in view of a list that has something to rebind.
Rebound(scene, rows) ==
  FoldLeft(LAMBDA s, i :
             LET b == s.inst.binds[i] w == s.inst.widgets[b.target]
             IN IF b.rowed /\ w.list \in scene.stale /\ RowOf(s.inst, b.target, rows) # <<>>
                  THEN Drove(s, i, RowOf(s.inst, b.target, rows)) ELSE s,
           [scene EXCEPT !.stale = {}], [i \in DOMAIN scene.inst.binds |-> i])

\* The runner attachEvent makes: what a handler does when its widget calls it.
Handled(scene, w, event, passed, rows) ==
  LET h == scene.inst.widgets[w].on[event]
  IN Heard(scene, Evaluate(h.program, h.ids, scene.signals, passed, RowOf(scene.inst, w, rows)))
=============================================================================
