-------------------------------- MODULE Layouts --------------------------------
(***************************************************************************)
(* A layout from its source to the screen: a declaration defines the state   *)
(* in one of four languages, the layout written against it is compiled into  *)
(* a blueprint, the blueprint is loaded, and then the application and the     *)
(* user write signals, fill tables, press things and change the theme, one    *)
(* frame after another.                                                      *)
(*                                                                         *)
(* What the author meant is kept beside it.  An expression is a tree, given   *)
(* to the compiler as the tokens JavaScript prints for it and to the          *)
(* properties as what JavaScript says it is; a prop that is a function is     *)
(* <<"function", tokens, tree>>.                                              *)
(***************************************************************************)
EXTENDS Loading, Themes, Declarations, FiniteSets

CONSTANTS
  Cases,       \* bound: [file, side, versions, writes, fills, themes], an application
  Handed,      \* bound: the values an event of each kind passes
  MaxSteps     \* bound: writes, fillings, events and reloads

VARIABLES
  case,        \* the application under way
  at,          \* "start", "unbuilt", "defined" or "shown"
  version,     \* which of its sources is on the screen
  world,       \* the commands and the columns its define made
  rows,        \* what each table holds
  scene,       \* [inst, signals, dirty, stale]: the widgets, what drives them and the signals
  styles,      \* the theme: what each variant of each element looks like
  worn,        \* which of its themes that is, 0 for none
  meant,       \* [signals, rows]: what the author's own language says they hold
  steps

vars == <<case, at, version, world, rows, scene, styles, worn, meant, steps>>

-----------------------------------------------------------------------------
(* Expressions, as an author writes them                                    *)

Lit(x)            == <<"lit", x>>
State(n)          == <<"state", n>>
Cell(c)           == <<"cell", c>>
Passed            == <<"passed">>
Not(e)            == <<"unary", "!", e>>
Minus(e)          == <<"unary", "-", e>>
Bin(o, a, b)      == <<"binary", o, a, b>>
Cond(c, a, b)     == <<"cond", c, a, b>>
Tmpl(pieces)      == <<"tmpl", pieces>>           \* pieces: <<"chunk", text>> or <<"hole", tree>>
Assign(n, o, e)   == <<"assign", n, o, e>>
Bump(n, o)        == <<"bump", n, o>>
Call(c)           == <<"call", c>>
Both(statements)  == <<"block", statements>>

LevelOf(o) == CHOOSE n \in DOMAIN Levels : o \in DOMAIN Levels[n]

RECURSIVE Tokens(_, _), Meaning(_, _), Effect(_, _)

Name(n) == IF Len(n) > 4 /\ SubSeq(n, 1, 4) = "rda."
             THEN <<WordOf("state"), OpOf("."), WordOf("rda"), OpOf("."),
                    WordOf(SubSeq(n, 5, Len(n)))>>
             ELSE <<WordOf("state"), OpOf("."), WordOf(n)>>

Bracketed(ts) == <<OpOf("(")>> \o ts \o <<OpOf(")")>>

\* The tokens of a tree, in parentheses only where a reader at this level needs them.
Tokens(e, level) ==
  CASE e[1] = "lit"    -> <<CASE e[2][1] = "number" -> <<"num", e[2][2]>>
                              [] e[2][1] = "text"   -> <<"text", e[2][2]>>
                              [] OTHER -> WordOf(IF e[2][2] THEN "true" ELSE "false")>>
    [] e[1] = "state"  -> Name(e[2])
    [] e[1] = "cell"   -> <<WordOf("item"), OpOf("."), WordOf(e[2])>>
    [] e[1] = "passed" -> <<WordOf("value")>>
    [] e[1] = "unary"  -> <<OpOf(e[2])>> \o Tokens(e[3], 7)
    [] e[1] = "binary" ->
         LET n  == LevelOf(e[2])
             ts == Tokens(e[3], n) \o <<OpOf(e[2])>> \o Tokens(e[4], n + 1)
         IN IF n < level THEN Bracketed(ts) ELSE ts
    [] e[1] = "cond"   ->
         LET ts == Tokens(e[2], 1) \o <<OpOf("?")>> \o Tokens(e[3], 0)
                     \o <<OpOf(":")>> \o Tokens(e[4], 0)
         IN IF level > 0 THEN Bracketed(ts) ELSE ts
    [] e[1] = "tmpl"   ->
         <<OpOf("tick")>> \o Flat(Each(e[2], LAMBDA p :
            IF p[1] = "chunk" THEN <<p>> ELSE <<OpOf("${")>> \o Tokens(p[2], 0) \o <<OpOf("}")>>))
           \o <<OpOf("tick")>>
    [] e[1] = "assign" -> Name(e[2]) \o <<OpOf(e[3])>> \o Tokens(e[4], 0)
    [] e[1] = "bump"   -> Name(e[2]) \o <<OpOf(e[3])>>
    [] e[1] = "call"   -> <<WordOf("commands"), OpOf("."), WordOf(e[2]), OpOf("("), OpOf(")")>>
    [] e[1] = "block"  -> <<OpOf("{")>> \o Flat(Each(e[2], LAMBDA s : Tokens(s, 0) \o <<OpOf(";")>>))
                            \o <<OpOf("}")>>

\* A function prop: () => tree, or (value) => tree.
Thunk(e)   == <<"function", Bracketed(<<>>) \o <<OpOf("=>")>> \o Tokens(e, 0), e>>
Takes(e)   == <<"function", Bracketed(<<WordOf("value")>>) \o <<OpOf("=>")>> \o Tokens(e, 0), e>>

-----------------------------------------------------------------------------
(* What JavaScript says of them                                             *)

\* Of operands of the kinds TypeScript lets an operator have.  env is [signals,
\* named, row, passed]; named maps a name as written to the signal it means.
Spoken(e, env) == env.signals[IF e[2] \in DOMAIN env.named THEN env.named[e[2]] ELSE e[2]]

Meaning(e, env) ==
  LET a == Meaning(e[3], env) b == Meaning(e[4], env)
  IN CASE e[1] = "lit"    -> e[2]
       [] e[1] = "state"  -> Spoken(e, env)
       [] e[1] = "cell"   -> env.row[1][e[2]]
       [] e[1] = "passed" -> env.passed
       [] e[1] = "unary"  -> IF e[2] = "!" THEN Bool(~a[2]) ELSE Number(-a[2])
       [] e[1] = "cond"   -> IF Meaning(e[2], env)[2] THEN a ELSE b
       [] e[1] = "tmpl"   ->
            Text(FoldLeft(LAMBDA t, p : t \o IF p[1] = "chunk" THEN p[2]
                                             ELSE AsText(Meaning(p[2], env)), "", e[2]))
       [] e[1] = "binary" ->
            CASE e[2] = "+"  -> IF a[1] = "number" /\ b[1] = "number" THEN Number(a[2] + b[2])
                                ELSE Text(AsText(a) \o AsText(b))
              [] e[2] = "-"  -> Number(a[2] - b[2])
              [] e[2] = "*"  -> Number(a[2] * b[2])
              [] e[2] = "/"  -> Number(CHOOSE q \in -500 .. 500 : q * b[2] = a[2])
              [] e[2] \in {"===", "=="} -> Bool(a = b)
              [] e[2] \in {"!==", "!="} -> Bool(a # b)
              [] e[2] = "<"  -> Bool(a[2] < b[2])
              [] e[2] = "<=" -> Bool(a[2] <= b[2])
              [] e[2] = ">"  -> Bool(a[2] > b[2])
              [] e[2] = ">=" -> Bool(a[2] >= b[2])
              [] e[2] = "&&" -> Bool(a[2] /\ b[2])
              [] e[2] = "||" -> Bool(a[2] \/ b[2])

\* The signals after a statement.
Effect(e, env) ==
  LET n    == IF e[2] \in DOMAIN env.named THEN env.named[e[2]] ELSE e[2]
      to(x) == [env.signals EXCEPT ![n] = x]
      old  == env.signals[n]
  IN CASE e[1] = "assign" ->
            LET x == Meaning(e[4], env)
            IN to(IF e[3] = "=" THEN x
                  ELSE Meaning(Bin(SubSeq(e[3], 1, 1), Lit(old), Lit(x)), env))
       [] e[1] = "bump"  -> to(Number(IF e[3] = "++" THEN old[2] + 1 ELSE old[2] - 1))
       [] e[1] = "call"  -> [s \in DOMAIN env.signals |->
                              IF s \in DOMAIN Works[e[2]] THEN Works[e[2]][s] ELSE env.signals[s]]
       [] e[1] = "block" -> FoldLeft(LAMBDA t, s : Effect(s, [env EXCEPT !.signals = t]),
                                     env.signals, e[2])

-----------------------------------------------------------------------------
(* The application                                                          *)

Schema == LoadStateSchema(case.file)
Source == case.versions[version]

NothingShown == [inst |-> EmptyInstance, signals |-> <<>>, dirty |-> {}, stale |-> {}]

Init ==
  /\ case \in Cases
  /\ at = "start" /\ version = 1 /\ steps = 0
  /\ world = [commands |-> <<>>, columns |-> <<>>]
  /\ rows = <<>> /\ scene = NothingShown
  /\ meant = [signals |-> <<>>, rows |-> <<>>]
  /\ \/ worn = 0 /\ styles = BuiltInTheme
     \/ /\ worn \in DOMAIN case.themes
        /\ CompiledTheme(case.themes[worn]).ok
        /\ styles = LoadedOver(BuiltInTheme, CompiledTheme(case.themes[worn]).file)

\* What the declaration's own language says each name starts with.
Declared(file) ==
  [n \in {file.state[i][1] : i \in DOMAIN file.state} |->
     LET x == (CHOOSE e \in ToSet(file.state) : e[1] = n)[2]
     IN CASE x[1] = "long" -> x[2]
          [] file.form = "xml" ->
               CASE x[1] = "number" -> Number(Spelled(x[2]))
                 [] x[1] = "bool"   -> Bool(x[2] = "true")
                 [] OTHER           -> Text(x[2])
          [] OTHER -> x]
  @@ IF file.routes = <<>> THEN <<>> ELSE "route" :> Text(file.routes[1][1])

\* The generated module is built, and its define runs before a layout is loaded.
DefineAll ==
  /\ at = "start"
  /\ Schema.ok
  /\ IF Builds(case.side, Schema)
       THEN LET w == Define(case.side, Schema)
            IN /\ at' = "defined"
               /\ world' = [commands |-> w.commands, columns |-> w.columns]
               /\ rows' = [t \in DOMAIN w.columns |-> <<>>]
               /\ scene' = [scene EXCEPT !.signals = w.signals]
               /\ meant' = [signals |-> Declared(case.file),
                            rows |-> [t \in DOMAIN w.columns |-> <<>>]]
       ELSE at' = "unbuilt" /\ UNCHANGED <<world, rows, scene, meant>>
  /\ UNCHANGED <<case, version, styles, worn, steps>>

\* What an author means by the names of the signals a source declares.
NamedIn(source) == DeclaredNames(source)
Given(source)   == [n \in {ScopedName(source, s) : s \in ToSet(source.signals)} |->
                      (CHOOSE s \in ToSet(source.signals) : ScopedName(source, s) = n).value]

ColumnNames == [t \in DOMAIN world.columns |->
                  {world.columns[t][i][1] : i \in DOMAIN world.columns[t]}]

\* LayoutHost: what the compiler made of a source is loaded and every binding run;
\* a file that does not parse, or a layout that does not compile, changes nothing.
\* What a layout declares starts over with every load.
Fresh(made) ==
  AppliedTo([inst |-> made.inst, signals |-> made.world.signals, dirty |-> {},
             stale |-> {i \in DOMAIN made.inst.widgets : made.inst.widgets[i].type = "list"}],
            EveryObserver(made.inst))

Shown(source, file) ==
  /\ scene' = Fresh(Instantiated(file.body, [signals |-> scene.signals,
                      commands |-> ToSet(world.commands), columns |-> ColumnNames]))
  /\ meant' = [meant EXCEPT !.signals = Given(source) @@ @]

\* What may be on the disk: the file, or what was written of it.
Written(compiled) == IF compiled.ok THEN {compiled.file, Cut(compiled.file)} ELSE {}

Load(v) ==
  /\ at = "defined" \/ (at = "shown" /\ v # version /\ steps < MaxSteps)
  /\ \E file \in Written(Compiled(case.versions[v])) :
       /\ Parsed(file)
       /\ Shown(case.versions[v], file)
  /\ at' = "shown" /\ version' = v
  /\ steps' = IF at = "shown" THEN steps + 1 ELSE steps
  /\ UNCHANGED <<case, world, rows, styles, worn>>

OneMore == steps < MaxSteps /\ at = "shown" /\ steps' = steps + 1

\* The application assigns to a field, the way its language writes it.
Write(f, x) ==
  LET reached == Reaches(case.side, Schema, SetCall(case.side, f))
      after   == Wrote([table |-> scene.signals, wrote |-> {}], reached[2], x)
  IN /\ OneMore
     /\ IF reached[1] \in {"set", "get and set"}
          THEN scene' = [scene EXCEPT !.signals = after.table,
                                      !.dirty = @ \cup Reached(scene.inst, after.wrote)]
          ELSE UNCHANGED scene
     /\ meant' = [meant EXCEPT !.signals[f.name] = x]
     /\ UNCHANGED <<case, at, version, world, rows, styles, worn>>

\* It fills a table; a list that shows the table hears of it when it paints.
Fill(table, value) ==
  LET declared == CHOOSE t \in ToSet(Schema.tables) : t.name = table
      reached == Reaches(case.side, Schema, FillCall(case.side, table))
      showing == {i \in DOMAIN scene.inst.widgets :
                    scene.inst.widgets[i].type = "list" /\ scene.inst.widgets[i].fields["of"] = table}
  IN /\ OneMore
     /\ IF reached[1] = "fill"
          THEN /\ rows' = [rows EXCEPT ![table] = Filled(case.side, world.columns[table], declared, value)]
               /\ scene' = [scene EXCEPT !.stale = @ \cup showing]
          ELSE UNCHANGED <<rows, scene>>
     /\ meant' = [meant EXCEPT !.rows[table] = value]
     /\ UNCHANGED <<case, at, version, world, styles, worn>>

\* rda_set_theme: the interface wears another theme, or keeps the one it has when the
\* file is not whole.
Wear(t) ==
  /\ OneMore
  /\ \E file \in Written(CompiledTheme(case.themes[t])) :
       /\ styles' = ReplacedWith(styles, file)
       /\ worn' = IF Parsed(file) THEN t ELSE worn
  /\ UNCHANGED <<case, at, version, world, rows, scene, meant>>

\* The frame: what is dirty is applied, and lists bind the rows they paint.
Frame ==
  /\ at = "shown"
  /\ scene.dirty # {} \/ scene.stale # {}
  /\ scene' = Rebound(AppliedTo(scene, scene.dirty), rows)
  /\ UNCHANGED <<case, at, version, world, rows, styles, worn, meant, steps>>

-----------------------------------------------------------------------------
(* The screen against the source                                            *)

RECURSIVE Used(_), Pairs(_, _, _, _)

\* What stands where an element is written: itself, or what its component returns,
\* under the id it was used with.
Used(node) ==
  IF node.type \notin Components THEN node
  ELSE LET made == Made(node.type, node.props, node.children)
       IN Used(IF HasProp(node.props, "id")
                 THEN [made EXCEPT !.props = WithProp(@, "id", PropNamed(node.props, "id"))]
                 ELSE made)

\* The elements under one: the copies of a list's row, or its children, without
\* the ones no widget is named after.
Under(node) ==
  LET row    == PropNamed(node.props, "row")
      asked  == PropNamed(node.props, "poolSize")
      copies == IF asked[1] = "number" THEN asked[2] ELSE KPoolSize
      below  == [i \in DOMAIN node.children |-> Used(node.children[i])]
  IN IF node.type = "list" /\ row[1] = "template"
       THEN [k \in 1 .. copies |-> Used(row[3][2])]
       ELSE SelectSeq(below, LAMBDA n : n.type \in Types)

WidgetsUnder(inst, w) ==
  SelectSeq([i \in DOMAIN inst.widgets |-> i], LAMBDA i : inst.widgets[i].parent = w)

\* Each widget with the element it stands for, the list around it and the slot; a
\* pair with no widget where the two trees differ.
Pairs(inst, w, node, place) ==
  LET elements == Under(node)
      widgets  == WidgetsUnder(inst, w)
      placeOf(k) == IF node.type = "list" THEN <<node, k>> ELSE place
  IN IF w = 0 \/ Len(elements) # Len(widgets) \/ inst.widgets[w].type # node.type
       THEN << <<0, node, place>> >>
     ELSE << <<w, node, place>> >>
            \o Flat([k \in DOMAIN elements |-> Pairs(inst, widgets[k], elements[k], placeOf(k))])

Roots(inst) == WidgetsUnder(inst, 0)
PairsShown ==
  IF Len(Roots(scene.inst)) # 1 THEN << <<0, Source.tree[2], <<>>>> >>
  ELSE Pairs(scene.inst, Roots(scene.inst)[1], Used(Source.tree[2]), <<>>)

RowAt(place, table) ==
  IF place = <<>> THEN <<>>
  ELSE LET of == PropNamed(place[1].props, "of")[2]
       IN IF of \in DOMAIN table /\ place[2] <= Len(table[of]) THEN <<table[of][place[2]]>> ELSE <<>>

Env(place, passed) ==
  [signals |-> meant.signals, named |-> NamedIn(Source), row |-> RowAt(place, meant.rows),
   passed |-> passed]

\* A widget's event runs its handler there and then.
Fire(w, event, passed) ==
  LET pair == CHOOSE p \in ToSet(PairsShown) : p[1] = w
      tree == PropNamed(pair[2].props, event)[3]
  IN /\ OneMore
     /\ scene' = Handled(scene, w, event, passed, rows)
     /\ meant' = [meant EXCEPT !.signals =
                    Effect(tree, Env(pair[3], IF passed = <<>> THEN Number(0) ELSE passed[1]))]
     /\ UNCHANGED <<case, at, version, world, rows, styles, worn>>

\* A handler in a row that shows nothing cannot be reached: the row is not painted.
Reachable(w) ==
  scene.inst.widgets[w].list # 0 => RowOf(scene.inst, w, rows) # <<>>

Next ==
  \/ DefineAll
  \/ \E v \in DOMAIN case.versions : Load(v)
  \/ \E i \in DOMAIN case.writes : \E x \in case.writes[i][2] :
       \E f \in ToSet(Schema.fields) : f.name = case.writes[i][1] /\ Write(f, x)
  \/ \E i \in DOMAIN case.fills : \E x \in case.fills[i][2] : Fill(case.fills[i][1], x)
  \/ \E w \in DOMAIN scene.inst.widgets : \E event \in DOMAIN scene.inst.widgets[w].on :
       \E x \in Handed[Hands(scene.inst.widgets[w].type, event)] :
         Reachable(w) /\ scene.stale = {} /\ Fire(w, event, x)
  \/ \E t \in DOMAIN case.themes : Wear(t)
  \/ Frame

Spec == Init /\ [][Next]_vars

-----------------------------------------------------------------------------
(* Properties                                                               *)

ReadsARow(e) == \E i \in DOMAIN e[2] : e[2][i] = WordOf("item")

\* What an element says of a prop once its functions are replaced by what they
\* mean now.
SaysNow(node, place, key) ==
  LET p == PropNamed(node.props, key)
  IN CASE p[1] = "function" ->
            IF ReadsARow(p) /\ RowAt(place, meant.rows) = <<>> THEN <<"none">>
            ELSE Meaning(p[3], Env(place, Number(0)))
       [] p[1] = "template" -> <<"none">>
       [] OTHER -> p

\* A binding of a widget's prop that was stopped, and is not run again.
Stopped(inst, w, n) ==
  \E i \in DOMAIN inst.binds :
    inst.binds[i].target = w /\ inst.binds[i].key = n /\ ~inst.binds[i].live

\* The fields about which a function prop and a constant are known to say different
\* things: one no binding drives; a size bound to a number beside a bound of its own;
\* a size since its function gave a text that spells none; auto; a text that was
\* bound to nothing; a text that spells no colour or no pace; a row with nothing to
\* show.
SaidDifferently(inst, w, node, place) ==
  LET bound(n) == PropNamed(node.props, n)[1] = "function"
      now(n)   == SaysNow(node, place, n)
      bounded(n) == \E b \in DOMAIN Bounds : Bounds[b] = n /\ HasProp(node.props, b)
  IN {n \in DOMAIN Loads[node.type] :
        /\ bound(n)
        /\ \/ n \notin Drives[node.type]
           \/ now(n) = <<"none">>
           \/ Loads[node.type][n][1] = "size" /\ now(n)[1] = "number" /\ bounded(n)
           \/ /\ Loads[node.type][n][1] = "size"
              /\ Refuses(node.type, n, now(n)) \/ Stopped(inst, w, n)
           \/ Loads[node.type][n][1] = "align" /\ now(n) = Text("auto")
           \/ /\ Loads[node.type][n][1] \in {"colour", "pace"}
              /\ now(n)[2] \notin Words[Loads[node.type][n][1]]
           \/ Loads[node.type][n][1] \in {"kept", "variant"} /\ now(n) = Text("")}

Local(id, parent) ==
  IF Len(id) > Len(parent) + 1 /\ SubSeq(id, 1, Len(parent) + 1) = parent \o "/"
    THEN SubSeq(id, Len(parent) + 2, Len(id)) ELSE ""

\* A widget's id is its parent's and the name its author gave it, or else its type
\* and perhaps a number.
IdAsAuthored(inst, w, node) ==
  LET id     == inst.widgets[w].id
      parent == inst.widgets[w].parent
      prefix == IF inst.widgets[w].list # 0 /\ parent = inst.widgets[w].list
                  THEN "#" \o ToString(inst.widgets[w].slot - 1) \o "/" \o inst.widgets[parent].id
                  ELSE IF parent = 0 THEN "" ELSE inst.widgets[parent].id
      local  == IF parent = 0 THEN id ELSE Local(id, prefix)
      given  == PropNamed(node.props, "id")
  IN IF given[1] = "text" THEN local = given[2]
     ELSE SubSeq(local, 1, Len(node.type)) = node.type

FieldsAsMeant(inst, w, node, place) ==
  LET meantFields == Read(node.type, LAMBDA key : SaysNow(node, place, key))
  IN \A n \in DOMAIN meantFields \ SaidDifferently(inst, w, node, place) :
       inst.widgets[w].fields[n] = meantFields[n]

RECURSIVE StyleSaid(_, _, _)

\* The theme against its source: the styles an element's export names.
Said(source, element) ==
  SelectSeq(IF HasProp(source, element) THEN PropNamed(source, element)[2] ELSE <<>>,
            LAMBDA entry : IsObject(entry[2]))

StartsFrom(styled, v) ==
  LET base == PropNamed(PropNamed(styled, v)[2], "base")
  IN IF base[1] = "text" /\ HasProp(styled, base[2]) THEN base[2] ELSE "default"

\* A style is what its entry says, and where it says nothing what the mode, the base
\* or else the default it starts from is.
StyleSaid(source, element, v) ==
  LET styled == Said(source, element)
      entry  == PropNamed(styled, v)[2]
      mode   == PropNamed(entry, "mode")
      from   == IF mode[1] = "text" THEN Moded(mode[2])
                ELSE IF v = "default" THEN BuiltIn(element)
                ELSE StyleSaid(source, element, StartsFrom(styled, v))
      stated(entries, f, type) ==
        LET p == PropNamed(entries, f)
        IN p # <<"none">> /\ p # Text("") /\ (type = "colour" => p[2] \in Colours)
      palette == IF HasProp(entry, "syntax") THEN PropNamed(entry, "syntax")[2] ELSE <<>>
      colours == [k \in DOMAIN SyntaxFields |->
                    IF stated(palette, k, "colour") THEN PropNamed(palette, k) ELSE from["syntax"][k]]
  IN IF ~HasProp(styled, v)
       THEN IF v = "default" THEN BuiltIn(element) ELSE StyleSaid(source, element, "default")
     ELSE [f \in DOMAIN from |->
             IF f = "syntax" THEN colours
             ELSE IF stated(entry, f, ThemeSchema[element][f]) THEN PropNamed(entry, f)
             ELSE from[f]]

\* What the generated types accept of a theme.
ThemeTyped(source) ==
  \A i \in DOMAIN source : LET export == source[i] IN
    /\ export[1] \in Themed /\ IsObject(export[2])
    /\ \A j \in DOMAIN export[2][2] : LET styled == export[2][2][j] IN
         /\ IsObject(styled[2])
         /\ \A k \in DOMAIN styled[2][2] : LET field == styled[2][2][k] IN
              \/ field[1] \in DOMAIN CommonFields /\ field[2][1] = "text"
              \/ /\ field[1] \in DOMAIN ThemeSchema[export[1]]
                 /\ StyleAdmits(ThemeSchema[export[1]][field[1]], field[2])

\* Written before what starts from it: the others start from what the name stood for
\* until then.
InOrder(styled) ==
  \A i, j \in DOMAIN styled :
    LET from == StartsFrom(styled, styled[i][1])
    IN styled[j][1] = from => j < i \/ (styled[i][1] = "default" /\ ~HasProp(styled[i][2][2], "base"))

\* Every name a widget may ask for, "nobody" among them, looks as the theme says.
DressedAsSaid ==
  LET source == IF worn = 0 THEN <<>> ELSE case.themes[worn]
  IN ThemeTyped(source) =>
       \A e \in Themed :
         LET styled == Said(source, e)
         IN InOrder(styled) =>
              \A v \in {styled[i][1] : i \in DOMAIN styled} \cup {"default", "nobody"} :
                Style(styles, e, v) = StyleSaid(source, e, v)

\* Hazard: a layout is JavaScript that JavaScript never runs.  Its expressions are
\* printed, read back by a parser of the engine's own, put into pools that every
\* program of the file shares, looked up by names that may be scoped, marked or
\* inherited from a row, and run by a stack machine against widgets that were laid
\* out breadth first; each step is tested, and nothing tests that the screen shows
\* what the source says.  At every moment the signals are what JavaScript says they
\* are; no two widgets share an id; and when nothing is waiting to be applied the
\* widgets are the elements of the source, and every one has the fields it would
\* have had if each function were the constant it means now.  A theme goes the same
\* way, its objects spread over shared pools and its variants built on one another:
\* each variant looks as its source says.  A signal the layout declares starts over
\* with every load, which is what the code makes it mean and not what its comment
\* says (finding).
LayoutsSayWhatTheyMean ==
  DressedAsSaid /\ (at \in {"defined", "shown"} =>
    /\ scene.signals = meant.signals
    /\ at = "shown" =>
         LET inst  == scene.inst
             pairs == PairsShown
         IN /\ \A i, j \in DOMAIN inst.widgets : i # j => inst.widgets[i].id # inst.widgets[j].id
            /\ Len(pairs) = Len(inst.widgets)
            /\ \A p \in ToSet(pairs) : p[1] # 0 /\ IdAsAuthored(inst, p[1], p[2])
            /\ scene.dirty = {} /\ scene.stale = {} =>
                 \A p \in ToSet(pairs) : FieldsAsMeant(inst, p[1], p[2], p[3]))

\* The declared columns, as <<name, kind>> in the order they were written.
ColumnsDeclared(file) ==
  [t \in {file.tables[i][1] : i \in DOMAIN file.tables} |->
     LET columns == (CHOOSE e \in ToSet(file.tables) : e[1] = t)[2]
     IN [i \in DOMAIN columns |->
           <<columns[i][1], IF columns[i][2][1] = "long" THEN columns[i][2][2][1]
                            ELSE columns[i][2][1]>>]]

\* The declarations one of the languages is known to refuse: a text that holds a new
\* line, outside C++, and two names that one writes alike.
Unwritable(file, side) ==
  \/ side # "cpp" /\ \E i \in DOMAIN file.state :
       file.state[i][2][1] = "text" /\ Contains(CharsOf(file.state[i][2][2]), "\n")
  \/ Clash(Members(side, LoadStateSchema(file)))

\* Hazard: one declaration is written out four times by four generators, and read a
\* fifth time by the types a layout is checked against, so "a name that exists here
\* exists on every side" (StateSchema.cpp:696) is only as true as they are alike.
\* Whichever language the application is in, its module builds and its define makes
\* the commands, the tables and the columns that were declared, in that order and
\* kind; what is filled into a table is what the table holds; the router is handed
\* the screens as they were declared; and a layout is typed against just those names,
\* and against just the variants its theme styles; and a theme the types accept
\* compiles.
SidesAgree ==
  LET routed == case.file.routes # <<>>
      names  == {case.file.state[i][1] : i \in DOMAIN case.file.state}
                  \cup IF routed THEN {"route"} ELSE {}
  IN /\ at = "unbuilt" => Unwritable(case.file, case.side)
     /\ at \in {"defined", "shown"} =>
          /\ world.commands = [i \in DOMAIN case.file.commands |-> case.file.commands[i][1]]
               \o IF routed THEN <<"back", "forward">> ELSE <<>>
          /\ world.columns = ColumnsDeclared(case.file)
          /\ rows = meant.rows
          /\ Screens(Schema) = [i \in DOMAIN case.file.routes |->
               <<case.file.routes[i][1], case.file.routes[i][2].layout,
                 case.file.routes[i][2].params>>]
          /\ DOMAIN StateType(Schema) = names /\ names \subseteq DOMAIN scene.signals
          /\ \A n \in names : LET t == StateType(Schema)[n]
                              IN t[1] # "choice" => t[1] = scene.signals[n][1]
          /\ CommandType(Schema) = ToSet(world.commands)
          /\ \A t \in DOMAIN world.columns : \A i \in DOMAIN world.columns[t] :
               world.columns[t][i][2] \in RowType(Schema)[world.columns[t][i][1]]
     /\ \A i \in DOMAIN case.themes : ThemeTyped(case.themes[i]) => CompiledTheme(case.themes[i]).ok
     /\ worn # 0 =>
          LET named == VariantType(CompiledTheme(case.themes[worn]))
          IN \A e \in DOMAIN named : named[e] # {} => named[e] = DOMAIN styles[e]
=============================================================================
