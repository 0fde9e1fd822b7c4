-------------------------------- MODULE MCLayouts -------------------------------
(***************************************************************************)
(* Applications small enough to run: one for each element, with every prop   *)
(* it takes bound; declarations in each form, written out for each language; *)
(* layouts that use what the language has together; and themes.              *)
(***************************************************************************)
EXTENDS Layouts

MCComponents == {"Card", "Caption", "Entry"}
MCColours    == {"red"}
MCPaces      == {"slow"}
MCKeywords   == {"checked"}
MCSpellings  == -30 .. 60
MCWorks      == ("save" :> ("saved" :> Bool(TRUE))) @@ ("reset" :> ("a" :> Number(1)))
                  @@ ("back" :> <<>>) @@ ("forward" :> <<>>)
MCHanded     == ("none" :> {<<>>}) @@ ("bool" :> {<<Bool(TRUE)>>})
                  @@ ("number" :> {<<Number(7)>>}) @@ ("text" :> {<<Text("typed")>>})

Node(type, props, args) == Element(type, props, args)
Id(t)      == <<"id", Text(t)>>
None       == <<"nothing">>
Alone(tree)     == [scope |-> "main", signals |-> <<>>, tree |-> tree]
OwnSignal(name, x)   == [name |-> name, value |-> x, global |-> FALSE]
SharedSignal(name, x)  == [name |-> name, value |-> x, global |-> TRUE]

\* What the components of these layouts return.
MCMade(name, props, children) ==
  LET told(key) == IF HasProp(props, key) THEN << <<key, PropNamed(props, key)>> >> ELSE <<>>
      under     == [i \in DOMAIN children |-> <<"element", children[i]>>]
  IN (CASE name = "Caption" ->
             Node("label", told("text") \o << <<"variant", Text("quiet")>> >>, <<>>)
        [] name = "Card" ->
             Node("stack", << Id("card"), <<"spacing", Number(2)>> >> \o told("visible"),
                  << Node("Caption", told("text"), <<>>), <<"array", under>> >>)
        [] name = "Entry" ->
             Node("stack", <<>>,
                  << Node("label", << Id("title"), <<"text", Thunk(Cell("title"))>> >>, <<>>),
                     Node("checkbox", << <<"value", Thunk(Cell("done"))>>,
                                         <<"onChange", Takes(Assign("on", "=", Passed))>> >>, <<>>),
                     Node("label", << <<"visible", Thunk(State("on"))>>,
                       <<"text", Thunk(Bin("+", Cell("title"), State("name")))>> >>, <<>>),
                     Node("button", << <<"onClick",
                            Thunk(Both(<<Assign("name", "=", Cell("title")), Bump("a", "++")>>))>> >>,
                          <<>>) >>))[2]

-----------------------------------------------------------------------------
(* One of each element                                                      *)

InSomeOrder(set) == FoldSet(LAMBDA x, s : Append(s, x), <<>>, set)

\* The props of an element that hold a value, in some order.  What every element
\* takes is bound on two of them; a height is bound to a number and has no bounds.
BoundOn(type) == IF type \in {"container", "popup"} THEN DOMAIN Offers[type] ELSE DOMAIN OfferedBy[type]
Valued(type) == InSomeOrder({p \in BoundOn(type) \ {"id", "minHeight", "maxHeight"} :
                               Offers[type][p][1] # "event"})
Events(type) == InSomeOrder({p \in DOMAIN Offers[type] : Offers[type][p][1] = "event"})

\* A signal for each kind of value, and one for each prop that takes only words.
SignalFor(type, p) ==
  LET kind == Offers[type][p][1]
  IN CASE kind = "string" /\ p # "pace" -> "t"
       [] kind = "number" \/ p = "height" -> "n"
       [] kind = "boolean" -> "b"
       [] OTHER -> p

\* What may be given: numbers on both sides of none, a word and the same word nudged.
Samples(type, p) ==
  LET prop == Offers[type][p]
      kind == prop[1]
      tried == CASE p = "pace"       -> {Text("in"), Text("slow")}
                 [] kind = "variant" -> {Text("quiet")}
                 [] kind = "size"    -> {Text("fill:2-8"), Text("content"), Text("fill+-2")}
                 [] OTHER -> {Text(w) : w \in prop[2]} \cup {Text("center+3"), Text("end-2")}
  IN {x \in tried : Admits(prop, x)}

\* What a declaration says the signals of an element start with.
FirstOf(s) == CHOOSE x \in s : TRUE
NeededBy(type) == {SignalFor(type, p) : p \in ToSet(Valued(type))} \cup {"n", "t", "b"}
SamplesOf(type, s) ==
  CASE s = "n" -> {Number(-2), Number(7)}
    [] s = "t" -> {Text(""), Text("red")}
    [] s = "b" -> {Bool(TRUE), Bool(FALSE)}
    [] OTHER -> Samples(type, s)

Plain(fields) ==
  [form |-> "ts", state |-> fields, commands |-> <<>>, tables |-> <<>>, routes |-> <<>>]

\* Every prop bound, every event answered.
OneOf(type) ==
  Node("stack", <<Id("root")>>,
    << Node(type,
         [i \in DOMAIN Valued(type) |->
            <<Valued(type)[i], Thunk(State(SignalFor(type, Valued(type)[i])))>>]
         \o [i \in DOMAIN Events(type) |->
               LET e == Events(type)[i] h == Hands(type, e)
               IN <<e, CASE h = "none" -> Thunk(Bump("n", "++"))
                         [] h = "bool" -> Takes(Assign("b", "=", Not(Passed)))
                         [] h = "number" -> Takes(Assign("n", "-=", Passed))
                         [] h = "text" -> Takes(Assign("t", "=", Passed))>>],
         <<>>) >>)

CaseOf(type) ==
  LET names == InSomeOrder(NeededBy(type))
  IN [file |-> Plain([i \in DOMAIN names |-> <<names[i], FirstOf(SamplesOf(type, names[i]))>>]),
      side |-> "cpp", versions |-> <<Alone(OneOf(type))>>, fills |-> <<>>, themes |-> <<>>,
      writes |-> [i \in DOMAIN names |-> <<names[i], SamplesOf(type, names[i])>>]]

-----------------------------------------------------------------------------
(* Declarations                                                             *)

Long(x) == <<"long", x, "what it is for">>

\* Texts that need escaping, names a language writes its own way, two tables that
\* share a column's name, and screens with one parameter, several and none.
Typescript ==
  [form |-> "ts",
   state |-> << <<"count", Number(3)>>, <<"Total", Long(Number(-4))>>, <<"checked", Bool(TRUE)>>,
                <<"name", Text("a \"b\" \\ c")>>, <<"open", Long(Bool(FALSE))>> >>,
   commands |-> << <<"save", "">>, <<"checked", "">> >>,
   tables |-> << <<"todos", << <<"title", Text("")>>, <<"done", Long(Bool(FALSE))>>,
                               <<"size", Number(0)>> >> >>,
                 <<"people", << <<"title", Number(0)>> >> >> >>,
   routes |-> << <<"home", [layout |-> "main", params |-> <<>>]>>,
                 <<"edit", [layout |-> "editor", params |-> <<"name", "count">>]>> >>]

AsXml ==
  [form |-> "xml",
   state |-> << <<"count", <<"number", "12">>>>, <<"open", <<"bool", "true">>>>,
                <<"name", <<"text", "x \\ \"y\"">>>> >>,
   commands |-> << <<"save", "">> >>,
   tables |-> << <<"todos", << <<"title", <<"text", "">>>>, <<"done", <<"bool", "false">>>> >> >> >>,
   routes |-> <<>>]

\* A text over two lines; a table whose filling is named like a field's setter;
\* two columns only a capital tells apart.
TwoLines == Plain(<< <<"name", Text("one\ntwo")>> >>)
Alike    == [Plain(<< <<"todos", Number(1)>>, <<"name", Text("")>> >>) EXCEPT
               !.tables = << <<"todos", << <<"title", Text("")>> >> >> >>]
ByCapital == [Plain(<< <<"name", Text("")>> >>) EXCEPT
               !.tables = << <<"todos", << <<"size", Number(0)>>, <<"Size", Number(0)>> >> >> >>]

Rows(file) == IF \E i \in DOMAIN file.tables : file.tables[i][1] = "people"
  THEN << <<"todos", {<<("title" :> Text("x")) @@ ("done" :> Bool(TRUE)) @@ ("size" :> Number(2))>>}>>,
          <<"people", {<<"title" :> Number(1)>>}>> >>
  ELSE IF file.form = "xml"
    THEN << <<"todos", {<<("title" :> Text("x")) @@ ("done" :> Bool(TRUE))>>}>> >>
    ELSE <<>>

WritesTo(file) ==
  << <<"name", {Text("new")}>> >>
  \o IF Len(file.state) > 2 THEN << <<"count", {Number(5)}>>, <<"open", {Bool(TRUE)}>> >> ELSE <<>>

DeclaredCase(file, side) ==
  [file |-> file, side |-> side, fills |-> Rows(file), writes |-> WritesTo(file), themes |-> <<>>,
   versions |-> <<Alone(Node("label", << <<"text", Thunk(State("name"))>> >>, <<>>))>>]

-----------------------------------------------------------------------------
(* Layouts                                                                  *)

Base ==
  [form |-> "ts",
   state |-> << <<"a", Number(2)>>, <<"b", Number(5)>>, <<"on", Bool(FALSE)>>,
                <<"name", Text("n")>>, <<"saved", Bool(FALSE)>> >>,
   commands |-> << <<"save", "">>, <<"reset", "">> >>,
   tables |-> << <<"todos", << <<"title", Text("")>>, <<"done", Bool(FALSE)>> >> >> >>,
   routes |-> <<>>]

A == State("a")
B == State("b")
Num(n) == Lit(Number(n))
Str(t) == Lit(Text(t))

\* Where it matters how operators group.
Arithmetic ==
  << Bin("-", Bin("-", A, B), Num(3)), Bin("-", A, Bin("-", B, Num(3))),
     Bin("*", Bin("+", A, B), Num(2)), Bin("+", A, Bin("*", B, Num(2))),
     Bin("*", A, Minus(Bin("-", Num(4), B))), Bin("/", Bin("*", A, Num(8)), Num(4)),
     Bin("/", Num(24), Bin("*", Num(2), Num(3))), Bin("*", Bin("/", Num(24), Num(2)), Num(3)) >>
Sentences ==
  << Bin("+", Bin("+", A, B), State("name")), Bin("+", State("name"), Bin("+", A, B)),
     Bin("+", Bin("+", State("name"), A), B),
     Tmpl(<< <<"chunk", "<">>, <<"hole", Bin("+", A, Num(1))>>, <<"chunk", "|">>,
             <<"hole", State("name")>>, <<"hole", State("on")>> >>),
     Tmpl(<<>>),
     Cond(State("on"), Cond(Bin(">", A, Num(2)), Str("many"), Str("few")), Str("none")),
     Cond(Bin("===", State("name"), Str("n")), Tmpl(<< <<"hole", B>> >>), Bin("+", Str(""), A)) >>
Truths ==
  << Bin("&&", Bin("||", State("on"), Bin("<", A, B)), Not(State("saved"))),
     Bin("||", State("on"), Bin("&&", Bin("<", A, B), Not(State("saved")))),
     Not(Bin("===", A, Bin("-", B, Num(3)))), Bin("!==", Bin("<=", A, B), State("on")),
     Bin("===", Bin("===", A, B), State("on")) >>

Labels(trees, key) ==
  <<"array", [i \in DOMAIN trees |-> Node("label", << <<key, Thunk(trees[i])>> >>, <<>>)]>>

Sums ==
  Node("stack", <<>>,
    << Labels(Arithmetic, "w"), Labels(Sentences, "text"), Labels(Truths, "visible"),
       Node("button", << Id("go"), <<"onClick", Thunk(Both(<<
              Assign("a", "*=", Bin("-", B, Num(2))), Assign("b", "-=", Bin("-", A, Num(1))),
              Call("save"), Bump("a", "--"), Assign("on", "=", Not(State("on"))),
              Assign("name", "+=", Tmpl(<< <<"hole", State("b")>> >>)) >>))>> >>, <<>>),
       Node("button", << <<"onClick", Thunk(Call("reset"))>> >>, <<>>) >>)

\* Components around components, the same one twice, siblings of one type, something
\* conditional that is not there, an element nobody knows.
Tree ==
  Node("stack", <<Id("page")>>,
    << Node("Card", << Id("first"), <<"text", Thunk(State("name"))>> >>,
            << Node("label", << <<"text", Str("x")[2]>> >>, <<>>),
               Node("label", << <<"text", Thunk(Bin("+", A, Str("")))>> >>, <<>>), None >>),
       Node("Card", << Id("second"), <<"text", Thunk(Tmpl(<< <<"hole", State("open")>> >>))>>,
                       <<"visible", Thunk(State("open"))>> >>,
            << <<"array", << Node("Card", << <<"text", Thunk(State("shared"))>> >>,
                                  << Node("Caption", << <<"text", Text("deep")>> >>, <<>>) >>) >>>> >>),
       Node("marquee", <<>>, << Node("label", << <<"text", Thunk(State("name"))>> >>, <<>>) >>),
       Node("checkbox", << <<"value", Thunk(State("open"))>>,
                           <<"onChange", Takes(Assign("open", "=", Passed))>> >>, <<>>),
       Node("popup", << <<"open", Thunk(State("open"))>>, <<"anchor", Text("first")>>,
                        <<"onClose", Thunk(Assign("open", "=", Lit(Bool(FALSE))))>> >>,
            << Node("Caption", << <<"text", Thunk(State("shared"))>> >>, <<>>) >>) >>)

Listed(n) ==
  Node("stack", <<>>,
    << Node("list", << Id("rows"), <<"of", Text("todos")>>, <<"poolSize", Number(n)>>,
                       <<"row", <<"template", "item", Node("Entry", <<>>, <<>>)>>>> >>, <<>>),
       Node("label", << <<"text", Thunk(State("name"))>> >>, <<>>) >>)

Todo(t, d) == ("title" :> Text(t)) @@ ("done" :> Bool(d))
Laid(versions) ==
  [file |-> Base, side |-> "cpp", versions |-> versions, themes |-> <<>>,
   fills |-> << <<"todos", {<<>>, <<Todo("x", TRUE)>>, <<Todo("y", FALSE), Todo("z", TRUE)>>}>> >>,
   writes |-> << <<"a", {Number(2), Number(3)}>>, <<"name", {Text("m")}>>, <<"on", {Bool(TRUE)}>> >>]

WithLocals(tree, open) ==
  [scope |-> "main", tree |-> tree,
   signals |-> <<OwnSignal("open", Bool(open)), SharedSignal("shared", Text("s")), SharedSignal("a", Number(9))>>]

\* Layouts that do not compile: a reload that meets one changes nothing.
Wrong ==
  << Alone(Node("stack", << <<"text", <<"function",
        <<OpOf("("), OpOf(")"), OpOf("=>"), WordOf("state"), OpOf("."), WordOf("name"),
          OpOf("."), WordOf("length")>>, Str("")>>>> >>, <<>>)),
     Alone(Node("stack", << <<"text", <<"object">>>> >>, <<>>)) >>

-----------------------------------------------------------------------------
(* Themes                                                                   *)

Obj(entries) == <<"object", entries>>
Styles(element, entries) == <<element, Obj(entries)>>

\* Something each type of field may be given, none of it what it was built with.
GivenTo(type) ==
  CASE type \in {"colour", "text"} -> Text("red")
    [] type = "number" -> Number(3)
    [] type = "bool"   -> Bool(TRUE)
    [] type = "easing" -> Text("inOut")
    [] type = "weight" -> Text("bold")
    [] type = "mode"   -> Text("document")
    [] type = "syntax" -> LET kinds == InSomeOrder(DOMAIN SyntaxFields)
                          IN Obj([i \in DOMAIN kinds |-> <<kinds[i], Text("red")>>])

\* Every field of an element, and a variant that says none of them.
Whole(e) ==
  LET fields == InSomeOrder(DOMAIN ThemeSchema[e])
  IN << Styles(e, << <<"default", Obj([i \in DOMAIN fields |->
                       <<fields[i], GivenTo(ThemeSchema[e][fields[i]])>>])>>,
                     <<"quiet", Obj(<<>>)>> >>) >>

\* Variants on variants, a mode between them, palettes that say some of it, a base
\* nobody defined, a colour that is none, and an element whose default comes last.
Layered ==
  << Styles("button",
       << <<"default", Obj(<< <<"radius", Number(2)>>, <<"weight", Text("bold")>> >>)>>,
          <<"primary", Obj(<< <<"normal", Text("red")>>, <<"easing", Text("in")>> >>)>>,
          <<"small", Obj(<< <<"base", Text("primary")>>, <<"radius", Number(0)>>,
                            <<"weight", Text("regular")>> >>)>>,
          <<"loud", Obj(<< <<"base", Text("none of these")>>, <<"text", Text("redish")>> >>)>> >>),
     Styles("textfield",
       << <<"default", Obj(<< <<"syntax", Obj(<< <<"plain", Text("red")>> >>)>>,
                              <<"readOnly", Bool(TRUE)>>, <<"language", Text("red")>> >>)>>,
          <<"ide", Obj(<< <<"mode", Text("code")>>, <<"padding", Number(1)>>,
                          <<"syntax", Obj(<< <<"keyword", Text("red")>>, <<"type", Text("?")>> >>)>> >>)>>,
          <<"note", Obj(<< <<"base", Text("ide")>>, <<"multiline", Bool(FALSE)>>,
                           <<"language", Text("")>>, <<"caret", Text("red")>> >>)>> >>),
     Styles("panel", <<>>),
     Styles("label", << <<"quiet", Obj(<< <<"fontSize", Number(9)>> >>)>>,
                        <<"default", Obj(<< <<"color", Text("red")>> >>)>> >>) >>

\* What compiles although the types would not have it, and what does not compile.
Untyped ==
  << <<"__esModule", Bool(TRUE)>>,
     Styles("button", << <<"default", Obj(<< <<"radius", Obj(<< <<"keyword", Text("red")>> >>)>>,
                              <<"borderWidth", Text("3")>>, <<"normal", <<"function">> >> >>)>>,
                         <<"quiet", Text("red")>> >>),
     Styles("textfield", << <<"default", Obj(<< <<"readOnly", Number(1)>>, <<"easing", Text("fast")>>,
                                 <<"mode", Text("poem")>> >>)>> >>) >>
Mistaken ==
  << << Styles("buttons", <<>>) >>,
     << <<"button", Text("red")>> >>,
     << Styles("button", << <<"default", Obj(<< <<"borderWith", Number(1)>> >>)>> >>) >>,
     << Styles("textfield", << <<"ide", Obj(<< <<"syntax", Obj(<< <<"base", Text("default")>> >>)>> >>)>> >>) >> >>

Wearing ==
  [file |-> Plain(<< <<"name", Text("quiet")>> >>), side |-> "cpp", fills |-> <<>>,
   themes |-> Each(InSomeOrder(Themed), Whole) \o <<Layered, Untyped>> \o Mistaken,
   writes |-> << <<"name", {Text("primary")}>> >>,
   versions |-> <<Alone(Node("label", << <<"variant", Thunk(State("name"))>> >>, <<>>))>>]

MCCases ==
  {CaseOf(t) : t \in DOMAIN OfferedBy}
  \cup {DeclaredCase(f, s) : f \in {Typescript, AsXml, TwoLines, Alike, ByCapital}, s \in Sides}
  \cup {Laid(<<Alone(Sums)>>),
        Laid(<<WithLocals(Tree, FALSE), WithLocals(Listed(2), TRUE)>>),
        Laid(<<Alone(Listed(3))>> \o Wrong), Wearing}
=============================================================================
