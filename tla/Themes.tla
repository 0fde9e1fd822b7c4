-------------------------------- MODULE Themes ---------------------------------
(***************************************************************************)
(* A theme from its source to the styles widgets are drawn with: the fields  *)
(* it may say (Layout/ThemeSchema.cpp), the blueprint it is compiled into     *)
(* (Layout/ThemeCompiler.cpp), and what a loaded blueprint does to the        *)
(* variants of each element (GraphicalObjects/GuiTheme.cpp).                  *)
(*                                                                         *)
(* A source is what its module exports: <<name, value>> in order, a value a   *)
(* scalar or <<"object", entries>>.  A style maps each field to a value;      *)
(* <<"builtIn", mode>> is whatever the engine was built with.                 *)
(***************************************************************************)
EXTENDS Compiling, Elements

-----------------------------------------------------------------------------
(* The fields                                                              *)

Sorted(names, type) == [n \in names |-> type]

Easings     == {"out", "in", "inOut", "linear"}
MotionFields == ("transitionMs" :> "number") @@ ("easing" :> "easing")
FontFields   == ("fontSize" :> "number") @@ ("weight" :> "weight")
CommonFields == "base" :> "text"

SyntaxFields ==
  Sorted({"plain", "keyword", "type", "string", "number", "comment", "operator",
         "function", "preprocessor"}, "colour")

\* kElements.
ThemeSchema ==
  ("button"   :> (Sorted({"normal", "hovered", "pressed", "text", "border"}, "colour")
     @@ Sorted({"borderWidth", "radius"}, "number") @@ FontFields @@ MotionFields)) @@
  ("checkbox" :> (Sorted({"box", "boxHover", "check", "label", "border"}, "colour")
     @@ Sorted({"borderWidth", "radius", "checkInset"}, "number") @@ FontFields @@ MotionFields)) @@
  ("slider"   :> (Sorted({"track", "fill", "knob", "knobActive"}, "colour")
     @@ Sorted({"knobWidth", "radius"}, "number") @@ MotionFields)) @@
  ("panel"    :> (Sorted({"body", "accent", "border"}, "colour")
     @@ Sorted({"accentHeight", "borderWidth", "radius"}, "number") @@ MotionFields)) @@
  ("focus"    :> ("color" :> "colour" @@ Sorted({"width", "inset"}, "number"))) @@
  ("background" :> ("color" :> "colour" @@ MotionFields)) @@
  ("label"    :> ("color" :> "colour" @@ FontFields)) @@
  ("textfield" :> ("mode" :> "mode"
     @@ Sorted({"background", "text", "suggestion", "placeholder", "caret", "selection",
               "gutter", "lineNumber", "currentLine", "border", "scrollTrack",
               "scrollThumb", "scrollThumbHover"}, "colour")
     @@ Sorted({"padding", "borderWidth", "radius", "caretWidth"}, "number")
     @@ Sorted({"readOnly", "multiline", "showLineNumbers", "highlightCurrentLine"}, "bool")
     @@ "language" :> "text" @@ "syntax" :> "syntax" @@ MotionFields)) @@
  ("dock"     :> (Sorted({"pane", "tabStrip", "tab", "tabActive", "tabText", "titleBar",
                         "titleBarActive", "close", "closeHover", "grip", "splitter",
                         "splitterHover", "dropBand", "dropBandHot", "dropPane",
                         "dropPreview"}, "colour")
     @@ Sorted({"tabHeight", "tabPadding", "closeWidth", "radius"}, "number") @@ MotionFields))

Themed == DOMAIN ThemeSchema

\* Which element's styles a widget's variant names (Layout/WidgetSchema.cpp).
StyledAs ==
  [w \in {"panel", "popup"} |-> "panel"] @@ [w \in {"button", "tabs", "select"} |-> "button"]
  @@ [w \in {"scroll", "list", "textfield"} |-> "textfield"]
  @@ [w \in {"label", "checkbox", "slider", "dock"} |-> w]

-----------------------------------------------------------------------------
(* Compiling a theme                                                       *)

IsObject(x) == x[1] = "object"
Nothing     == [builder |-> EmptyBuilder, variants |-> <<>>, ok |-> TRUE]

\* The last node, as one more in the range of its parent's children.
AsChild(b, parent) ==
  LET owner == b.nodes[parent]
  IN SetChildRange(b, parent, IF owner.childCount = 0 THEN Len(b.nodes) ELSE owner.firstChild,
                   owner.childCount + 1)

WithChild(b, n, key) == AsChild(AddNode(b, key, b.strings[b.nodes[n].id] \o "/" \o key, n), n)

RECURSIVE ReadFields(_, _, _, _)

\* readFields: every name is checked, then the scalars are props of the node, and
\* then each object is a child, whose names are those of a palette whatever it is.
ReadFields(s, n, entries, fields) ==
  LET prop(t, e)   == [t EXCEPT !.builder = AddProp(@, n, e[1], e[2])]
      nested(t, e) == ReadFields([t EXCEPT !.builder = WithChild(@, n, e[1])],
                                 Len(t.builder.nodes) + 1, e[2][2], DOMAIN SyntaxFields)
  IN IF \E i \in DOMAIN entries : entries[i][1] \notin fields
       THEN [s EXCEPT !.ok = FALSE]
       ELSE FoldLeft(nested,
                     FoldLeft(prop, s, SelectSeq(entries, LAMBDA e : Storable(e[2]))),
                     SelectSeq(entries, LAMBDA e : IsObject(e[2])))

\* A variant that is no object is passed over.
CompileVariant(s, element, entry) ==
  ReadFields([s EXCEPT !.builder = AddNode(@, element, entry[1], NoParent),
                       !.variants = Append(@, <<element, entry[1]>>)],
             Len(s.builder.nodes) + 1, entry[2][2],
             DOMAIN ThemeSchema[element] \cup DOMAIN CommonFields)

\* An export that styles nothing, or is no object, fails the whole theme.
CompileExport(s, export) ==
  IF export[1] = "__esModule" THEN s
  ELSE IF export[1] \notin Themed \/ ~IsObject(export[2]) THEN [s EXCEPT !.ok = FALSE]
  ELSE FoldLeft(LAMBDA t, entry : CompileVariant(t, export[1], entry), s,
                SelectSeq(export[2][2], LAMBDA entry : IsObject(entry[2])))

\* compileTheme.
ThemeOf(s) == [ok |-> s.ok, variants |-> s.variants, file |-> Finish(s.builder)]
CompiledTheme(source) == ThemeOf(FoldLeft(CompileExport, Nothing, source))

\* The names the generated types let a widget's variant have, for each element; none
\* is any text.
VariantType(compiled) ==
  [e \in {StyledAs[w] : w \in DOMAIN StyledAs} |->
     LET named == {v[2] : v \in {w \in ToSet(compiled.variants) : w[1] = e}}
     IN IF ~compiled.ok \/ named = {} THEN {} ELSE named \cup {"default"}]

\* What they let a style say.
StyleAdmits(type, x) ==
  CASE type \in {"colour", "text"} -> x[1] = "text"
    [] type = "number" -> x[1] = "number"
    [] type = "bool"   -> x[1] = "bool"
    [] type = "easing" -> x[1] = "text" /\ x[2] \in Easings
    [] type = "weight" -> x[1] = "text" /\ x[2] \in {"regular", "bold"}
    [] type = "mode"   -> x[1] = "text" /\ x[2] \in {"line", "document", "code"}
    [] type = "syntax" -> /\ IsObject(x)
                          /\ \A i \in DOMAIN x[2] : /\ x[2][i][1] \in DOMAIN SyntaxFields
                                                    /\ x[2][i][2][1] = "text"

-----------------------------------------------------------------------------
(* Styles                                                                  *)

\* forMode, and the styles the engine was built with.
Moded(mode) ==
  [f \in DOMAIN ThemeSchema["textfield"] |->
     CASE f = "mode"      -> Text(mode)
       [] f = "multiline" -> Bool(mode # "line")
       [] f \in {"showLineNumbers", "highlightCurrentLine"} -> Bool(mode = "code")
       [] f = "readOnly"  -> Bool(FALSE)
       [] f = "padding"   -> Number(IF mode = "document" THEN 12 ELSE 6)
       [] f = "background" -> <<"builtIn", mode>>
       [] f = "syntax"    -> [k \in DOMAIN SyntaxFields |-> <<"builtIn", "">>]
       [] OTHER           -> <<"builtIn", "">>]

BuiltIn(element) ==
  IF element = "textfield" THEN Moded("line")
  ELSE [f \in DOMAIN ThemeSchema[element] |-> <<"builtIn", "">>]

\* Theme::reset.
BuiltInTheme == [e \in Themed |-> "default" :> BuiltIn(e)]

\* resolve: a name nobody defined is drawn as the default.
Style(theme, element, variant) ==
  theme[element][IF variant \in DOMAIN theme[element] THEN variant ELSE "default"]

-----------------------------------------------------------------------------
(* Loading a theme                                                         *)

TextOf(p) == IF p[1] = "text" THEN p[2] ELSE ""
Numeric(p) == p[1] \in {"number", "bool"}

\* readColor, readFloat, readBool, readString, readFont and readMotion: a prop that
\* is not there, or says nothing a field of its type can be, leaves it as it was.
FieldRead(type, p, was) ==
  LET text == TextOf(p)
  IN CASE type = "colour" -> IF text \in Colours THEN p ELSE was
       [] type = "number" -> IF Numeric(p) THEN Number(AsNumber(p)) ELSE was
       [] type = "bool"   -> IF Numeric(p) THEN Bool(AsNumber(p) # 0) ELSE was
       [] type = "text"   -> IF text # "" THEN p ELSE was
       [] type = "easing" -> IF text \in Easings THEN p ELSE was
       [] type = "weight" -> IF text = "" THEN was
                             ELSE Text(IF text = "bold" THEN "bold" ELSE "regular")
       [] OTHER           -> was

\* readSyntax: every child that is a palette.
SyntaxRead(bp, n, was) ==
  LET node     == bp.nodes[n]
      children == [i \in 1 .. node.childCount |-> node.firstChild + i - 1]
      read(colours, c) ==
        IF bp.strings[bp.nodes[c].type] # "syntax" THEN colours
        ELSE [k \in DOMAIN SyntaxFields |-> FieldRead("colour", PropOf(bp, c, k), colours[k])]
  IN FoldLeft(read, was, children)

\* What a variant starts from: a mode, in a text field that has one, or the variant
\* it names, or what its own name stood for.
StartedFrom(theme, element, name, base, mode) ==
  IF element = "textfield" /\ mode \in {"line", "document", "code"} THEN Moded(mode)
  ELSE Style(theme, element, IF base = "" THEN name ELSE base)

Restyled(bp, n, element, was) ==
  [f \in DOMAIN was |->
     IF f = "syntax" THEN SyntaxRead(bp, n, was[f])
     ELSE FieldRead(ThemeSchema[element][f], PropOf(bp, n, f), was[f])]

\* applyButton down to applyTextField.
Redefined(theme, bp, n) ==
  LET element == bp.strings[bp.nodes[n].type]
      id      == bp.strings[bp.nodes[n].id]
      name    == IF id = "" THEN "default" ELSE id
      was     == StartedFrom(theme, element, name, TextOf(PropOf(bp, n, "base")),
                             TextOf(PropOf(bp, n, "mode")))
  IN [theme EXCEPT ![element] = (name :> Restyled(bp, n, element, was)) @@ @]

\* applyBlueprint: the top level, less what no element is called.
Dressed(theme, bp) ==
  LET tops == SelectSeq([i \in DOMAIN bp.nodes |-> i], LAMBDA i :
                bp.nodes[i].parent = NoParent /\ bp.strings[bp.nodes[i].type] \in Themed)
  IN FoldLeft(LAMBDA t, n : Redefined(t, bp, n), theme, tops)

\* loadFromFile adds to the theme, replaceWithFile puts another in its place; a file
\* that does not parse does neither.
LoadedOver(theme, file)   == IF Parsed(file) THEN Dressed(theme, file.body) ELSE theme
ReplacedWith(theme, file) == IF Parsed(file) THEN Dressed(BuiltInTheme, file.body) ELSE theme
=============================================================================
