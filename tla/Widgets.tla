-------------------------------- MODULE Widgets --------------------------------
(***************************************************************************)
(* What a widget keeps of the props a layout gives it: the table of elements *)
(* a layout may use and what each takes (Layout/WidgetSchema.cpp), the        *)
(* fields the loader reads out of a blueprint (Layout/LayoutLoader.cpp), and  *)
(* the ones a binding writes afterwards (Layout/Bindings.cpp).                *)
(*                                                                         *)
(* A field is named by its prop and kept as <<reader, value before anybody   *)
(* said anything>>.  A given value is <<kind, value>>, or <<"none">>.        *)
(***************************************************************************)
EXTENDS Expressions

CONSTANTS
  Colours,     \* bound: the texts that spell a colour
  Paces        \* bound: the texts that spell a pace, apart from the named ones

-----------------------------------------------------------------------------
(* Words                                                                   *)

Words ==
  ("arrange"   :> {"vertical", "horizontal"}) @@
  ("spread"    :> {"spaceBetween", "spaceAround"}) @@
  ("align"     :> {"stretch", "start", "center", "end", "auto"}) @@
  ("textAlign" :> {"start", "center", "end"}) @@
  ("placement" :> {"below", "above", "right", "left", "over"}) @@
  ("side"      :> {"floating", "left", "right", "top", "bottom", "center"}) @@
  ("submit"    :> {"enter", "ctrlEnter", "both", "none"}) @@
  ("mode"      :> {"line", "document", "code"}) @@
  ("space"     :> {"panes", "tiles"}) @@
  ("fit"       :> {"contain", "stretch"}) @@
  ("anchor"    :> {"fill", "stretchX", "stretchY", "bottomLeft", "bottomRight"}) @@
  ("pace"      :> {"linear", "in", "out", "inOut"} \cup Paces) @@
  ("colour"    :> Colours)

CharAt(t, i) == SubSeq(t, i, i)

\* A text and the signed number at its end: where the sign is, and what it says.
SignIn(t) == {i \in 2 .. Len(t) : CharAt(t, i) \in {"+", "-"}}
Signed(t) ==
  LET i == CHOOSE i \in SignIn(t) : \A j \in SignIn(t) : i <= j
      after == SubSeq(t, i + 1, Len(t))
      spelt == {n \in Spellings : n >= 0 /\ ToString(n) = after}
      n == CHOOSE n \in spelt : TRUE
  IN IF SignIn(t) = {} THEN [word |-> t, offset |-> 0, ok |-> TRUE]
     ELSE IF spelt = {} THEN [word |-> t, offset |-> 0, ok |-> FALSE]
     ELSE [word |-> SubSeq(t, 1, i - 1), ok |-> TRUE,
           offset |-> IF CharAt(t, i) = "-" THEN -n ELSE n]

Unbounded == 1000000000

Size(mode, value) ==
  [mode |-> mode, value |-> value, offset |-> 0, min |-> 0, max |-> Unbounded]
Fixed(n) == Size("fixed", n)

\* SizeSpec::parse answers true for content, fill or fill:weight, each with an
\* offset; anything else leaves the size, and a word leaves its bounds.
Weighted(word) == Len(word) > 5 /\ SubSeq(word, 1, 5) = "fill:"
SizeParses(t) ==
  LET s == Signed(t) IN s.ok /\ (s.word \in {"content", "fill"} \/ Weighted(s.word))

SizeSaid(t, spec) ==
  LET s == Signed(t)
      weight == Spelled(SubSeq(s.word, 6, Len(s.word)))
      size == CASE s.word = "content" -> Size("content", 0)
                [] s.word = "fill"    -> Size("fill", 1)
                [] OTHER              -> Size("fill", IF weight <= 0 THEN 1 ELSE weight)
  IN IF SizeParses(t) THEN [size EXCEPT !.offset = s.offset, !.min = spec.min, !.max = spec.max]
     ELSE spec

\* alignFrom and textAlignFrom: a word, with a nudge after it.
Nudged(t, words, old) ==
  LET s == Signed(t) IN IF s.word \in words THEN <<s.word, s.offset>> ELSE old

WordOr(t, words, old) == IF t \in words THEN t ELSE old

-----------------------------------------------------------------------------
(* The fields                                                              *)

Fields(names, reader, start) == [n \in names |-> <<reader, start>>]
Field(name, reader, start) == name :> <<reader, start>>
Variant == Field("variant", "variant", "default")

\* applyCommon.
Common ==
  Fields({"x", "y", "w", "h", "animate", "marginRight", "marginBottom"}, "number", 0)
  @@ Field("visible", "flag", TRUE) @@ Field("dragWindow", "flag", FALSE)
  @@ Field("route", "text", "") @@ Field("pace", "pace", "out")
  @@ Fields({"hAlignSelf", "vAlignSelf"}, "align", <<"auto", 0>>)
  @@ Fields({"width", "height"}, "size", Fixed(0))
  @@ Field("anchor", "anchor", "none")

\* makeWidget and applyTyped.  A popup's anchor is the name of a widget, and is
\* what the prop of that name is for it.
Typed ==
  ("container" :> <<>>) @@
  ("panel"  :> Variant) @@
  ("popup"  :> (Variant @@ Field("open", "flag", FALSE) @@ Field("anchor", "text", "")
     @@ Field("gap", "number", 4) @@ Field("padding", "number", 8)
     @@ Field("blocking", "flag", TRUE) @@ Field("placement", "placement", "below"))) @@
  ("stack"  :> (Field("arrange", "arrange", "vertical") @@ Field("spacing", "number", 4)
     @@ Field("padding", "number", 0) @@ Fields({"hAlign", "vAlign"}, "align", <<"stretch", 0>>)
     @@ Field("spread", "spread", "none"))) @@
  ("scroll" :> (Variant @@ Fields({"spacing", "padding"}, "number", 0)
     @@ Field("hAlign", "align", <<"stretch", 0>>) @@ Field("vertical", "flag", TRUE)
     @@ Field("horizontal", "flag", FALSE) @@ Field("barWidth", "number", 10)
     @@ Field("wheelStep", "number", 52))) @@
  ("splitter" :> (Field("arrange", "arrange", "horizontal") @@ Field("value", "number", 120)
     @@ Field("min", "number", 40) @@ Field("max", "number", 4000))) @@
  ("viewport" :> Field("name", "kept", "main")) @@
  ("label"  :> (Variant @@ Fields({"text", "spans"}, "text", "") @@ Field("wrap", "flag", FALSE)
     @@ Fields({"hAlign", "vAlign"}, "textAlign", <<"start", 0>>))) @@
  ("button" :> (Variant @@ Field("text", "text", "") @@ Field("padding", "number", 6)
     @@ Field("hAlign", "textAlign", <<"center", 0>>))) @@
  ("checkbox" :> (Variant @@ Field("label", "text", "") @@ Field("value", "flag", FALSE))) @@
  ("slider" :> (Variant @@ Fields({"value", "min"}, "number", 0) @@ Field("max", "number", 1))) @@
  ("textfield" :> (Variant @@ Fields({"text", "placeholder", "suggestion", "language"}, "text", "")
     @@ Field("mode", "mode", "line") @@ Field("submitKey", "submit", "default"))) @@
  ("list"   :> (Variant @@ Fields({"of", "rowHeights"}, "text", "")
     @@ Field("rowHeight", "number", 28) @@ Field("spacing", "number", 0)
     @@ Field("barWidth", "number", 10) @@ Field("wheelStep", "number", 52)
     @@ Field("follow", "flag", FALSE) @@ Field("revealRow", "number", -1))) @@
  ("image"  :> (Field("src", "text", "") @@ Field("tint", "colour", "white")
     @@ Field("fit", "fit", "contain"))) @@
  ("stream" :> (Field("name", "text", "") @@ Field("fit", "fit", "contain"))) @@
  ("tabs"   :> (Variant @@ Fields({"value", "barHeight"}, "number", 0))) @@
  ("tab"    :> Field("title", "text", "")) @@
  ("select" :> (Variant @@ Fields({"value", "of"}, "text", "")
     @@ Field("placeholder", "kept", "Choose...") @@ Field("textColumn", "kept", "text")
     @@ Field("valueColumn", "kept", "value"))) @@
  ("option" :> Fields({"text", "value"}, "text", "")) @@
  ("dockspace" :> (Field("persist", "text", "") @@ Field("arrange", "space", "panes")
     @@ Field("columns", "number", 12) @@ Field("rowHeight", "number", 60)
     @@ Field("gap", "number", 8))) @@
  ("dock"   :> (Variant @@ Field("title", "text", "") @@ Field("side", "side", "floating")
     @@ Field("size", "number", 240) @@ Field("closable", "flag", FALSE)
     @@ Fields({"col", "row"}, "number", -1) @@ Fields({"cols", "rows"}, "number", 3)))

Types  == DOMAIN Typed
Loads  == [t \in Types |-> Typed[t] @@ Common]

\* The props that bound a size, and the size each bounds.
Bounds == [b \in {"minWidth", "maxWidth"} |-> "width"]
            @@ [b \in {"minHeight", "maxHeight"} |-> "height"]
Lower  == {"minWidth", "minHeight"}

\* Blueprint::number, ::boolean and ::text give way to the value before when the
\* prop is missing or of the other kind; a word nobody knows is no word.
Reading(field, given) ==
  LET reader == field[1] start == field[2]
      text   == IF given[1] = "text" THEN given[2] ELSE ""
      said   == given[1] \in {"number", "bool"}
  IN CASE reader = "number" -> IF said THEN AsNumber(given) ELSE start
       [] reader = "flag"   -> IF said THEN Truthy(given) ELSE start
       [] reader = "text"   -> text
       [] reader \in {"kept", "variant"} -> IF text = "" THEN start ELSE text
       [] reader \in {"align", "textAlign"} -> Nudged(text, Words[reader], start)
       [] reader = "size"   -> IF said THEN Fixed(AsNumber(given)) ELSE SizeSaid(text, start)
       [] OTHER             -> WordOr(text, Words[reader], start)

\* The widget a node becomes, when look answers what the node says of a prop.
Read(type, look(_)) ==
  LET bounded(spec, low, high) ==
        [spec EXCEPT !.min = IF look(low)[1] \in {"number", "bool"} THEN AsNumber(look(low)) ELSE @,
                     !.max = IF look(high)[1] \in {"number", "bool"} THEN AsNumber(look(high)) ELSE @]
  IN [n \in DOMAIN Loads[type] |->
        LET read == Reading(Loads[type][n], look(n))
        IN CASE n = "width"  -> bounded(read, "minWidth", "maxWidth")
             [] n = "height" -> bounded(read, "minHeight", "maxHeight")
             [] OTHER        -> read]

-----------------------------------------------------------------------------
(* Bindings                                                                *)

\* applyBoundValue: the props a binding may drive, of every widget and of each.
DrivesCommon == DOMAIN Bounds \cup (DOMAIN Common \ {"anchor"})
DrivesTyped ==
  [t \in {"panel"} |-> {"variant"}] @@
  ("label"     :> {"text", "wrap", "spans", "variant"}) @@
  ("button"    :> {"text", "padding", "variant"}) @@
  ("stream"    :> {"name", "fit"}) @@
  ("image"     :> {"src", "tint"}) @@
  ("tabs"      :> {"value", "variant"}) @@
  ("select"    :> {"value", "placeholder", "of", "textColumn", "valueColumn", "variant"}) @@
  ("option"    :> {"text", "value"}) @@
  ("tab"       :> {"title"}) @@
  ("checkbox"  :> {"label", "value", "variant"}) @@
  ("slider"    :> {"value", "min", "max", "variant"}) @@
  ("textfield" :> {"text", "placeholder", "suggestion", "language", "submitKey", "variant"}) @@
  ("stack"     :> {"arrange", "spacing", "padding", "hAlign", "vAlign", "spread"}) @@
  ("list"      :> {"follow", "revealRow", "variant"}) @@
  ("popup"     :> {"open", "anchor", "blocking", "gap", "padding", "placement", "variant"})

Drives == [t \in Types |-> DrivesCommon \cup IF t \in DOMAIN DrivesTyped THEN DrivesTyped[t] ELSE {}]

\* What one writes: a number, a truth or a text of whatever came; a word only when
\* it is one, and then "auto" is none; an arrangement is vertical unless it says not.
BoundReading(reader, old, x) ==
  LET text == IF x[1] = "text" THEN x[2] ELSE ""
  IN CASE reader = "number"  -> AsNumber(x)
       [] reader = "flag"    -> Truthy(x)
       [] reader \in {"text", "kept"} -> AsText(x)
       [] reader = "variant" -> text
       [] reader = "align"   -> Nudged(text, Words["align"] \ {"auto"}, old)
       [] reader = "size"    -> IF x[1] = "text" THEN SizeSaid(text, old) ELSE Fixed(AsNumber(x))
       [] reader = "arrange" -> IF text = "horizontal" THEN text ELSE "vertical"
       [] reader = "fit"     -> IF text = "stretch" THEN text ELSE "contain"
       [] reader \in {"pace", "colour"} -> WordOr(AsText(x), Words[reader], old)
       [] OTHER              -> WordOr(text, Words[reader], old)

\* applySize: the one prop a widget has that may refuse what it is given.
Refuses(type, name, x) ==
  name \notin DOMAIN Bounds /\ Loads[type][name][1] = "size" /\ x[1] = "text" /\ ~SizeParses(x[2])

\* applyBoundValue, for a prop it drives.
Applied(type, fields, name, x) ==
  IF name \in DOMAIN Bounds
    THEN LET n == AsNumber(x) size == Bounds[name]
         IN [fields EXCEPT ![size] = IF name \in Lower THEN [@ EXCEPT !.min = n]
                                     ELSE [@ EXCEPT !.max = n]]
    ELSE [fields EXCEPT ![name] = BoundReading(Loads[type][name][1], @, x)]
=============================================================================
