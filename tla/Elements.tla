------------------------------- MODULE Elements --------------------------------
(***************************************************************************)
(* The elements a layout may use and the props each takes, as the schema     *)
(* declares them (Layout/WidgetSchema.cpp) and as the generated types let a  *)
(* layout write them (Layout/TypeEmitter.cpp).                               *)
(***************************************************************************)
EXTENDS Widgets

Props(names, kind)       == [n \in names |-> <<kind, {}>>]
WordProp(name, kind, words) == name :> <<kind, words>>
Event(name, handed)      == name :> <<"event", {handed}>>
Styled                   == Props({"variant"}, "variant")

TextAligns == {"start", "center", "end"}
Aligns     == TextAligns \cup {"stretch"}

\* kCommon.
OfferedToAll ==
  Props({"id", "route", "pace"}, "string") @@ Props({"visible", "dragWindow"}, "boolean")
  @@ Props({"animate", "x", "y", "w", "h", "marginRight", "marginBottom",
            "minWidth", "maxWidth", "minHeight", "maxHeight"}, "number")
  @@ Props({"width", "height"}, "size")
  @@ WordProp("hAlignSelf", "align", Aligns \cup {"auto"})
  @@ WordProp("vAlignSelf", "align", Aligns \cup {"auto"})
  @@ WordProp("anchor", "enum", {"fill", "stretchX", "stretchY", "bottomLeft", "bottomRight"})
  @@ Event("onHover", "bool")

\* kContainer down to kViewport: the elements that hold others.
OfferedByHolders ==
  ("container" :> Props({"visible"}, "boolean")) @@
  ("panel"     :> Styled) @@
  ("stack"     :> (WordProp("arrange", "enum", {"vertical", "horizontal"})
     @@ Props({"spacing", "padding"}, "number")
     @@ WordProp("hAlign", "align", Aligns) @@ WordProp("vAlign", "align", Aligns)
     @@ WordProp("spread", "enum", {"spaceBetween", "spaceAround"}))) @@
  ("scroll"    :> (Styled @@ Props({"spacing", "padding", "barWidth", "wheelStep"}, "number")
     @@ WordProp("hAlign", "align", Aligns) @@ Props({"vertical", "horizontal"}, "boolean"))) @@
  ("splitter"  :> (WordProp("arrange", "enum", {"vertical", "horizontal"})
     @@ Props({"value", "min", "max"}, "number"))) @@
  ("viewport"  :> (Props({"name"}, "string") @@ Props({"visible"}, "boolean")))

\* kLabel down to kPopup.
OfferedByTheRest ==
  ("label"     :> (Styled @@ Props({"text", "spans"}, "string") @@ Props({"wrap"}, "boolean")
     @@ WordProp("hAlign", "align", TextAligns) @@ WordProp("vAlign", "align", TextAligns))) @@
  ("button"    :> (Styled @@ Props({"text"}, "string") @@ Props({"padding"}, "number")
     @@ WordProp("hAlign", "align", TextAligns) @@ Event("onClick", "none"))) @@
  ("checkbox"  :> (Styled @@ Props({"label"}, "string") @@ Props({"value"}, "boolean")
     @@ Event("onChange", "bool"))) @@
  ("slider"    :> (Styled @@ Props({"value", "min", "max"}, "number")
     @@ Event("onChange", "number"))) @@
  ("list"      :> (Styled @@ Props({"of", "rowHeights"}, "string") @@ Props({"follow"}, "boolean")
     @@ Props({"rowHeight", "spacing", "poolSize", "barWidth", "wheelStep", "revealRow"},
              "number"))) @@
  ("image"     :> (Props({"src", "tint"}, "string")
     @@ WordProp("fit", "enum", {"contain", "stretch"}))) @@
  ("stream"    :> (Props({"name"}, "string") @@ WordProp("fit", "enum", {"contain", "stretch"}))) @@
  ("tabs"      :> (Styled @@ Props({"value", "barHeight"}, "number")
     @@ Event("onChange", "number"))) @@
  ("tab"       :> Props({"title"}, "string")) @@
  ("select"    :> (Styled @@ Event("onChange", "text")
     @@ Props({"value", "placeholder", "of", "textColumn", "valueColumn"}, "string"))) @@
  ("option"    :> Props({"text", "value"}, "string")) @@
  ("dockspace" :> (Props({"persist"}, "string") @@ WordProp("arrange", "enum", {"panes", "tiles"})
     @@ Props({"columns", "rowHeight", "gap"}, "number"))) @@
  ("dock"      :> (Styled @@ Props({"title"}, "string") @@ Props({"closable"}, "boolean")
     @@ Props({"col", "row", "cols", "rows", "size"}, "number")
     @@ WordProp("side", "enum", {"floating", "left", "right", "top", "bottom", "center"}))) @@
  ("textfield" :> (Styled @@ Props({"text", "placeholder", "suggestion", "language"}, "string")
     @@ WordProp("mode", "enum", {"line", "document", "code"})
     @@ WordProp("submitKey", "enum", {"enter", "ctrlEnter", "both", "none"})
     @@ Event("onChange", "text") @@ Event("onCaret", "number")
     @@ Event("onAccept", "none") @@ Event("onDismiss", "none") @@ Event("onSubmit", "none"))) @@
  ("popup"     :> (Styled @@ Props({"open", "blocking"}, "boolean") @@ Props({"anchor"}, "string")
     @@ WordProp("placement", "enum", {"below", "above", "right", "left", "over"})
     @@ Props({"gap", "padding"}, "number") @@ Event("onClose", "none")))

\* kWidgets.
OfferedBy == OfferedByHolders @@ OfferedByTheRest

\* findProp: a widget's own props, and then the ones every widget takes.
Offers == [t \in DOMAIN OfferedBy |-> OfferedBy[t] @@ OfferedToAll]

\* SizeSpec of the emitted types: any number may follow, one below none as well,
\* which SizeSpec::parse refuses.
SizeTyped(t) ==
  \E w \in {"content", "fill"} \cup {"fill:" \o ToString(n) : n \in Spellings} :
    t = w \/ \E sign \in {"+", "-"}, n \in Spellings : t = w \o sign \o ToString(n)

\* typeExpression: what a prop of a kind may be given.  A nudge follows any word
\* but auto, a size may be a number, and a variant's binding any text at all.
Admits(prop, x) ==
  LET kind == prop[1]
      s    == Signed(x[2])
  IN CASE kind \in {"string", "variant"} -> x[1] = "text"
       [] kind = "number"  -> x[1] = "number"
       [] kind = "boolean" -> x[1] = "bool"
       [] kind = "enum"    -> x[1] = "text" /\ x[2] \in prop[2]
       [] kind = "align"   -> /\ x[1] = "text"
                              /\ x[2] \in prop[2] \/ (s.ok /\ s.word \in prop[2] \ {"auto"})
       [] kind = "size"    -> x[1] = "number" \/ (x[1] = "text" /\ SizeTyped(x[2]))
       [] OTHER            -> FALSE
=============================================================================
