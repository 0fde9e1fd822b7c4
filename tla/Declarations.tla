------------------------------ MODULE Declarations ------------------------------
(***************************************************************************)
(* One declaration of an application's state, and the module each language   *)
(* is given for it (Layout/StateSchema.cpp, and the state a layout is typed   *)
(* against, Layout/TypeEmitter.cpp).                                         *)
(*                                                                         *)
(* A file is [form, state, commands, tables, routes], each a sequence of      *)
(* <<name, what is said of it>>.  A generated module is what it does: what    *)
(* its define creates, in order, and the members an application writes        *)
(* through, as <<scope, how it is written, what it reaches>>.                  *)
(***************************************************************************)
EXTENDS Expressions

CONSTANT Keywords      \* bound: the declared names that are words of C#

Sides == {"cpp", "python", "node", "csharp"}

-----------------------------------------------------------------------------
(* Reading a declaration                                                   *)

FieldOf(name, type, value) ==
  [name |-> name, type |-> type, value |-> value, choices |-> <<>>]

\* readValue: the type is what the initial value is, and the value is kept as text.
ReadValue(name, x) ==
  CASE x[1] = "bool"   -> FieldOf(name, "bool", IF x[2] THEN "true" ELSE "false")
    [] x[1] = "number" -> FieldOf(name, "number", ToString(x[2]))
    [] x[1] = "text"   -> FieldOf(name, "text", x[2])
    [] OTHER           -> FieldOf(name, "none", "")

\* readField: the value, or { value, doc }.
ReadField(entry) ==
  ReadValue(entry[1], IF entry[2][1] = "long" THEN entry[2][2] ELSE entry[2])

FieldsOf(entries) == [i \in DOMAIN entries |-> ReadField(entries[i])]
AllTyped(fields) == \A i \in DOMAIN fields : fields[i].type # "none"

Refused == [ok |-> FALSE]
NamesOf(fields) == {fields[i].name : i \in DOMAIN fields}

\* loadFromTypeScript.  What is said of a route is [layout, params].
FromTypeScript(file) ==
  LET fields == FieldsOf(file.state)
      tables == [i \in DOMAIN file.tables |->
                   [name |-> file.tables[i][1], columns |-> FieldsOf(file.tables[i][2])]]
      routes == [i \in DOMAIN file.routes |->
                   [name |-> file.routes[i][1], layout |-> file.routes[i][2].layout,
                    params |-> file.routes[i][2].params]]
  IN IF /\ AllTyped(fields)
        /\ \A i \in DOMAIN tables : tables[i].columns # <<>> /\ AllTyped(tables[i].columns)
        /\ \A i \in DOMAIN routes : routes[i].layout # ""
       THEN [ok |-> TRUE, fields |-> fields, tables |-> tables, routes |-> routes,
             commands |-> [i \in DOMAIN file.commands |-> file.commands[i][1]]]
       ELSE Refused

\* deriveRoutes: which screen is showing is state, and back and forward commands.
WithRoutes(schema) ==
  LET route == [FieldOf("route", "text", schema.routes[1].name) EXCEPT
                  !.choices = [i \in DOMAIN schema.routes |-> schema.routes[i].name]]
  IN IF schema.routes = <<>> THEN schema
     ELSE IF \/ "route" \in NamesOf(schema.fields)
             \/ ToSet(schema.commands) \cap {"back", "forward"} # {}
             \/ \E i \in DOMAIN schema.routes :
                  ~(ToSet(schema.routes[i].params) \subseteq NamesOf(schema.fields))
       THEN Refused
       ELSE [schema EXCEPT !.fields = Append(@, route),
                           !.commands = @ \o <<"back", "forward">>]

Twice(names) == \E i, j \in DOMAIN names : i # j /\ names[i] = names[j]

\* The XML form: an element names the type, and its attributes the rest.  What is
\* said of a field is <<element, value>>.
FromXml(file) ==
  LET read(entries) == [i \in DOMAIN entries |->
        FieldOf(entries[i][1],
                IF entries[i][2][1] \in {"number", "bool", "text"} THEN entries[i][2][1] ELSE "none",
                entries[i][2][2])]
      fields   == read(file.state)
      tables   == [i \in DOMAIN file.tables |->
                     [name |-> file.tables[i][1], columns |-> read(file.tables[i][2])]]
      commands == [i \in DOMAIN file.commands |-> file.commands[i][1]]
  IN IF /\ AllTyped(fields) /\ "" \notin NamesOf(fields)
        /\ ~Twice([i \in DOMAIN fields |-> fields[i].name])
        /\ "" \notin ToSet(commands) /\ ~Twice(commands)
        /\ \A i \in DOMAIN tables :
             /\ tables[i].name # "" /\ tables[i].columns # <<>>
             /\ AllTyped(tables[i].columns) /\ "" \notin NamesOf(tables[i].columns)
       THEN [ok |-> TRUE, fields |-> fields, tables |-> tables, commands |-> commands,
             routes |-> <<>>]
       ELSE Refused

\* loadStateSchema.
LoadStateSchema(file) ==
  IF file.form = "xml" THEN FromXml(file)
  ELSE LET schema == FromTypeScript(file) IN IF schema.ok THEN WithRoutes(schema) ELSE schema

-----------------------------------------------------------------------------
(* Literals                                                                *)

CharsOf(t) == [i \in 1 .. Len(t) |-> SubSeq(t, i, i)]
JoinedText(chars) == FoldLeft(LAMBDA t, c : t \o c, "", chars)

\* A text as a literal: a quote and a backslash escaped, a new line by C++ alone.
Quoted(t, lines) ==
  LET said(c) == IF c \in {"\"", "\\"} THEN "\\" \o c
                 ELSE IF lines /\ c = "\n" THEN "\\n" ELSE c
  IN "\"" \o JoinedText([i \in 1 .. Len(t) |-> said(CharsOf(t)[i])]) \o "\""

\* What the language makes of it: the text, unless the literal does not end where
\* it should.
ReadBack(literal) ==
  LET step(r, c) ==
        IF r.over THEN [r EXCEPT !.ok = FALSE]
        ELSE IF r.escape
          THEN [r EXCEPT !.escape = FALSE, !.text = @ \o IF c = "n" THEN "\n" ELSE c]
        ELSE CASE c = "\\" -> [r EXCEPT !.escape = TRUE]
               [] c = "\"" -> [r EXCEPT !.over = TRUE]
               [] c = "\n" -> [r EXCEPT !.ok = FALSE]
               [] OTHER    -> [r EXCEPT !.text = @ \o c]
      r == FoldLeft(step, [text |-> "", escape |-> FALSE, over |-> FALSE, ok |-> TRUE],
                    Tail(CharsOf(literal)))
  IN [ok |-> r.ok /\ r.over, text |-> r.text]

\* cppLiteral, as the value it spells.
CppLiteral(field) ==
  CASE field.type = "number" -> Number(Spelled(field.value))
    [] field.type = "bool"   -> Bool(field.value \in {"true", "1"})
    [] field.type = "text"   -> Text(ReadBack(Quoted(field.value, TRUE)).text)

\* pythonLiteral, jsLiteral and csharpLiteral.
ScriptLiteral(field) ==
  CASE field.type = "number" -> Number(Spelled(field.value))
    [] field.type = "bool"   -> Bool(field.value = "true")
    [] field.type = "text"   -> Text(ReadBack(Quoted(field.value, FALSE)).text)

LiteralReads(side, field) ==
  field.type = "text" => ReadBack(Quoted(field.value, side = "cpp")).ok

-----------------------------------------------------------------------------
(* What the generated define does                                           *)

\* The number the three scripting sides write for a column's type, and what
\* rda_define_column makes of it.
KindCode(type) == CASE type = "bool" -> 1 [] type = "text" -> 2 [] OTHER -> 0
ColumnKind(code) == CASE code = 1 -> "bool" [] code = 2 -> "text" [] OTHER -> "number"

EmptyWorld == [signals |-> <<>>, commands |-> <<>>, tables |-> <<>>, columns |-> <<>>]

\* Commands::define, Tables::define and Table::defineColumn: a name that is there
\* already stays what it is.
DefinedSignal(w, name, x) == [w EXCEPT !.signals = Defined(@, name, x)]
DefinedCommand(w, name) ==
  IF Contains(w.commands, name) THEN w ELSE [w EXCEPT !.commands = Append(@, name)]
DefinedTable(w, name) == [w EXCEPT !.columns = @ @@ (name :> <<>>)]
DefinedColumn(w, table, name, kind) ==
  IF \E i \in DOMAIN w.columns[table] : w.columns[table][i][1] = name THEN w
  ELSE [w EXCEPT !.columns[table] = Append(@, <<name, kind>>)]

\* Every define: the signals, then the commands, then the tables and their columns.
DefinedIn(schema, literal(_), kind(_)) ==
  LET signals  == FoldLeft(LAMBDA w, f : DefinedSignal(w, f.name, literal(f)),
                           EmptyWorld, schema.fields)
      commands == FoldLeft(DefinedCommand, signals, schema.commands)
      table(w, t) == FoldLeft(LAMBDA v, c : DefinedColumn(v, t.name, c.name, kind(c.type)),
                              DefinedTable(w, t.name), t.columns)
  IN FoldLeft(table, commands, schema.tables)

\* The define of emitStateHeader, emitStatePython, emitStateNode and emitStateCSharp:
\* C++ names a column's type, and the others number it.
CppDefine(schema)    == DefinedIn(schema, CppLiteral, LAMBDA type : type)
PythonDefine(schema) == DefinedIn(schema, ScriptLiteral, LAMBDA type : ColumnKind(KindCode(type)))
NodeDefine(schema)   == DefinedIn(schema, ScriptLiteral, LAMBDA type : ColumnKind(KindCode(type)))
CsharpDefine(schema) == DefinedIn(schema, ScriptLiteral, LAMBDA type : ColumnKind(KindCode(type)))

Define(side, schema) ==
  CASE side = "cpp"    -> CppDefine(schema)
    [] side = "python" -> PythonDefine(schema)
    [] side = "node"   -> NodeDefine(schema)
    [] side = "csharp" -> CsharpDefine(schema)

\* The screens each side hands to the router.
Screens(schema) ==
  [i \in DOMAIN schema.routes |->
     <<schema.routes[i].name, schema.routes[i].layout, schema.routes[i].params>>]

-----------------------------------------------------------------------------
(* The members an application writes through                                *)

Lowers  == "abcdefghijklmnopqrstuvwxyz"
Uppers  == "ABCDEFGHIJKLMNOPQRSTUVWXYZ"
LowerAt(c) == {i \in 1 .. Len(Lowers) : SubSeq(Lowers, i, i) = c}
\* Only the first letter moves, and only when it is a small one.
Capital(name) ==
  LET c == SubSeq(name, 1, 1)
  IN IF LowerAt(c) = {} THEN name
     ELSE SubSeq(Uppers, CHOOSE i \in LowerAt(c) : TRUE, CHOOSE i \in LowerAt(c) : TRUE)
            \o SubSeq(name, 2, Len(name))

SetterName(name)    == "set" \o Capital(name)
HandlerName(name)   == "on" \o Capital(name)
RowStructName(name) == Capital(name) \o "Row"
CsharpName(name)    == IF name \in Keywords THEN "@" \o name ELSE name
CppType(type) ==
  CASE type = "number" -> "double" [] type = "bool" -> "bool" [] OTHER -> "std::string_view"

Each(s, item(_)) == [i \in DOMAIN s |-> item(s[i])]
Flat(ss) == FoldLeft(LAMBDA s, t : s \o t, <<>>, ss)

\* emitStateHeader: functions of one namespace, by name and parameters.
CppMembers(schema) ==
  Flat(Each(schema.fields, LAMBDA f :
         << <<"", f.name \o "()", <<"get", f.name>>>>,
            <<"", SetterName(f.name) \o "(" \o CppType(f.type) \o ")", <<"set", f.name>>>> >>))
  \o Each(schema.commands, LAMBDA c : <<"", HandlerName(c) \o "(work)", <<"bind", c>>>>)
  \o Flat(Each(schema.tables, LAMBDA t :
         << <<"", t.name \o "()", <<"table", t.name>>>>,
            <<"", SetterName(t.name) \o "(" \o RowStructName(t.name) \o ")", <<"fill", t.name>>>> >>))
  \o <<<<"", "ids()", <<"own">>>>, <<"", "define()", <<"own">>>>>>
  \o (IF schema.commands = <<>> THEN <<>> ELSE <<<<"", "commandIds()", <<"own">>>>>>)
  \o (IF schema.tables = <<>> THEN <<>> ELSE <<<<"", "tableIds()", <<"own">>>>>>)
  \o (IF schema.routes = <<>> THEN <<>> ELSE <<<<"", "routes()", <<"own">>>>>>)

\* emitStatePython and emitStateNode: an object for the state, one for the
\* commands, and one for each table, whose own members come before its columns'.
ScriptMembers(schema, setter(_)) ==
  Each(schema.fields, LAMBDA f : <<"State", f.name, <<"get and set", f.name>>>>)
  \o Each(schema.commands, LAMBDA c : <<"Commands", c, <<"bind", c>>>>)
  \o Flat(Each(schema.tables, LAMBDA t :
       << <<t.name, "NAME", <<"own">>>>, <<t.name, "COLUMNS", <<"own">>>>,
          <<t.name, "rows", <<"rows", t.name>>>>, <<t.name, "fill", <<"fill", t.name>>>> >>
       \o Flat(Each(t.columns, LAMBDA c :
            << <<t.name, setter(c.name), <<"run", c.name>>>>,
               <<t.name, c.name, <<"cell", c.name>>>> >>))))

PythonMembers(schema) == ScriptMembers(schema, LAMBDA c : "set_" \o c)
NodeMembers(schema)   == ScriptMembers(schema, SetterName)

\* emitStateCSharp.
CsharpMembers(schema) ==
  Each(schema.fields, LAMBDA f : <<"State", CsharpName(f.name), <<"get and set", f.name>>>>)
  \o Each(schema.commands, LAMBDA c : <<"Commands", CsharpName(c), <<"bind", c>>>>)
  \o Flat(Each(schema.tables, LAMBDA t :
       << <<t.name, "NAME", <<"own">>>>, <<t.name, "Row", <<"own">>>>,
          <<t.name, "Rows", <<"rows", t.name>>>>, <<t.name, "Fill", <<"fill", t.name>>>> >>
       \o Flat(Each(t.columns, LAMBDA c :
            << <<t.name, SetterName(c.name), <<"run", c.name>>>>,
               <<t.name, CsharpName(c.name), <<"cell", c.name>>>> >>))))

Members(side, schema) ==
  CASE side = "cpp"    -> CppMembers(schema)
    [] side = "python" -> PythonMembers(schema)
    [] side = "node"   -> NodeMembers(schema)
    [] side = "csharp" -> CsharpMembers(schema)

SameName(members, i, j) == members[i][1] = members[j][1] /\ members[i][2] = members[j][2]
Clash(members) == \E i, j \in DOMAIN members : i < j /\ SameName(members, i, j)

\* Whether the language accepts the module: a literal ends on its line, and C++ and
\* C# take a name once.
Builds(side, schema) ==
  /\ \A i \in DOMAIN schema.fields : LiteralReads(side, schema.fields[i])
  /\ side \in {"cpp", "csharp"} => ~Clash(Members(side, schema))

\* How each side writes an assignment to a field and a filling of a table.
SetCall(side, f) ==
  CASE side = "cpp"    -> <<"", SetterName(f.name) \o "(" \o CppType(f.type) \o ")">>
    [] side = "csharp" -> <<"State", CsharpName(f.name)>>
    [] OTHER           -> <<"State", f.name>>
FillCall(side, table) ==
  CASE side = "cpp"    -> <<"", SetterName(table) \o "(" \o RowStructName(table) \o ")">>
    [] side = "csharp" -> <<table, "Fill">>
    [] OTHER           -> <<table, "fill">>

\* What a call reaches: the last definition of a name is the one that stands.
Reaches(side, schema, call) ==
  LET members == Members(side, schema)
      named   == {i \in DOMAIN members : members[i][1] = call[1] /\ members[i][2] = call[2]}
  IN IF named = {} THEN <<"nothing">>
     ELSE members[CHOOSE i \in named : \A j \in named : j <= i][3]

\* Mutant: the first column is written to every row and the rest are not.
FilledFirstOnly(columns, rows) ==
  [i \in DOMAIN rows |-> [c \in {columns[1][1]} |-> rows[i][c]]]

\* fill, of the scripting sides: the rows replace what was there, a column at a time,
\* each column by its name.
FilledByName(columns, rows) ==
  [i \in DOMAIN rows |->
     [c \in {columns[k][1] : k \in DOMAIN columns} |-> rows[i][c]]]

\* The setter of a table in C++: the k-th column declared is written to the k-th the
\* table has.
FilledByPlace(columns, declared, rows) ==
  [i \in DOMAIN rows |->
     [c \in {columns[k][1] : k \in DOMAIN columns} |->
        rows[i][declared[CHOOSE k \in DOMAIN columns : columns[k][1] = c].name]]]

Filled(side, columns, table, rows) ==
  IF side = "cpp" THEN FilledByPlace(columns, table.columns, rows) ELSE FilledByName(columns, rows)

-----------------------------------------------------------------------------
(* What a layout is typed against                                           *)

\* RdaState, RdaRow and RdaCommands.
StateType(schema) ==
  [n \in NamesOf(schema.fields) |->
     LET f == CHOOSE g \in ToSet(schema.fields) : g.name = n
     IN IF f.choices = <<>> THEN <<f.type, {}>> ELSE <<"choice", ToSet(f.choices)>>]
RowType(schema) ==
  LET columns == UNION {ToSet(schema.tables[i].columns) : i \in DOMAIN schema.tables}
  IN [n \in {c.name : c \in columns} |-> {c.type : c \in {d \in columns : d.name = n}}]
CommandType(schema) == ToSet(schema.commands)
=============================================================================
