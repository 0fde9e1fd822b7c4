----------------------------- MODULE Expressions -----------------------------
(***************************************************************************)
(* What a binding is: the source of a thunk, parsed at build time into a    *)
(* short stack program (Layout/ExpressionParser.cpp) and evaluated against  *)
(* the signals while the application runs (Layout/Expression.cpp).          *)
(*                                                                         *)
(* A source is a sequence of tokens <<kind, value>>: esbuild prints one     *)
(* space around every operator, so reading characters and reading tokens    *)
(* come to the same.  A pool counts from 1.                                *)
(***************************************************************************)
EXTENDS Integers, Sequences, SequencesExt, TLC

CONSTANTS
  Spellings,    \* bound: the whole numbers std::stod reads out of a text
  Works         \* the commands the application bound, and the signal values each writes

OpOf(o)   == <<"op", o>>
WordOf(w) == <<"word", w>>
End       == OpOf("end")

-----------------------------------------------------------------------------
(* The parser                                                              *)

\* What reading has come to: the source, the next token, the program so far,
\* the handler's parameter, and whether the grammar refused the source.
Started(src, handler, row) ==
  [src |-> src, at |-> 1, handler |-> handler, row |-> row, param |-> "",
   code |-> <<>>, numbers |-> <<>>, texts |-> <<>>, names |-> <<>>, bad |-> FALSE]

Peek(p, ahead) ==
  IF p.at + ahead <= Len(p.src) THEN p.src[p.at + ahead] ELSE End
IsOp(p, o)   == Peek(p, 0) = OpOf(o)
IsWord(p)    == Peek(p, 0)[1] = "word"
Skip(p)      == [p EXCEPT !.at = @ + 1]
Taken(p, o)  == IF IsOp(p, o) THEN Skip(p) ELSE p

\* fail: nothing after it is read.
Failed(p)    == [p EXCEPT !.bad = TRUE, !.at = Len(p.src) + 1]
Expected(p, o) == IF IsOp(p, o) THEN Skip(p) ELSE Failed(p)

Emit(p, op, operand) == [p EXCEPT !.code = Append(@, <<op, operand>>)]

PlaceOf(s, v) == CHOOSE i \in DOMAIN s : s[i] = v

\* numberConstant, textConstant and signalSlot: one slot per value.
Pooled(p, pool, v) ==
  IF Contains(p[pool], v) THEN p ELSE [p EXCEPT ![pool] = Append(@, v)]

EmitPooled(p, op, pool, v) ==
  LET q == Pooled(p, pool, v) IN Emit(q, op, PlaceOf(q[pool], v))

\* Signals, commands and columns share one pool; the last two carry a mark.
Command(n) == "@" \o n
Column(n)  == "#" \o n

\* The engine's own names a layout may also write.
Writable == {"rda.maximized", "rda.minimized", "rda.fullscreen", "rda.open"}

\* tryStateName: state.<name>, or state.rda.<name>, with the tokens it takes; no
\* tokens when the source does not go on with one.
StateName(p) ==
  LET named(k) == Peek(p, k)[1] = "word"
  IN IF ~(Peek(p, 0) = WordOf("state") /\ Peek(p, 1) = OpOf(".") /\ named(2))
       THEN [takes |-> 0]
     ELSE IF Peek(p, 2) = WordOf("rda") /\ Peek(p, 3) = OpOf(".")
       THEN IF named(4) THEN [takes |-> 5, name |-> "rda." \o Peek(p, 4)[2],
                              engine |-> TRUE]
            ELSE [takes |-> 0]
       ELSE [takes |-> 3, name |-> Peek(p, 2)[2], engine |-> FALSE]

After(p, k) == [p EXCEPT !.at = @ + k]

Compound == ("+=" :> "Add") @@ ("-=" :> "Sub") @@ ("*=" :> "Mul") @@ ("/=" :> "Div")
Steps    == ("++" :> "Add") @@ ("--" :> "Sub")
Writes   == {"="} \cup DOMAIN Compound \cup DOMAIN Steps

\* parseOr down to parseMultiplicative, loosest first.
Levels ==
  << "||" :> "Or",
     "&&" :> "And",
     [o \in {"===", "=="} |-> "Equal"] @@ [o \in {"!==", "!="} |-> "NotEqual"],
     ("<=" :> "LessEqual") @@ (">=" :> "GreaterEqual") @@ ("<" :> "Less")
       @@ (">" :> "Greater"),
     ("+" :> "Add") @@ ("-" :> "Sub"),
     ("*" :> "Mul") @@ ("/" :> "Div") >>

RECURSIVE Expression(_), Conditional(_), Level(_, _), Operands(_, _), Unary(_),
          Template(_, _), Block(_, _)

\* Mutant: the operands to the right of an operator are read at its own level,
\* so that a row of them associates to the right.
RightAssociative(p, n) ==
  LET o == Peek(p, 0)[2]
  IN IF Peek(p, 0)[1] = "op" /\ o \in DOMAIN Levels[n]
       THEN Emit(Operands(Level(Skip(p), n + 1), n), Levels[n][o], 0)
       ELSE p

\* The loop of each of those six.
Operands(p, n) ==
  LET o == Peek(p, 0)[2]
  IN IF Peek(p, 0)[1] = "op" /\ o \in DOMAIN Levels[n]
       THEN Operands(Emit(Level(Skip(p), n + 1), Levels[n][o], 0), n)
       ELSE p

Level(p, n) ==
  IF n > Len(Levels) THEN Unary(p) ELSE Operands(Level(p, n + 1), n)

\* parsePrimary, for a word.
Word(p) ==
  LET w     == Peek(p, 0)[2]
      dot   == Peek(p, 1) = OpOf(".")
      named == Peek(p, 2)[1] = "word"
      deep(k) == Peek(p, k) \in {OpOf("."), OpOf("[")}
      s     == StateName(p)
  IN CASE w \in {"true", "false"} -> Emit(Skip(p), "PushBool", w = "true")
       [] Peek(p, 1) = OpOf("(") -> Failed(p)
       [] p.param # "" /\ w = p.param -> Emit(Skip(p), "PushEvent", 0)
       [] p.row # "" /\ w = p.row /\ dot ->
            IF ~named \/ deep(3) THEN Failed(p)
            ELSE EmitPooled(After(p, 3), "PushRowField", "names", Column(Peek(p, 2)[2]))
       [] w = "commands" /\ dot ->
            IF ~p.handler \/ ~named \/ Peek(p, 3) # OpOf("(") \/ Peek(p, 4) # OpOf(")")
              THEN Failed(p)
            ELSE EmitPooled(After(p, 5), "CallCommand", "names", Command(Peek(p, 2)[2]))
       [] w = "state" /\ dot ->
            IF s.takes = 0 \/ deep(s.takes) THEN Failed(p)
            ELSE EmitPooled(After(p, s.takes), "LoadSignal", "names", s.name)
       [] OTHER -> Failed(p)

Primary(p) ==
  LET t == Peek(p, 0)
  IN CASE t[1] = "num"  -> EmitPooled(Skip(p), "PushNumber", "numbers", t[2])
       [] t[1] = "text" -> EmitPooled(Skip(p), "PushText", "texts", t[2])
       [] t[1] = "word" -> Word(p)
       [] t = OpOf("(") -> Expected(Expression(Skip(p)), ")")
       [] t = OpOf("tick") -> Template(Skip(p), FALSE)
       [] OTHER         -> Failed(p)

Unary(p) ==
  CASE IsOp(p, "!") -> Emit(Unary(Skip(p)), "Not", 0)
    [] IsOp(p, "-") -> Emit(Unary(Skip(p)), "Neg", 0)
    [] IsOp(p, "+") -> Unary(Skip(p))
    [] OTHER        -> Primary(p)

\* parseTemplate: each piece becomes text and is joined to what is there.
Template(p, anything) ==
  LET joined(q) == IF anything THEN Emit(q, "Concat", 0) ELSE q
  IN CASE Peek(p, 0)[1] = "chunk" ->
            Template(joined(EmitPooled(Skip(p), "PushText", "texts", Peek(p, 0)[2])), TRUE)
       [] IsOp(p, "${") ->
            Template(Expected(joined(Emit(Expression(Skip(p)), "ToText", 0)), "}"), TRUE)
       [] IsOp(p, "tick") ->
            IF anything THEN Skip(p) ELSE EmitPooled(Skip(p), "PushText", "texts", "")
       [] OTHER -> Failed(p)

\* parseAssignment: a name of state, then what writes it, or neither.
Assignment(p) ==
  LET s == StateName(p)
      q == After(p, s.takes)
      o == Peek(q, 0)[2]
      stored(r) == EmitPooled(r, "StoreSignal", "names", s.name)
      loaded    == EmitPooled(Skip(q), "LoadSignal", "names", s.name)
  IN IF s.takes = 0 \/ Peek(q, 0)[1] # "op" \/ o \notin Writes THEN Conditional(p)
     ELSE IF s.engine /\ s.name \notin Writable THEN Failed(p)
     ELSE IF o = "=" THEN stored(Expression(Skip(q)))
     ELSE IF o \in DOMAIN Compound
       THEN stored(Emit(Expression(loaded), Compound[o], 0))
       ELSE stored(Emit(EmitPooled(loaded, "PushNumber", "numbers", 1), Steps[o], 0))

Expression(p) == Assignment(p)

\* parseTernary: both arms are compiled, and Select takes one of their values.
Conditional(p) ==
  LET q == Level(p, 1)
  IN IF IsOp(q, "?")
       THEN Emit(Expression(Expected(Expression(Skip(q)), ":")), "Select", 0)
       ELSE q

\* parseBlock: only the last statement's value survives.
Block(p, any) ==
  IF IsOp(p, "}") THEN IF any THEN Skip(p) ELSE Failed(p)
  ELSE IF Peek(p, 0) = End THEN Failed(p)
  ELSE LET q == IF any THEN Emit(p, "Pop", 0) ELSE p
           r == IF Peek(q, 0) = WordOf("return") THEN Skip(q) ELSE q
       IN Block(Taken(Expression(r), ";"), TRUE)

\* skipArrowPrefix and takeParameter: () =>, value =>, (value) =>.  A source that
\* opens with any other parenthesis is refused as a list of parameters.
Entered(p) ==
  LET takes(w)  == IF p.handler THEN [p EXCEPT !.param = w] ELSE Failed(p)
      past(q, k) == IF Peek(p, k) = OpOf("=>") THEN After(q, k + 1) ELSE q
      closes    == {k \in 1 .. Len(p.src) : Peek(p, k) = OpOf(")")}
      close     == CHOOSE k \in closes : \A j \in closes : k <= j
  IN CASE IsWord(p) -> IF Peek(p, 1) = OpOf("=>") THEN past(takes(Peek(p, 0)[2]), 1) ELSE p
       [] ~IsOp(p, "(") \/ closes = {} -> p
       [] OTHER ->
            CASE close = 1 -> past(p, 2)
              [] close = 2 /\ Peek(p, 1)[1] = "word" -> past(takes(Peek(p, 1)[2]), 3)
              [] OTHER -> Failed(p)

Body(p) == IF IsOp(p, "{") THEN Block(Skip(p), FALSE) ELSE Expression(p)

\* A program, unless something is left over.
ProgramOf(p) ==
  IF p.bad \/ p.at <= Len(p.src) THEN [ok |-> FALSE]
  ELSE [ok |-> TRUE,
        program |-> [code |-> Append(p.code, <<"Halt", 0>>), numbers |-> p.numbers,
                     texts |-> p.texts, names |-> p.names]]

\* parseBinding: a program, or the message the compiler shows.
ParseBinding(src, handler, row) == ProgramOf(Body(Entered(Started(src, handler, row))))

-----------------------------------------------------------------------------
(* Values                                                                  *)

\* <<kind, value>>.
Number(n) == <<"number", n>>
Bool(b)   == <<"bool", b>>
Text(t)   == <<"text", t>>

Truthy(x) ==
  CASE x[1] = "number" -> x[2] # 0
    [] x[1] = "bool"   -> x[2]
    [] x[1] = "text"   -> x[2] # ""

\* A text that spells no number counts as zero.
Spelled(t) ==
  IF \E n \in Spellings : ToString(n) = t
    THEN CHOOSE n \in Spellings : ToString(n) = t ELSE 0

AsNumber(x) ==
  CASE x[1] = "number" -> x[2]
    [] x[1] = "bool"   -> IF x[2] THEN 1 ELSE 0
    [] x[1] = "text"   -> Spelled(x[2])

AsText(x) ==
  CASE x[1] = "number" -> ToString(x[2])
    [] x[1] = "bool"   -> IF x[2] THEN "true" ELSE "false"
    [] x[1] = "text"   -> x[2]

-----------------------------------------------------------------------------
(* The evaluator                                                           *)

\* Quotients are whole: the layouts modelled divide only where they are.
Quotient(a, b) == IF b < 0 THEN (-a) \div (-b) ELSE a \div b

AsTexts(a, b) == a[1] = "text" \/ b[1] = "text"

Same(a, b) ==
  IF AsTexts(a, b) THEN AsText(a) = AsText(b) ELSE AsNumber(a) = AsNumber(b)

Joined(a, b) == Text(AsText(a) \o AsText(b))

Binary(op, a, b) ==
  CASE op = "Add"          -> IF AsTexts(a, b) THEN Joined(a, b)
                              ELSE Number(AsNumber(a) + AsNumber(b))
    [] op = "Concat"       -> Joined(a, b)
    [] op = "Sub"          -> Number(AsNumber(a) - AsNumber(b))
    [] op = "Mul"          -> Number(AsNumber(a) * AsNumber(b))
    [] op = "Div"          -> Number(Quotient(AsNumber(a), AsNumber(b)))
    [] op = "Equal"        -> Bool(Same(a, b))
    [] op = "NotEqual"     -> Bool(~Same(a, b))
    [] op = "Less"         -> Bool(AsNumber(a) < AsNumber(b))
    [] op = "LessEqual"    -> Bool(AsNumber(a) <= AsNumber(b))
    [] op = "Greater"      -> Bool(AsNumber(a) > AsNumber(b))
    [] op = "GreaterEqual" -> Bool(AsNumber(a) >= AsNumber(b))
    [] op = "And"          -> Bool(Truthy(a) /\ Truthy(b))
    [] op = "Or"           -> Bool(Truthy(a) \/ Truthy(b))

\* StoreSignal writes through the signal's own type.
Stored(type, x) ==
  CASE type = "number" -> Number(AsNumber(x))
    [] type = "bool"   -> Bool(Truthy(x))
    [] type = "text"   -> Text(AsText(x))

\* Signals::define: a signal that exists keeps its kind, and its value only when what
\* it would be given is of another one.
Defined(signals, name, x) ==
  IF name \in DOMAIN signals /\ signals[name][1] # x[1] THEN signals
  ELSE (name :> x) @@ signals

\* The machine: its stack, the signals by name, the signals a write changed, the
\* commands that ran, and whether it gave up.
Machine(table) ==
  [stack |-> <<>>, table |-> table, wrote |-> {}, ran |-> <<>>, bad |-> FALSE]

Push(m, x)  == [m EXCEPT !.stack = Append(@, x)]
TopOf(m, k) == m.stack[Len(m.stack) - k]
Drop(m, k)  == [m EXCEPT !.stack = SubSeq(@, 1, Len(@) - k)]
Broken(m)   == [m EXCEPT !.bad = TRUE]

Needs == [op \in {"StoreSignal", "Neg", "Not", "ToText", "Pop"} |-> 1]
           @@ ("Select" :> 3)
           @@ [op \in UNION {{Levels[n][o] : o \in DOMAIN Levels[n]} : n \in DOMAIN Levels}
                       \cup {"Concat"} |-> 2]

\* Signals::set: the observers of a signal hear of it when its value changes.
Wrote(m, n, x) ==
  IF m.table[n] = x THEN m ELSE [m EXCEPT !.table[n] = x, !.wrote = @ \cup {n}]

\* Commands::invoke: the work runs there and then.
Ran(m, c) ==
  LET q == [m EXCEPT !.ran = Append(@, c)]
  IN FoldFunctionOnSet(LAMBDA pair, n : Wrote(n, pair[1], pair[2]), q,
                       [s \in DOMAIN Works[c] |-> <<s, Works[c][s]>>], DOMAIN Works[c])

\* One instruction of the program.  ids are its names resolved, to a signal, a
\* command or a column ("" where the table has none); called is what the handler
\* was called with, <<>> for nothing, and row the row a template shows, likewise.
Executed(program, ids, called, row, m, i) ==
  LET op == i[1] k == i[2] IN
  IF m.bad THEN m
  ELSE IF op \in DOMAIN Needs /\ Len(m.stack) < Needs[op] THEN Broken(m)
  ELSE CASE op = "Halt"       -> m
         [] op = "PushNumber" -> Push(m, Number(program.numbers[k]))
         [] op = "PushText"   -> Push(m, Text(program.texts[k]))
         [] op = "PushBool"   -> Push(m, Bool(k))
         [] op = "PushEvent"  -> IF called = <<>> THEN Broken(m) ELSE Push(m, called[1])
         [] op = "LoadSignal" -> Push(m, m.table[ids[k]])
         [] op = "StoreSignal" ->
              Wrote(m, ids[k], Stored(m.table[ids[k]][1], TopOf(m, 0)))
         [] op = "PushRowField" ->
              IF row = <<>> \/ ids[k] = "" THEN Broken(m) ELSE Push(m, row[1][ids[k]])
         [] op = "CallCommand" ->
              IF ids[k] \notin DOMAIN Works THEN Broken(m) ELSE Push(Ran(m, ids[k]), Bool(TRUE))
         [] op = "Neg"    -> Push(Drop(m, 1), Number(-AsNumber(TopOf(m, 0))))
         [] op = "Not"    -> Push(Drop(m, 1), Bool(~Truthy(TopOf(m, 0))))
         [] op = "ToText" -> Push(Drop(m, 1), Text(AsText(TopOf(m, 0))))
         [] op = "Pop"    -> Drop(m, 1)
         [] op = "Select" -> Push(Drop(m, 3), IF Truthy(TopOf(m, 2)) THEN TopOf(m, 1)
                                              ELSE TopOf(m, 0))
         [] OTHER         -> Push(Drop(m, 2), Binary(op, TopOf(m, 1), TopOf(m, 0)))

Evaluate(program, ids, table, called, row) ==
  LET m == FoldLeft(LAMBDA n, i : Executed(program, ids, called, row, n, i),
                    Machine(table), program.code)
  IN IF m.stack = <<>> THEN Broken(m) ELSE m

ValueOf(m) == m.stack[Len(m.stack)]
=============================================================================
