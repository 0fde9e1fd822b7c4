------------------------------ MODULE Blueprints ------------------------------
(***************************************************************************)
(* The file a compiled layout is (Layout/Blueprint.cpp): nodes, props and    *)
(* bindings as flat arrays that index one another, a pool for each kind of   *)
(* thing a program holds, and one table of strings.  The builder writes it,  *)
(* the loader reads it after one check.                                      *)
(*                                                                         *)
(* Indices count from 1, so 0 is kNoParent, and a child range that was never *)
(* set is empty.  Sizes are counted in the file's own bytes.                 *)
(***************************************************************************)
EXTENDS Integers, Sequences, SequencesExt

NoParent == 0

-----------------------------------------------------------------------------
(* The builder                                                             *)

EmptyBuilder ==
  [strings |-> <<>>, nodes |-> <<>>, props |-> <<>>, bindings |-> <<>>,
   code |-> <<>>, refs |-> <<>>, numbers |-> <<>>]

Indexed(s, v) == CHOOSE i \in DOMAIN s : s[i] = v

\* intern: a text is stored once.
Interned(b, s) ==
  IF Contains(b.strings, s) THEN b ELSE [b EXCEPT !.strings = Append(@, s)]

AllInterned(b, texts) == FoldLeft(Interned, b, texts)

AddNode(b, type, id, parent) ==
  LET c == AllInterned(b, <<type, id>>)
  IN [c EXCEPT !.nodes = Append(@,
        [type |-> Indexed(c.strings, type), id |-> Indexed(c.strings, id),
         parent |-> parent, firstChild |-> 0, childCount |-> 0,
         firstProp |-> 0, propCount |-> 0])]

SetChildRange(b, n, first, count) ==
  [b EXCEPT !.nodes[n].firstChild = first, !.nodes[n].childCount = count]

\* addProp: a node's props are contiguous, so a prop of a node that is no longer
\* the last one is dropped.
AddProp(b, n, key, value) ==
  LET c     == AllInterned(b, IF value[1] = "text" THEN <<key, value[2]>> ELSE <<key>>)
      owner == c.nodes[n]
      first == IF owner.propCount = 0 THEN Len(c.props) + 1 ELSE owner.firstProp
      prop  == [key |-> Indexed(c.strings, key), kind |-> value[1],
                text |-> IF value[1] = "text" THEN Indexed(c.strings, value[2]) ELSE 0,
                number |-> IF value[1] = "text" THEN 0 ELSE value[2]]
  IN IF first + owner.propCount # Len(c.props) + 1 THEN c
     ELSE [c EXCEPT !.props = Append(@, prop),
                    !.nodes[n].firstProp = first, !.nodes[n].propCount = @ + 1]

\* addBinding: a program goes into the pools, its texts and names by reference.
AddBinding(b, n, key, kind, program) ==
  LET c == AllInterned(b, <<key>> \o program.texts \o program.names)
      refs(texts) == [i \in DOMAIN texts |-> Indexed(c.strings, texts[i])]
  IN [c EXCEPT !.code = @ \o program.code,
               !.numbers = @ \o program.numbers,
               !.refs = @ \o refs(program.texts) \o refs(program.names),
               !.bindings = Append(@,
                 [node |-> n, key |-> Indexed(c.strings, key), kind |-> kind,
                  firstCode |-> Len(b.code) + 1, codeCount |-> Len(program.code),
                  firstNumber |-> Len(b.numbers) + 1, numberCount |-> Len(program.numbers),
                  firstText |-> Len(b.refs) + 1, textCount |-> Len(program.texts),
                  firstSignal |-> Len(b.refs) + Len(program.texts) + 1,
                  signalCount |-> Len(program.names)])]

-----------------------------------------------------------------------------
(* The file                                                                *)

Magic == "RDAB"
Version == 2

\* What the header says of the sections that follow it.
Header(b) ==
  [magic |-> Magic, version |-> Version, nodeCount |-> Len(b.nodes),
   propCount |-> Len(b.props), bindingCount |-> Len(b.bindings),
   instructionCount |-> Len(b.code), refCount |-> Len(b.refs),
   numberCount |-> Len(b.numbers), stringCount |-> Len(b.strings),
   stringBytes |-> FoldLeft(LAMBDA n, s : n + Len(s) + 1, 0, b.strings)]

\* sectionsFor: where the last section ends.
TotalOf(h) ==
  40 + 28 * h.nodeCount + 16 * h.propCount + 44 * h.bindingCount
     + 8 * h.instructionCount + 4 * h.refCount + 8 * h.numberCount
     + 8 * h.stringCount + h.stringBytes

\* finish.  bytes is how many of them reached the disk.
Finish(b) == [header |-> Header(b), body |-> b, bytes |-> TotalOf(Header(b))]

\* A file somebody stopped writing half way.
Cut(file) == [file EXCEPT !.bytes = 40 + 28]

Within(first, count, pool) == first + count <= Len(pool) + 1

\* Blueprint::parse.
Parsed(file) ==
  LET h == file.header
      b == file.body
      strings == DOMAIN b.strings
  IN /\ file.bytes >= 40
     /\ h.magic = Magic /\ h.version = Version
     /\ TotalOf(h) = file.bytes
     /\ \A i \in DOMAIN b.props :
          /\ b.props[i].key \in strings
          /\ b.props[i].kind \in {"text", "number", "bool"}
          /\ b.props[i].kind = "text" => b.props[i].text \in strings
     /\ \A i \in DOMAIN b.refs : b.refs[i] \in strings
     /\ \A i \in DOMAIN b.bindings :
          LET r == b.bindings[i]
          IN /\ r.node \in DOMAIN b.nodes /\ r.key \in strings
             /\ r.kind \in {"value", "event"}
             /\ Within(r.firstCode, r.codeCount, b.code)
             /\ Within(r.firstNumber, r.numberCount, b.numbers)
             /\ Within(r.firstText, r.textCount, b.refs)
             /\ Within(r.firstSignal, r.signalCount, b.refs)
     /\ \A i \in DOMAIN b.nodes :
          LET n == b.nodes[i]
          IN /\ n.type \in strings /\ n.id \in strings
             /\ Within(n.firstChild, n.childCount, b.nodes)
             /\ Within(n.firstProp, n.propCount, b.props)
             /\ n.parent < i

-----------------------------------------------------------------------------
(* The reader                                                              *)

Slice(pool, first, count) == SubSeq(pool, first, first + count - 1)

\* programFor: the program of a binding, out of the pools.
ProgramFor(bp, r) ==
  LET texts(first, count) ==
        LET refs == Slice(bp.refs, first, count)
        IN [i \in DOMAIN refs |-> bp.strings[refs[i]]]
  IN [code |-> Slice(bp.code, r.firstCode, r.codeCount),
      numbers |-> Slice(bp.numbers, r.firstNumber, r.numberCount),
      texts |-> texts(r.firstText, r.textCount),
      names |-> texts(r.firstSignal, r.signalCount)]

\* find, and the typed reads: a node's first prop of that name as a value, or
\* <<"none">>.
PropOf(bp, n, key) ==
  LET node  == bp.nodes[n]
      mine  == Slice(bp.props, node.firstProp, node.propCount)
      found == {i \in DOMAIN mine : bp.strings[mine[i].key] = key}
  IN IF found = {} THEN <<"none">>
     ELSE LET p == mine[CHOOSE i \in found : \A j \in found : i <= j]
          IN <<p.kind, IF p.kind = "text" THEN bp.strings[p.text] ELSE p.number>>
=============================================================================
