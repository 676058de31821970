------------------------------ MODULE MCDriver ------------------------------
(***************************************************************************)
(* Texts and files for deepvm.                                             *)
(***************************************************************************)
EXTENDS Driver

(* Expressions and statements, each folded and flat.                       *)
Atoms(words) == [i \in DOMAIN words |-> Atom(words[i])]
Fold(word, args) == List(<<Atom(word)>> \o args)
Both(folded, flat) == [folded |-> folded, flat |-> flat]
Const(n) == Both(<<Fold("i32.const", <<Atom(n)>>)>>, Atoms(<<"i32.const", n>>))
LocalGet(x) == Both(<<Fold("local.get", <<Atom(x)>>)>>, Atoms(<<"local.get", x>>))
Op(word, imm, args) ==
  Both(<<Fold(word, imm \o FlattenSeq([i \in DOMAIN args |-> args[i].folded]))>>,
       FlattenSeq([i \in DOMAIN args |-> args[i].flat]) \o <<Atom(word)>> \o imm)
TypeT == List(Atoms(<<"type", "$t">>))

Plain ==
  {Op("nop", <<>>, <<>>), Op("unreachable", <<>>, <<>>), Op("return", <<>>, <<>>),
   Op("drop", <<>>, <<Op("i32.add", <<>>, <<Const("1"), LocalGet("$y")>>)>>),
   Op("drop", <<>>, <<Op("i32.eqz", <<>>, <<Op("local.tee", Atoms(<<"$x">>), <<Const("2")>>)>>)>>),
   Op("local.set", Atoms(<<"$y">>), <<Op("global.get", Atoms(<<"$a">>), <<>>)>>),
   Op("global.set", Atoms(<<"$a">>), <<LocalGet("1")>>),
   Op("drop", <<>>, <<Op("call", Atoms(<<"$f">>), <<Const("3")>>)>>),
   Op("drop", <<>>, <<Op("call_indirect", <<TypeT>>, <<Const("3"), Const("0")>>)>>),
   Op("i32.store", Atoms(<<"offset=1">>),
      <<Const("0"), Op("i32.load", Atoms(<<"align=2", "offset=0">>), <<Const("0")>>)>>),
   Op("drop", <<>>, <<Op("select", <<>>, <<Const("1"), Const("2"), Const("0")>>)>>),
   Op("drop", <<>>, <<Op("memory.grow", <<>>, <<Op("memory.size", <<>>, <<>>)>>)>>)}
Jumps(targets) ==
  {Op("br", Atoms(<<l>>), <<>>) : l \in targets \cup {"1"}}
    \cup {Op("br_if", Atoms(<<l>>), <<Const("1")>>) : l \in targets}
    \cup {Op("br_table", Atoms(<<l, m>>), <<Const("1")>>) : l, m \in targets}

LabelOf(l) == IF l = "" THEN <<>> ELSE <<Atom(l)>>
Nest(op, l, s) ==
  Both(<<Fold(op, LabelOf(l) \o s.folded)>>,
       <<Atom(op)>> \o LabelOf(l) \o s.flat \o <<Atom("end")>>)
IfElse(l, s, t) ==
  LET test == Op("i32.eqz", <<>>, <<LocalGet("$x")>>)
  IN  Both(<<Fold("if", LabelOf(l) \o test.folded
                          \o <<Fold("then", s.folded), Fold("else", t.folded)>>)>>,
           test.flat \o <<Atom("if")>> \o LabelOf(l) \o s.flat \o <<Atom("else")>> \o t.flat
             \o <<Atom("end")>>)
LoneIf(l, s) ==
  Both(<<Fold("if", LabelOf(l) \o Const("1").folded \o s.folded)>>,
       Const("1").flat \o <<Atom("if")>> \o LabelOf(l) \o s.flat \o <<Atom("end")>>)
Nop == Op("nop", <<>>, <<>>)

After(s, t) == Both(s.folded \o t.folded, s.flat \o t.flat)

Inner == Jumps({"$a", "$b"})
Constructs ==
  {Nest(op, "$a", s) :
     op \in {"block", "loop"},
     s \in {Nest("block", l, Nest("loop", "$b", j)) : l \in {"", "$a"}, j \in Inner}
             \cup {IfElse("$b", j, k) : j \in Inner, k \in {Nop, Op("br", Atoms(<<"$b">>), <<>>)}}
             \cup {LoneIf("$b", j) : j \in Inner}
             \cup {Nest("block", "$b", p) : p \in Plain}
             \cup {After(f, Op("br", Atoms(<<"$a">>), <<>>)) :
                      f \in {Nest("loop", "$b", Nop), IfElse("$a", Nop, Nop), LoneIf("$b", Nop)}}}

-----------------------------------------------------------------------------
(* Modules.                                                                *)
I32 == 127
F64 == 124
Var(l, t) == [label |-> l, type |-> t]
Puti == <<112, 117, 116, 105>>
Env == <<101, 110, 118>>
Func(l, params, results, locals, body) ==
  [label |-> l, use |-> "", params |-> params, results |-> results, locals |-> locals,
   exported |-> <<>>, body |-> body]
Main == [Func("", <<>>, <<I32>>, <<>>, Const("1").flat) EXCEPT !.exported = <<MainName>>]
Import(kind, l) ==
  [kind |-> kind, label |-> l, module |-> Env, member |-> Puti, use |-> "",
   params |-> <<Var("", I32)>>, results |-> <<>>, limits |-> <<1>>, type |-> I32, mut |-> 0]
FuncF == Func("$f", <<Var("$x", I32)>>, <<I32>>, <<Var("", F64), Var("$y", F64), Var("", I32)>>,
              LocalGet("$x").folded)
TypeForm(l) == [label |-> l, params |-> <<I32>>, results |-> <<I32>>]
Global(l, t, word, arg, exported) ==
  [label |-> l, type |-> t, mut |-> 1, init |-> <<[word |-> word, arg |-> arg]>>,
   exported |-> exported]

Basic == [NoProgram EXCEPT !.types = <<TypeForm("$t")>>,
                           !.globals = <<Global("$a", I32, "i32.const", "1", <<>>)>>,
                           !.funcs = <<FuncF, Main>>]
Twin(body) == Func("", <<Var("$x", I32)>>, <<>>, <<Var("$y", I32)>>, body)
TwinProgram(s) ==
  [Basic EXCEPT !.funcs = <<Twin(s.folded), Twin(s.flat), FuncF, Main>>, !.twins = {<<1, 2>>}]

(* Every choice of sections.                                               *)
Parts == {"imports", "types", "table", "memory", "globals", "exports", "start", "elems", "datas"}
ElemForm(offset, funcs) == [offset |-> offset, funcs |-> funcs]
WithParts(p) ==
  [NoProgram EXCEPT
    !.types = IF "types" \in p THEN <<TypeForm("$t"), [TypeForm("$u") EXCEPT !.params = <<>>]>>
              ELSE <<>>,
    !.imports = IF "imports" \in p THEN <<Import("func", "$g"), Import("func", "")>> ELSE <<>>,
    !.funcs = <<[FuncF EXCEPT !.use = IF "types" \in p THEN "$t" ELSE ""], Main,
                [Func("$g", <<>>, <<>>, <<Var("$x", I32)>>, <<Atom("nop")>>)
                   EXCEPT !.use = IF "types" \in p THEN "1" ELSE ""]>>,
    !.table = IF "table" \in p THEN <<[limits |-> <<3>>, exported |-> <<Puti>>]>> ELSE <<>>,
    !.memory = IF "memory" \in p
               THEN <<[limits |-> <<1, 2>>, exported |-> <<Env>>]>> ELSE <<>>,
    !.globals = IF "globals" \in p
                THEN <<Global("$x", I32, "i32.const", "3", <<>>),
                       Global("$y", F64, "f64.const", "2", <<Env>>),
                       Global("", I32, "global.get", "$x", <<>>)>>
                ELSE <<>>,
    !.exports = IF "exports" \in p
                THEN <<[name |-> MainName, kind |-> "func", ref |-> "$f"],
                       [name |-> Puti, kind |-> "memory", ref |-> "0"]>>
                ELSE <<>>,
    !.start = IF "start" \in p THEN <<"$g">> ELSE <<>>,
    !.elems = IF "elems" \in p THEN <<ElemForm(0, <<"$f", "$g">>), ElemForm(1, <<"0">>), ElemForm(2, <<"1", "$f">>)>>
              ELSE <<>>,
    !.datas = IF "datas" \in p THEN <<[offset |-> 2, bytes |-> <<72, 105, 0>>]>> ELSE <<>>]

(* What the assembler refuses.                                             *)
Refusals ==
  {[Basic EXCEPT !.funcs = <<Func("", <<>>, <<>>, <<>>, b)>>] :
     b \in {Atoms(<<"end">>), Atoms(<<"else">>), Atoms(<<"block", "else">>), Atoms(<<"frob">>),
            Atoms(<<"br", "$a">>), Atoms(<<"br_table">>), Atoms(<<"i32.const">>),
            <<Atom("call_indirect"), List(Atoms(<<"type", "$y">>))>>,
            <<Fold("frob", <<>>)>>, <<Fold("drop", Atoms(<<"frob">>))>>,
            <<Fold("local.get", <<Atom("$b")>>)>>, <<Fold("drop", <<>>)>>,
            <<Fold("br_table", Atoms(<<"$a">>) \o Const("1").folded)>>,
            <<Fold("block", <<List(Atoms(<<"result", "$a">>))>>)>>, <<Fold("if", <<>>)>>,
            <<Fold("block", Atoms(<<"end">>))>>}}
    \cup {[Basic EXCEPT !.globals[1].init = <<>>], [Basic EXCEPT !.start = <<"$g">>],
          [Basic EXCEPT !.elems = <<ElemForm(0, <<"$g">>)>>],
          [Basic EXCEPT !.exports = <<[name |-> Env, kind |-> "func", ref |-> "$g"]>>]}

(* Bodies the other sets have no room for: constants of every width, typed *)
(* blocks, a construct open at the end of its text.                        *)
Drop(word, n) == Op("drop", <<>>, <<Op(word, <<Atom(n)>>, <<>>)>>)
OddBodies ==
  {Drop(w, n).folded : w \in {"i64.const", "f32.const", "f64.const"}, n \in {"0", "1", "2", "3"}}
    \cup {<<Fold("drop", <<Fold("block", <<List(Atoms(<<"result", "i32">>))>>
                                          \o Const("1").folded)>>)>>,
          Atoms(<<"block", "nop">>), Atoms(<<"i32.const", "1", "if", "nop", "else", "nop">>),
          <<Fold("drop", Atoms(<<"memory.size">>))>>, <<>>}
OddProgram(body) == [Basic EXCEPT !.funcs = <<Func("", <<>>, <<>>, <<>>, body), Main>>]

(* A start function or main the text has no function for.                  *)
Unfounded ==
  {[Basic EXCEPT !.start = <<"3">>],
   [Basic EXCEPT !.exports = <<[name |-> MainName, kind |-> "func", ref |-> "3"]>>]}

MCPrograms ==
  {TwinProgram(s) : s \in Plain \cup Constructs} \cup {WithParts(p) : p \in SUBSET Parts}
    \cup Refusals \cup {OddProgram(b) : b \in OddBodies}
    \cup Unfounded \cup {NoProgram}

-----------------------------------------------------------------------------
(* Files of other tools.                                                   *)
Sec(id, bytes) == <<id, Len(bytes)>> \o bytes
TypeSec == Sec(1, <<2, 96, 0, 1, 127, 96, 2, 127, 124, 0>>)
FuncSec == Sec(3, <<2, 0, 1>>)
ExportMain == Sec(7, <<1, 4>> \o MainName \o <<0, 0>>)
Body1 == <<4, 0, 65, 1, 11>>
CodeSec(second) == Sec(10, <<2>> \o Body1 \o <<Len(second)>> \o second)
PlainCode == CodeSec(<<0, 11>>)
Custom == Sec(0, <<1, 110, 7>>)

Whole == Ld!Magic \o TypeSec \o FuncSec \o ExportMain \o PlainCode
CutShort == {SubSeq(Whole, 1, n) : n \in 0..Len(Whole)}
WithCustom ==
  {Ld!Magic \o Custom \o TypeSec \o FuncSec \o ExportMain \o PlainCode,
   Ld!Magic \o TypeSec \o Custom \o FuncSec \o ExportMain \o PlainCode \o Custom}
(* 2 parameters and 253 or 254 local variables.                            *)
ManyLocals ==
  {Ld!Magic \o TypeSec \o FuncSec \o ExportMain \o CodeSec(<<2, n, 1, 127, 125, 124, 11>>) :
     n \in {128, 129}}
ImportSec(last) ==
  Sec(2, <<2, 3>> \o Env \o <<4>> \o Puti \o <<0, 1, 3>> \o Env \o <<1, 109>> \o last)
Importing(last) ==
  Ld!Magic \o TypeSec \o ImportSec(last) \o FuncSec \o Sec(7, <<1, 4>> \o MainName \o <<0, 2>>)
    \o PlainCode
TableAndMemory(tables, memories, elem) ==
  Ld!Magic \o TypeSec \o FuncSec \o Sec(4, tables) \o Sec(5, memories) \o ExportMain
    \o Sec(9, elem) \o PlainCode
ManyTypes(form) == Sec(1, <<3, 96, 0, 1, 127, 96, 2, 127, 124, 0>> \o form)
Others ==
  {Importing(<<0, 1>>), Importing(<<2, 0, 1>>), Importing(<<3, 127, 0>>),
   TableAndMemory(<<0>>, <<0>>, <<0>>),
   TableAndMemory(<<1, 112, 1, 2, 3>>, <<1, 0, 2>>, <<1, 0, 65, 1, 11, 2, 0, 1>>),
   TableAndMemory(<<1, 112, 0, 2>>, <<1, 0, 0>>, <<2, 0, 65, 0, 11, 1, 1, 0, 65, 1, 11, 2, 0, 1>>),
   Ld!Magic \o TypeSec \o TypeSec \o FuncSec \o ExportMain \o PlainCode,
   Ld!Magic \o TypeSec \o FuncSec \o ExportMain \o Sec(10, <<1>> \o Body1),
   Ld!Magic \o TypeSec \o FuncSec \o PlainCode,
   Ld!Magic \o TypeSec \o Sec(6, <<2, 127, 1, 65, 5, 11, 125, 0, 67, 0, 0, 128, 63, 11>>) \o FuncSec
     \o ExportMain \o Sec(8, <<1>>) \o PlainCode \o Sec(11, <<1, 0, 65, 4, 11, 2, 7, 7>>),
   Ld!Magic \o TypeSec \o ImportSec(<<2, 0, 1>>) \o FuncSec \o PlainCode,
   Ld!Magic \o Sec(1, <<2, 95, 96, 0, 0>>) \o FuncSec \o ExportMain \o PlainCode,
   Ld!Magic \o Sec(1, <<2, 96, 0, 0, 95>>) \o FuncSec \o ExportMain \o CodeSec(<<0, 11>>),
   Ld!Magic \o ManyTypes(<<95>>) \o FuncSec \o ExportMain \o PlainCode,
   TableAndMemory(<<1, 112, 0, 3>>, <<1, 0, 1>>, <<1, 0, 35, 0, 11, 1, 0>>),
   Ld!Magic \o TypeSec \o Sec(6, <<1, 127, 0, 35, 0, 0>>) \o FuncSec \o ExportMain \o Sec(8, <<7>>)
     \o PlainCode,
   Ld!Magic \o TypeSec \o Sec(3, <<2, 0, 5>>) \o ExportMain \o PlainCode,
   Ld!Magic \o FuncSec \o TypeSec \o ExportMain \o PlainCode,
   TableAndMemory(<<1, 112, 0, 160, 156, 1>>, <<1, 0, 1>>, <<0>>),
   TableAndMemory(<<1, 112, 0, 160, 156, 1>>, <<1, 0, 2>>, <<0>>),
   TableAndMemory(<<1, 112, 0, 0>>, <<1, 0, 1>>, <<1, 0, 65, 0, 11, 1, 0>>),
   Whole \o Sec(0, [i \in 1..90 |-> 1]) \o Sec(0, [i \in 1..90 |-> 1])}
MCFiles == CutShort \cup WithCustom \cup ManyLocals \cup Others

-----------------------------------------------------------------------------
(* Texts as characters.  A string's token is what it has room for.         *)
Str(letters) == Rd!Piece(<<"\"">> \o letters \o <<"\"">>,
                         <<Rd!AtomToken(SubSeq(letters, 1, StringCap))>>)
Nothing(letters) == Rd!Piece(letters, <<>>)
WordM == Rd!Piece(<<"m">>, <<Rd!AtomToken(<<"m">>)>>)
WordLine == Rd!Piece(<<"m", "\n">>, <<Rd!AtomToken(<<"m">>)>>)
Parens == {Rd!Piece(<<c>>, <<Rd!ParenToken(c)>>) : c \in {"(", ")"}}
Closed ==
  Parens \cup
  {WordM, Nothing(<<"\n">>), Nothing(<<";", ";", "(", "\"", "\n">>),
   Nothing(<<"(", ";", "\"", "m", ";", ")">>),
   Nothing(<<"(", ";", "(", ";", ";", ")", ")", ";", ")">>),
   Str(<<"m", "(", ";", ")">>),
   Rd!Piece(<<"\"", "\\", "\"", "m", "\"">>, <<Rd!AtomToken(<<"\"", "m">>)>>)}
(* What is cut off by the end of the text, and what the reader never leaves. *)
CutOff ==
  {Rd!Piece(<<"\"", "m">>, <<Rd!AtomToken(<<"m">>)>>), Nothing(<<"\"", "\\">>),
   Nothing(<<";">>), Nothing(<<";", ";", "(">>), Nothing(<<"(", ";", "m">>)}
Fuse(a, b) ==
  \/ {a, b} = {WordM}
  \/ Last(a.text) = "(" /\ b.text[1] = ";"
Apart(t) == \A i \in 1..Len(t) - 1 : ~Fuse(t[i], t[i + 1])
MCTexts ==
  {t \in {<<a, b, c>> : a, b \in Closed, c \in Closed \cup CutOff} : Apart(t)}
    \cup {<<c>> : c \in CutOff} \cup {<<>>}
    \cup {t \in [1..5 -> Parens \cup {WordLine}] : t[1].text = <<"(">>}

-----------------------------------------------------------------------------
(* Texts that meet what the code does otherwise than it is documented: an  *)
(* import that is not a function, behind one that is.                      *)
MCOtherImports ==
  {[Basic EXCEPT !.imports = <<Import("func", ""), Import(k, "")>>] :
     k \in {"table", "memory", "global"}}

-----------------------------------------------------------------------------
(* The expressions of a set of programs, and those inside them.            *)
RECURSIVE Inside(_)
Inside(forms) ==
  IF forms = {} THEN {} ELSE forms \cup Inside(UNION {ToSet(sx.kids) : sx \in forms})
FormsOf(programs) ==
  Inside(UNION {UNION {ToSet(f.body) : f \in ToSet(p.funcs)} : p \in programs})
MCForms == FormsOf(MCPrograms)
MCOtherForms == FormsOf(MCOtherImports)
=============================================================================
