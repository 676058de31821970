------------------------------ MODULE WatBody ------------------------------
(***************************************************************************)
(* The part of the assembler (deep_wat.c) that turns the text of a         *)
(* function body into instructions: emit_seq, emit_folded and emit_expr.   *)
(* They call each other recursively, so what each call still has to do     *)
(* when its callee returns is part of the state: work is that C stack,     *)
(* one item for each thing still to emit, the next one first.  A body is   *)
(* a sequence of S-expressions, written flat (an instruction and its       *)
(* immediates one after the other) or folded (operands inside the          *)
(* parentheses of their instruction), or both mixed.                       *)
(***************************************************************************)
EXTENDS Bytecode, Integers, SequencesExt, TLC

VARIABLES
  names,     \* the names in scope: types, funcs, globals and locals
  labels,    \* fc.labels, innermost last; None for a construct without a name
  work,      \* what emit_seq, emit_folded and emit_expr still have to do
  code,      \* the instructions emitted, each its bytes and its note
  outcome    \* of the body: "emitting", "ok" or "error"

bodyVars == <<names, labels, work, code, outcome>>

(* S-expressions.  A list begins with a word.                              *)
Atom(text) == [atom |-> text, kids |-> <<>>]
List(kids) == [atom |-> "", kids |-> kids]
IsAtom(sx) == sx.atom # ""
Word(sx) == sx.kids[1].atom
IsForm(sx, word) == ~IsAtom(sx) /\ Word(sx) = word

(* A label or a type that is not given.                                    *)
None == ""

(* Literals and names.  $-names are those of Ids; the text of a number     *)
(* stands for its value.                                                   *)
Ids == {"$a", "$b", "$f", "$g", "$t", "$u", "$x", "$y"}
Numeral ==
  [digit \in {"0", "1", "2", "3"} |->
     CASE digit = "0" -> 0 [] digit = "1" -> 1 [] digit = "2" -> 2 [] digit = "3" -> 3]
ValueType == "i32" :> 127 @@ "i64" :> 126 @@ "f32" :> 125 @@ "f64" :> 124
VoidType == 64

(* MNEMONICS, one or more of each kind of instruction.                     *)
Mnemonics ==
  {<<"unreachable", 0>>, <<"nop", 1>>, <<"block", 2>>, <<"loop", 3>>,
   <<"if", 4>>, <<"else", 5>>, <<"end", 11>>, <<"br", 12>>, <<"br_if", 13>>,
   <<"br_table", 14>>, <<"return", 15>>, <<"call", 16>>,
   <<"call_indirect", 17>>, <<"drop", 26>>, <<"select", 27>>,
   <<"local.get", 32>>, <<"local.set", 33>>, <<"local.tee", 34>>,
   <<"global.get", 35>>, <<"global.set", 36>>, <<"i32.load", 40>>,
   <<"i32.store", 54>>, <<"memory.size", 63>>, <<"memory.grow", 64>>,
   <<"i32.const", 65>>, <<"i64.const", 66>>, <<"f32.const", 67>>,
   <<"f64.const", 68>>, <<"i32.eqz", 69>>, <<"i32.add", 106>>}
Opcode ==
  [word \in {row[1] : row \in Mnemonics} |-> (CHOOSE row \in Mnemonics : row[1] = word)[2]]
IsMnemonic(word) == word \in DOMAIN Opcode

Constants == {"i32.const", "i64.const", "f32.const", "f64.const"}
LocalWords == {"local.get", "local.set", "local.tee"}
GlobalWords == {"global.get", "global.set"}
BranchWords == {"br", "br_if"}
IndexWords == LocalWords \cup GlobalWords \cup BranchWords \cup {"call"}
Blocks == {"block", "loop"}
Loads == {"i32.load"}
Stores == {"i32.store"}
MemArgs == "offset=0" :> 0 @@ "offset=1" :> 1 @@ "align=2" :> -1

(* resolve_name: the first entry of that name, or a number as it is; -1 if *)
(* there is none.  resolve_label_depth: the innermost label of that name,  *)
(* as the number of labels inside it.                                      *)
resolve_name(entries, ref) ==
  IF ref \in Ids THEN SelectInSeq(entries, LAMBDA n : n = ref) - 1
  ELSE IF ref \in DOMAIN Numeral THEN Numeral[ref] ELSE -1

resolve_label_depth(open, ref) ==
  IF ref \in Ids
  THEN IF ref \in ToSet(open)
       THEN Len(open) - SelectLastInSeq(open, LAMBDA n : n = ref) ELSE -1
  ELSE IF ref \in DOMAIN Numeral THEN Numeral[ref] ELSE -1

resolve(word, ref) ==
  CASE word \in BranchWords -> resolve_label_depth(labels, ref)
    [] word \in LocalWords -> resolve_name(names.locals, ref)
    [] word \in GlobalWords -> resolve_name(names.globals, ref)
    [] word = "call" -> resolve_name(names.funcs, ref)

(* emit_const: the opcode and the literal, as a LEB number or raw bytes.   *)
FloatBytes(width, n) ==
  LET top == CASE n = 0 -> <<0, 0>>
               [] n = 1 -> IF width = 4 THEN <<128, 63>> ELSE <<240, 63>>
               [] n = 2 -> <<0, 64>>
               [] n = 3 -> IF width = 4 THEN <<64, 64>> ELSE <<8, 64>>
  IN  [i \in 1..width - 2 |-> 0] \o top
ConstBytes(word, n) ==
  <<Opcode[word]>> \o (CASE word = "f32.const" -> FloatBytes(4, n)
                         [] word = "f64.const" -> FloatBytes(8, n)
                         [] OTHER -> <<n>>)

-----------------------------------------------------------------------------
(* What is left to do.  An emit_seq goes on at index i of elems; its role  *)
(* says who called it: assemble_module ("function"), a folded construct or *)
(* branch of an if ("folded"), or the emit_seq of the enclosing elements,  *)
(* for a flat block, loop or else ("flat") or a flat if ("flatIf").        *)
Elements(elems, i, n, role) ==
  [do |-> "seq", elems |-> elems, i |-> i, n |-> n, role |-> role]
Expr(sx) == [do |-> "expr", sx |-> sx]
Put(bytes) == [do |-> "put", bytes |-> bytes, note |-> <<>>]
Open(bytes, label) == [do |-> "put", bytes |-> bytes, note |-> <<label>>]
Refer(word, ref) == [do |-> "refer", word |-> word, ref |-> ref]
Table(refs) == [do |-> "table", refs |-> refs]
Close == [do |-> "close"]

Exprs(sxs) == [i \in DOMAIN sxs |-> Expr(sxs[i])]

(* An instruction as it goes into the code; the note, which is not part of *)
(* it, keeps the label of a construct and those a branch was written with. *)
Instr(bytes, note) == [bytes |-> bytes, note |-> note]

Doing(what) == outcome = "emitting" /\ work # <<>> /\ Head(work).do = what
Top == Head(work)
Rest == Tail(work)

GoOn(items) == work' = items \o Rest /\ UNCHANGED <<names, outcome>>
Emit(bytes, note) == code' = Append(code, Instr(bytes, note))

Fail ==
  /\ outcome' = "error"
  /\ UNCHANGED <<names, labels, work, code>>

-----------------------------------------------------------------------------
(***************************************************************************)
(* emit_seq.                                                               *)
(***************************************************************************)
Elem == Top.elems[Top.i]
AtWord(words) ==
  Doing("seq") /\ Top.i <= Top.n /\ IsAtom(Elem) /\ Elem.atom \in words
From(j) == [Top EXCEPT !.i = j]
AtomAt(elems, i, n) == i <= n /\ IsAtom(elems[i])
LabelAt(elems, i, n) ==
  IF AtomAt(elems, i, n) /\ elems[i].atom \in Ids THEN elems[i].atom ELSE None
AfterLabel(elems, i, n) == IF LabelAt(elems, i, n) = None THEN i ELSE i + 1

(* The elements are used up, or an end or else that is not of a construct  *)
(* opened here: the emit_seq returns R_OK, R_END or R_ELSE.                *)
SeqReturns(how) ==
  \/ how = "ok" /\ Doing("seq") /\ Top.i > Top.n
  \/ how \in {"end", "else"} /\ AtWord({how})
Beyond(how) == IF how = "ok" THEN Top.i ELSE Top.i + 1

(* What the caller does with it.  A flat construct ends with the elements, *)
(* too; the elements are its caller's own, who goes on after the end.      *)
FunctionEnds ==
  /\ SeqReturns("ok") /\ Top.role = "function"
  /\ outcome' = "ok"
  /\ work' = Rest
  /\ UNCHANGED <<names, labels, code>>

FoldedEnds ==
  /\ SeqReturns("ok") /\ Top.role = "folded"
  /\ GoOn(<<>>)
  /\ UNCHANGED <<labels, code>>

FlatEndsKeepingLabel(how) ==
  /\ SeqReturns(how) /\ Top.role \in {"flat", "flatIf"} /\ how # "else"
  /\ Emit(<<op_end>>, <<>>)
  /\ work' = <<[Head(Rest) EXCEPT !.i = Beyond(how)]>> \o Tail(Rest)
  /\ UNCHANGED <<names, labels, outcome>>
FlatEnds(how) ==
  /\ SeqReturns(how) /\ Top.role \in {"flat", "flatIf"} /\ how # "else"
  /\ Emit(<<op_end>>, <<>>)
  /\ labels' = Front(labels)
  /\ work' = <<[Head(Rest) EXCEPT !.i = Beyond(how)]>> \o Tail(Rest)
  /\ UNCHANGED <<names, outcome>>

FlatElse ==
  /\ SeqReturns("else") /\ Top.role = "flatIf"
  /\ Emit(<<op_else>>, <<>>)
  /\ GoOn(<<[From(Beyond("else")) EXCEPT !.role = "flat"]>>)
  /\ UNCHANGED labels

StrayEnd(how) ==
  /\ SeqReturns(how)
  /\ \/ how = "else" /\ Top.role # "flatIf"
     \/ how = "end" /\ Top.role \in {"function", "folded"}
  /\ Fail

FlatOpen ==
  /\ AtWord(Blocks \cup {"if"})
  /\ LET label == LabelAt(Top.elems, Top.i + 1, Top.n)
         inside == AfterLabel(Top.elems, Top.i + 1, Top.n)
         role == IF Elem.atom = "if" THEN "flatIf" ELSE "flat"
     IN  /\ labels' = Append(labels, label)
         /\ Emit(<<Opcode[Elem.atom], VoidType>>, <<label>>)
         /\ GoOn(<<Elements(Top.elems, inside, Top.n, role), Top>>)

(* An instruction and its immediates, which are the elements after it:     *)
(* what to emit and how many elements it takes; none when it lacks one.    *)
Depths(refs) == [i \in DOMAIN refs |-> resolve_label_depth(labels, refs[i])]
Resolved(refs) == \A i \in DOMAIN refs : Depths(refs)[i] \in 0..255
TableBytes(refs) == <<op_br_table, Len(refs) - 1>> \o Depths(refs)

IsLiteral(word, sx) ==
  IsAtom(sx) /\ (word \in {"f32.const", "f64.const"} \/ sx.atom \in DOMAIN Numeral)
Literal(sx) == IF sx.atom \in DOMAIN Numeral THEN Numeral[sx.atom] ELSE 0

(* The elements from i on that satisfy Test, up to the first that does not.*)
Run(elems, i, n, Test(_)) ==
  LET stops == {j \in i..n : ~Test(elems[j])}
  IN  SubSeq(elems, i, IF stops = {} THEN n ELSE Min(stops) - 1)
Texts(sxs) == [i \in DOMAIN sxs |-> sxs[i].atom]
MemArgRun(elems, i, n) ==
  Run(elems, i, n, LAMBDA sx : IsAtom(sx) /\ sx.atom \in DOMAIN MemArgs)
LabelRun(elems, i, n) ==
  Run(elems, i, n, LAMBDA sx : IsAtom(sx) /\ sx.atom \in Ids)
(* parse_memarg: the last offset given, 0 without one.                     *)
Offset(args) ==
  FoldLeft(LAMBDA o, sx : IF MemArgs[sx.atom] >= 0 THEN MemArgs[sx.atom] ELSE o, 0, args)

FlatConst ==
  /\ AtWord(Constants)
  /\ IF AtomAt(Top.elems, Top.i + 1, Top.n)
        /\ IsLiteral(Elem.atom, Top.elems[Top.i + 1])
     THEN /\ Emit(ConstBytes(Elem.atom, Literal(Top.elems[Top.i + 1])), <<>>)
          /\ GoOn(<<From(Top.i + 2)>>)
          /\ UNCHANGED labels
     ELSE Fail

FlatIndexed ==
  /\ AtWord(IndexWords)
  /\ IF AtomAt(Top.elems, Top.i + 1, Top.n)
        /\ resolve(Elem.atom, Top.elems[Top.i + 1].atom) >= 0
     THEN LET ref == Top.elems[Top.i + 1].atom
          IN  /\ Emit(<<Opcode[Elem.atom], resolve(Elem.atom, ref)>>, <<ref>>)
              /\ GoOn(<<From(Top.i + 2)>>)
              /\ UNCHANGED labels
     ELSE Fail

FlatCallIndirect ==
  /\ AtWord({"call_indirect"})
  /\ LET typed == Top.i < Top.n /\ IsForm(Top.elems[Top.i + 1], "type")
         type == IF typed
                 THEN resolve_name(names.types, Top.elems[Top.i + 1].kids[2].atom) ELSE 0
     IN  IF type < 0 THEN Fail
         ELSE /\ Emit(<<op_call_indirect, type, 0>>, <<>>)
              /\ GoOn(<<From(IF typed THEN Top.i + 2 ELSE Top.i + 1)>>)
              /\ UNCHANGED labels

FlatTable ==
  /\ AtWord({"br_table"})
  /\ LET refs == Texts(LabelRun(Top.elems, Top.i + 1, Top.n))
     IN  IF refs = <<>> \/ ~Resolved(refs) THEN Fail
         ELSE /\ Emit(TableBytes(refs), refs)
              /\ GoOn(<<From(Top.i + 1 + Len(refs))>>)
              /\ UNCHANGED labels

FlatAccess ==
  /\ AtWord(Loads \cup Stores)
  /\ LET args == MemArgRun(Top.elems, Top.i + 1, Top.n)
     IN  /\ Emit(<<Opcode[Elem.atom], 0, Offset(args)>>, <<>>)
         /\ GoOn(<<From(Top.i + 1 + Len(args))>>)
         /\ UNCHANGED labels

(* The rest has no immediate, or, as memory.size and memory.grow, a zero.  *)
Special ==
  Blocks \cup {"if", "else", "end"} \cup Constants \cup IndexWords
    \cup {"call_indirect", "br_table"} \cup Loads \cup Stores
PlainBytes(word) ==
  IF word \in {"memory.size", "memory.grow"} THEN <<Opcode[word], 0>> ELSE <<Opcode[word]>>

FlatPlain ==
  /\ AtWord(DOMAIN Opcode \ Special)
  /\ Emit(PlainBytes(Elem.atom), <<>>)
  /\ GoOn(<<From(Top.i + 1)>>)
  /\ UNCHANGED labels

FlatUnknown ==
  /\ Doing("seq") /\ Top.i <= Top.n /\ IsAtom(Elem) /\ ~IsMnemonic(Elem.atom)
  /\ Fail

(* A list is a folded instruction.                                         *)
FlatList ==
  /\ Doing("seq") /\ Top.i <= Top.n /\ ~IsAtom(Elem)
  /\ GoOn(<<Expr(Elem), From(Top.i + 1)>>)
  /\ UNCHANGED <<labels, code>>

-----------------------------------------------------------------------------
(***************************************************************************)
(* emit_expr and emit_folded.  An atom is an instruction without           *)
(* immediates, whatever it is; of a list, op are the operands after the    *)
(* word it begins with.                                                    *)
(***************************************************************************)
ExprAtom ==
  /\ Doing("expr") /\ IsAtom(Top.sx) /\ IsMnemonic(Top.sx.atom)
  /\ Emit(<<Opcode[Top.sx.atom]>>, <<>>)
  /\ GoOn(<<>>)
  /\ UNCHANGED labels

AtForm(words) == Doing("expr") /\ ~IsAtom(Top.sx) /\ Word(Top.sx) \in words
Operands == Tail(Top.sx.kids)

(* (block $l? (result T)? ...) and (if $l? (result T)? condition ...): the *)
(* label, the block type (-1 when it is no type) and what comes after.     *)
Header(op) ==
  LET after == AfterLabel(op, 1, Len(op))
      typed == after <= Len(op) /\ IsForm(op[after], "result")
      given == IF typed /\ Len(op[after].kids) >= 2 THEN op[after].kids[2].atom ELSE None
  IN  [label |-> LabelAt(op, 1, Len(op)),
       type |-> IF given = None THEN VoidType
                ELSE IF given \in DOMAIN ValueType THEN ValueType[given] ELSE -1,
       body |-> IF typed THEN after + 1 ELSE after]

FoldedBlock ==
  /\ AtForm(Blocks)
  /\ LET head == Header(Operands)
     IN  IF head.type < 0 THEN Fail
         ELSE /\ labels' = Append(labels, head.label)
              /\ Emit(<<Opcode[Word(Top.sx)], head.type>>, <<head.label>>)
              /\ GoOn(<<Elements(Operands, head.body, Len(Operands), "folded"), Close>>)

(* The label is pushed before the condition is emitted.  The branches are  *)
(* a (then ...) or the elements up to the (else ...), and that.            *)
ThenPart(op, i) ==
  IF i <= Len(op) /\ IsForm(op[i], "then")
  THEN [do |-> Elements(op[i].kids, 2, Len(op[i].kids), "folded"), next |-> i + 1]
  ELSE LET elses == {j \in i..Len(op) : IsForm(op[j], "else")}
           stop == IF elses = {} THEN Len(op) + 1 ELSE Min(elses)
       IN  [do |-> Elements(op, i, stop - 1, "folded"), next |-> stop]
ElsePart(op, i) ==
  IF i <= Len(op) /\ IsForm(op[i], "else")
  THEN <<Put(<<op_else>>), Elements(op[i].kids, 2, Len(op[i].kids), "folded")>>
  ELSE <<>>
FoldedIfDropsElse ==
  /\ AtForm({"if"})
  /\ LET head == Header(Operands)
     IN  IF head.type < 0 \/ head.body > Len(Operands) THEN Fail
         ELSE LET then == ThenPart(Operands, head.body + 1)
              IN  /\ labels' = Append(labels, head.label)
                  /\ GoOn(<<Expr(Operands[head.body]),
                             Open(<<op_if, head.type>>, head.label), then.do, Close>>)
                  /\ UNCHANGED code
FoldedIf ==
  /\ AtForm({"if"})
  /\ LET head == Header(Operands)
     IN  IF head.type < 0 \/ head.body > Len(Operands) THEN Fail
         ELSE LET then == ThenPart(Operands, head.body + 1)
              IN  /\ labels' = Append(labels, head.label)
                  /\ GoOn(<<Expr(Operands[head.body]),
                             Open(<<op_if, head.type>>, head.label), then.do>>
                            \o ElsePart(Operands, then.next) \o <<Close>>)
                  /\ UNCHANGED code

(* What an instruction must have.                                          *)
FirstIsAtom(op) == op # <<>> /\ IsAtom(op[1])
TypeUse(op) == op # <<>> /\ IsForm(op[1], "type")
TypeOf(op) == IF TypeUse(op) THEN resolve_name(names.types, op[1].kids[2].atom) ELSE 0
Args(op) == Len(MemArgRun(op, 1, Len(op)))
Complete(word, op) ==
  CASE word \in Constants -> FirstIsAtom(op) /\ IsLiteral(word, op[1])
    [] word \in {"local.get", "global.get", "call", "br"} -> FirstIsAtom(op)
    [] word \in {"local.set", "local.tee", "global.set", "br_if"} ->
         FirstIsAtom(op) /\ Len(op) >= 2
    [] word = "call_indirect" ->
         TypeOf(op) >= 0 /\ Len(op) > (IF TypeUse(op) THEN 1 ELSE 0)
    [] word \in {"memory.grow", "drop"} -> op # <<>>
    [] word = "br_table" -> Len(op) >= 2 /\ \A i \in 1..Len(op) - 1 : IsAtom(op[i])
    [] word \in Loads -> Len(op) > Args(op)
    [] word \in Stores -> Len(op) > Args(op) + 1
    [] OTHER -> IsMnemonic(word)

(* The operands first, in order, then the instruction.                     *)
Folded(word, op) ==
  LET opcode == Put(PlainBytes(word))
      access == Put(<<Opcode[word], 0, Offset(SubSeq(op, 1, Args(op)))>>)
      n == Len(op)
  IN  CASE word \in Constants -> <<Put(ConstBytes(word, Literal(op[1])))>>
        [] word \in {"local.get", "global.get", "br"} -> <<Refer(word, op[1].atom)>>
        [] word \in {"local.set", "local.tee", "global.set", "br_if"} ->
             <<Expr(op[2]), Refer(word, op[1].atom)>>
        [] word = "call" -> Exprs(Tail(op)) \o <<Refer(word, op[1].atom)>>
        [] word = "call_indirect" ->
             Exprs(IF TypeUse(op) THEN Tail(op) ELSE op)
               \o <<Put(<<op_call_indirect, TypeOf(op), 0>>)>>
        [] word = "memory.size" -> <<opcode>>
        [] word \in {"memory.grow", "drop"} -> <<Expr(op[1]), opcode>>
        [] word = "br_table" -> <<Expr(op[n]), Table(Texts(SubSeq(op, 1, n - 1)))>>
        [] word = "select" -> Exprs(SubSeq(op, 1, Min({n, 3}))) \o <<opcode>>
        [] word \in Loads -> <<Expr(op[Args(op) + 1]), access>>
        [] word \in Stores -> <<Expr(op[Args(op) + 1]), Expr(op[Args(op) + 2]), access>>
        [] OTHER -> Exprs(op) \o <<opcode>>

FoldedInstruction ==
  /\ Doing("expr") /\ ~IsAtom(Top.sx)
  /\ Word(Top.sx) \notin Blocks \cup {"if"}
  /\ Complete(Word(Top.sx), Operands)
  /\ GoOn(Folded(Word(Top.sx), Operands))
  /\ UNCHANGED <<labels, code>>

BadExpr ==
  /\ Doing("expr")
  /\ IF IsAtom(Top.sx) THEN ~IsMnemonic(Top.sx.atom)
     ELSE /\ Word(Top.sx) \notin Blocks \cup {"if"}
          /\ ~Complete(Word(Top.sx), Operands)
  /\ Fail

-----------------------------------------------------------------------------
(* What was left for after the operands.                                   *)
PutBytes ==
  /\ Doing("put")
  /\ Emit(Top.bytes, Top.note)
  /\ GoOn(<<>>)
  /\ UNCHANGED labels

PutReference ==
  /\ Doing("refer")
  /\ IF resolve(Top.word, Top.ref) >= 0
     THEN /\ Emit(<<Opcode[Top.word], resolve(Top.word, Top.ref)>>, <<Top.ref>>)
          /\ GoOn(<<>>)
          /\ UNCHANGED labels
     ELSE Fail

PutTable ==
  /\ Doing("table")
  /\ IF ~Resolved(Top.refs) THEN Fail
     ELSE /\ Emit(TableBytes(Top.refs), Top.refs)
          /\ GoOn(<<>>)
          /\ UNCHANGED labels

CloseConstruct ==
  /\ Doing("close")
  /\ Emit(<<op_end>>, <<>>)
  /\ labels' = Front(labels)
  /\ GoOn(<<>>)

EmitBody ==
  \/ FunctionEnds \/ FoldedEnds \/ FlatElse \/ FlatOpen
  \/ \E how \in {"ok", "end", "else"} : FlatEnds(how) \/ StrayEnd(how)
  \/ FlatConst \/ FlatIndexed \/ FlatCallIndirect \/ FlatTable \/ FlatAccess
  \/ FlatPlain \/ FlatUnknown \/ FlatList
  \/ ExprAtom \/ FoldedBlock \/ FoldedIf \/ FoldedInstruction \/ BadExpr
  \/ PutBytes \/ PutReference \/ PutTable \/ CloseConstruct

-----------------------------------------------------------------------------
(***************************************************************************)
(* Reading the emitted instructions: how many constructs are open before   *)
(* the k-th, and the d-th one outwards that is (0: none, the function).    *)
(***************************************************************************)
Opens(c, i) == c[i].bytes[1] \in Openers
Ends(c, i) == c[i].bytes[1] = op_end
OpenAt(c, k) ==
  {j \in 1..k - 1 :
     /\ Opens(c, j)
     /\ \A m \in j..k - 1 : Cardinality({i \in j..m : Opens(c, i)})
                             > Cardinality({i \in j..m : Ends(c, i)})}
Outwards(c, k, d) ==
  LET open == OpenAt(c, k)
      at == {j \in open : Cardinality({i \in open : i > j}) = d}
  IN  IF at = {} THEN 0 ELSE Max(at)

(* The depths an instruction carries, one for each label in its note.      *)
BranchDepths(instr) ==
  CASE instr.bytes[1] \in {op_br, op_br_if} -> <<instr.bytes[2]>>
    [] instr.bytes[1] = op_br_table -> SubSeq(instr.bytes, 3, Len(instr.bytes))
    [] OTHER -> <<>>

(***************************************************************************)
(* A branch written with a name leaves the construct of that name: counted *)
(* in the instructions emitted, its depth leads to the innermost enclosing *)
(* construct the label was written on.  The label stack of the assembler   *)
(* ("the label stack, the function's implicit label at the bottom", the    *)
(* comment on FnCtx) agrees with the constructs the emitted code has open. *)
(***************************************************************************)
LabelsResolve ==
  \A k \in DOMAIN code : \A b \in DOMAIN BranchDepths(code[k]) :
    code[k].note[b] \in Ids =>
      LET depth == BranchDepths(code[k])[b]
          target(d) == Outwards(code, k, d)
      IN  /\ target(depth) # 0
          /\ code[target(depth)].note = <<code[k].note[b]>>
          /\ \A d \in 0..depth - 1 : code[target(d)].note # <<code[k].note[b]>>
=============================================================================
