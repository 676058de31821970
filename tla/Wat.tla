-------------------------------- MODULE Wat --------------------------------
(***************************************************************************)
(* The assembler (deep_wat.c): assemble_module collects the forms of a     *)
(* module, numbers its types, functions and globals, and writes the        *)
(* sections in order, each behind its length; the body of a function is    *)
(* WatBody's.  Text is a program (see ProgramOK): the forms of each kind   *)
(* in the order they are written in, bodies as S-expressions.              *)
(***************************************************************************)
EXTENDS WatBody

CONSTANTS
  Programs,     \* the texts that may be assembled
  Forms         \* the S-expressions they are made of

VARIABLES
  program,      \* the text
  types,        \* types_sig: the signatures in use, each once
  typeIndex,    \* func_typeidx, of the imported and then the own functions
  section,      \* the next section to write, by its number
  bodies,       \* the code section's entries so far
  out           \* the bytes written

asmVars == <<program, types, typeIndex, section, bodies, out, bodyVars>>

Leb7 == INSTANCE Leb WITH Group <- 7, Width <- 14, Groups <- 2
leb(n) == Leb7!put_leb_u(n)

Select(imports, kind) == SelectSeq(imports, LAMBDA i : i.kind = kind)

(* A name is its bytes, a form that may be missing a sequence of at most   *)
(* one, a reference an identifier, a numeral or None.                      *)
Sequence(s) == s \in Seq(ToSet(s))
ProgramOK(p) ==
  /\ \A t \in ToSet(p.types) : t.params \o t.results \in Seq(Bytes)
  /\ \A i \in ToSet(p.imports) : i.kind \in {"func", "table", "memory", "global"}
  /\ \A f \in ToSet(p.funcs) : f.use \in Ids \cup DOMAIN Numeral \cup {None}
  /\ \A x \in {"start", "table", "memory"} : Len(p[x]) <= 1
  /\ \A f \in ToSet(p.funcs) :
       f.body \in Seq(Forms) /\ Sequence(f.params) /\ Sequence(f.locals)
  /\ Sequence(p.funcs) /\ Sequence(p.globals)
  /\ \A kind \in {"func", "global"} : Sequence(Select(p.imports, kind))

ASSUME WrittenInForms ==
  /\ \A p \in Programs : ProgramOK(p)
  /\ \A sx \in Forms : IF IsAtom(sx) THEN sx.kids = <<>>
                       ELSE sx.kids \in Seq(Forms) /\ sx.kids # <<>>

FuncImports == Select(program.imports, "func")
GlobalImports == Select(program.imports, "global")
Labels(forms) == [i \in DOMAIN forms |-> forms[i].label]
TypesOf(vars) == [i \in DOMAIN vars |-> vars[i].type]
NamesOf(vars) == [i \in DOMAIN vars |-> vars[i].label]

-----------------------------------------------------------------------------
(***************************************************************************)
(* Types.  A signature gets a number once; declared again under another    *)
(* name it keeps the number and loses the first name.  A function whose    *)
(* (type ...) is unknown has the signature it spells out, if any.          *)
(***************************************************************************)
Signature(f) == [params |-> TypesOf(f.params), results |-> f.results]

FindOrAdd(tab, sig) ==
  IF sig \in ToSet(tab.sigs) THEN tab
  ELSE [tab EXCEPT !.sigs = Append(@, sig), !.names = Append(@, None)]
IndexOfSig(tab, sig) == SelectInSeq(tab.sigs, LAMBDA s : s = sig) - 1

DeclareType(tab, t) ==
  LET sig == [params |-> t.params, results |-> t.results]
      added == FindOrAdd(tab, sig)
  IN  IF t.label = None THEN added
      ELSE [added EXCEPT !.names[IndexOfSig(added, sig) + 1] = t.label]

RegisterFunction(tab, f) ==
  LET use == IF f.use = None THEN -1 ELSE resolve_name(tab.names, f.use)
      added == FindOrAdd(tab, Signature(f))
  IN  IF use >= 0 THEN [tab EXCEPT !.index = Append(@, use)]
      ELSE [added EXCEPT !.index = Append(@, IndexOfSig(added, Signature(f)))]

CollectedTypes ==
  FoldLeft(RegisterFunction,
           FoldLeft(DeclareType, [sigs |-> <<>>, names |-> <<>>, index |-> <<>>],
                    program.types),
           FuncImports \o program.funcs)

Collect ==
  /\ section = 0
  /\ types' = CollectedTypes.sigs
  /\ typeIndex' = CollectedTypes.index
  /\ names' = [types |-> CollectedTypes.names,
               funcs |-> Labels(FuncImports \o program.funcs),
               globals |-> Labels(GlobalImports \o program.globals), locals |-> <<>>]
  /\ out' = <<0, 97, 115, 109, 1, 0, 0, 0>>
  /\ section' = 1
  /\ UNCHANGED <<program, bodies, labels, work, code, outcome>>

-----------------------------------------------------------------------------
(***************************************************************************)
(* The sections but code and data.  A vector is its length and its         *)
(* elements; a section of no forms is not written, except the types.       *)
(***************************************************************************)
Concat(Entry(_), forms) ==
  FlattenSeq([i \in DOMAIN forms |-> Entry(forms[i])])
Vector(Entry(_), forms) == leb(Len(forms)) \o Concat(Entry, forms)
Name(s) == leb(Len(s)) \o s
Limits(l) == IF Len(l) = 1 THEN <<0>> \o l ELSE <<1>> \o l

TypeEntry(sig) ==
  <<96>> \o Name(sig.params) \o Name(sig.results)

(* An imported table's minimum is read only where no $-name stands before  *)
(* it, every other number is taken for the maximum.                        *)
ImportedTable(i) == IF i.label = None THEN Limits(i.limits) ELSE <<1, 0, Last(i.limits)>>
Described(i, nth) ==
  CASE i.kind = "func" -> <<0>> \o leb(typeIndex[nth])
    [] i.kind = "table" -> <<1, 112>> \o ImportedTable(i)
    [] i.kind = "memory" -> <<2>> \o Limits(i.limits)
    [] i.kind = "global" -> <<3, i.type, i.mut>>
ImportEntries ==
  FlattenSeq([k \in DOMAIN program.imports |->
    LET i == program.imports[k]
    IN  Name(i.module) \o Name(i.member)
          \o Described(i, Len(Select(SubSeq(program.imports, 1, k), "func")))])

OwnTypesFromFirst == SubSeq(typeIndex, 1, Len(program.funcs))
OwnTypes == SubSeq(typeIndex, Len(FuncImports) + 1, Len(typeIndex))

GlobalInit(init) ==
  IF init.word \in Constants THEN ConstBytes(init.word, Numeral[init.arg])
  ELSE <<op_global_get>> \o leb(Max({0, resolve_name(names.globals, init.arg)}))
GlobalEntry(g) == <<g.type, g.mut>> \o Concat(GlobalInit, g.init) \o <<op_end>>

(* Exports: those with a form of their own, then those written inside a    *)
(* function, a global, the memory or the table.                            *)
KindTag == "func" :> 0 @@ "table" :> 1 @@ "memory" :> 2 @@ "global" :> 3
ExportIndex(e) ==
  CASE e.kind = "func" -> resolve_name(names.funcs, e.ref)
    [] e.kind = "global" -> resolve_name(names.globals, e.ref)
    [] OTHER -> 0
Inline(forms, kind, first) ==
  FlattenSeq([i \in DOMAIN forms |->
    [j \in DOMAIN forms[i].exported |->
      [name |-> forms[i].exported[j], tag |-> KindTag[kind], index |-> first + i - 1]]])
AllExports ==
  [i \in DOMAIN program.exports |->
     [name |-> program.exports[i].name, tag |-> KindTag[program.exports[i].kind],
      index |-> ExportIndex(program.exports[i])]]
    \o Inline(program.funcs, "func", Len(FuncImports))
    \o Inline(program.globals, "global", Len(GlobalImports))
    \o Inline(program.memory, "memory", 0) \o Inline(program.table, "table", 0)
ExportEntry(e) == Name(e.name) \o <<e.tag>> \o leb(e.index)

FuncIndex(ref) == resolve_name(names.funcs, ref)
FuncIndexBytes(ref) == leb(FuncIndex(ref))
OffsetExpr(n) == <<i32_const, n, op_end>>
ElemEntry(e) == <<0>> \o OffsetExpr(e.offset) \o Vector(FuncIndexBytes, e.funcs)
DataEntry(d) == <<0>> \o OffsetExpr(d.offset) \o Name(d.bytes)
TableEntry(t) == <<112>> \o Limits(t.limits)
MemoryEntry(m) == Limits(IF m.limits = <<>> THEN <<1>> ELSE m.limits)

(* What assemble_module writes for a section, nothing if it is left out.   *)
Section(id, payload) == <<id>> \o leb(Len(payload)) \o payload
Sections(id, Entry(_), forms) ==
  IF forms = <<>> THEN <<>> ELSE Section(id, Vector(Entry, forms))
SectionBytes(id) ==
  CASE id = 1 -> Section(1, Vector(TypeEntry, types))
    [] id = 2 -> IF program.imports = <<>> THEN <<>>
                 ELSE Section(2, leb(Len(program.imports)) \o ImportEntries)
    [] id = 3 -> Sections(3, leb, OwnTypes)
    [] id = 4 -> Sections(4, TableEntry, program.table)
    [] id = 5 -> Sections(5, MemoryEntry, program.memory)
    [] id = 6 -> Sections(6, GlobalEntry, program.globals)
    [] id = 7 -> Sections(7, ExportEntry, AllExports)
    [] id = 8 -> IF program.start = <<>> THEN <<>> ELSE Section(8, FuncIndexBytes(program.start[1]))
    [] id = 9 -> Sections(9, ElemEntry, program.elems)
    [] id = 11 -> Sections(11, DataEntry, program.datas)

(* What makes it give up: a global without a value, or a name that is not  *)
(* one of a function or global.                                            *)
Refused(id) ==
  CASE id = 6 -> \E g \in ToSet(program.globals) : g.init = <<>>
    [] id = 7 -> \E e \in ToSet(program.exports) : ExportIndex(e) < 0
    [] id = 8 -> \E s \in ToSet(program.start) : FuncIndex(s) < 0
    [] id = 9 -> \E e \in ToSet(program.elems) : \E f \in ToSet(e.funcs) : FuncIndex(f) < 0
    [] OTHER -> FALSE

Failed == 13
Assembled == section = 12
WriteSection ==
  /\ section \in 1..11 \ {10}
  /\ IF Refused(section)
     THEN section' = Failed /\ UNCHANGED out
     ELSE section' = section + 1 /\ out' = out \o SectionBytes(section)
  /\ UNCHANGED <<program, types, typeIndex, bodies, bodyVars>>

-----------------------------------------------------------------------------
(***************************************************************************)
(* The code section.  The parameters spelled out in the function and then  *)
(* its other local variables get their names; those of equal type in a row *)
(* are declared together.                                                  *)
(***************************************************************************)
NextFunc == program.funcs[Len(bodies) + 1]
BetweenBodies == section = 10 /\ outcome = "idle"

BeginBodyLocalsFirst ==
  /\ BetweenBodies /\ Len(bodies) < Len(program.funcs)
  /\ names' = [names EXCEPT !.locals = NamesOf(NextFunc.locals \o NextFunc.params)]
  /\ labels' = <<None>>
  /\ work' = <<Elements(NextFunc.body, 1, Len(NextFunc.body), "function")>>
  /\ code' = <<>>
  /\ outcome' = "emitting"
  /\ UNCHANGED <<program, types, typeIndex, section, bodies, out>>
BeginBody ==
  /\ BetweenBodies /\ Len(bodies) < Len(program.funcs)
  /\ names' = [names EXCEPT !.locals = NamesOf(NextFunc.params \o NextFunc.locals)]
  /\ labels' = <<None>>
  /\ work' = <<Elements(NextFunc.body, 1, Len(NextFunc.body), "function")>>
  /\ code' = <<>>
  /\ outcome' = "emitting"
  /\ UNCHANGED <<program, types, typeIndex, section, bodies, out>>

Clusters(kinds) ==
  FoldLeft(LAMBDA cs, t : IF cs # <<>> /\ Last(cs)[2] = t
                          THEN [cs EXCEPT ![Len(cs)] = <<@[1] + 1, t>>]
                          ELSE Append(cs, <<1, t>>),
           <<>>, kinds)
ClusterBytes(c) == leb(c[1]) \o <<c[2]>>
InstrBytes(i) == i.bytes
BodyCode == Concat(InstrBytes, code) \o <<op_end>>
BodyEntry(f) == Name(Vector(ClusterBytes, Clusters(TypesOf(f.locals))) \o BodyCode)

(* A step of emit_seq and its callees; an error ends the assembly.         *)
EmitStep ==
  /\ section = 10
  /\ EmitBody
  /\ section' = IF outcome' = "error" THEN Failed ELSE section
  /\ UNCHANGED <<program, types, typeIndex, bodies, out>>

(* The first emit_seq has returned R_OK.                                   *)
FinishBody ==
  /\ section = 10 /\ outcome = "ok"
  /\ bodies' = Append(bodies, [code |-> BodyCode, entry |-> BodyEntry(NextFunc)])
  /\ outcome' = "idle"
  /\ UNCHANGED <<program, types, typeIndex, section, out, names, labels, work, code>>

EntryBytes(b) == b.entry
WriteCode ==
  /\ BetweenBodies /\ Len(bodies) = Len(program.funcs)
  /\ out' = out \o Sections(10, EntryBytes, bodies)
  /\ section' = 11
  /\ UNCHANGED <<program, types, typeIndex, bodies, bodyVars>>

AsmInit ==
  /\ program \in Programs
  /\ types = <<>> /\ typeIndex = <<>> /\ bodies = <<>> /\ out = <<>>
  /\ section = 0
  /\ names = [types |-> <<>>, funcs |-> <<>>, globals |-> <<>>, locals |-> <<>>]
  /\ labels = <<>> /\ work = <<>> /\ code = <<>> /\ outcome = "idle"

Assemble == Collect \/ WriteSection \/ BeginBody \/ EmitStep \/ FinishBody \/ WriteCode

-----------------------------------------------------------------------------
(***************************************************************************)
(* Labels follow the nesting of the constructs: a branch to a $-name has   *)
(* the depth of the innermost construct of that name (LabelsResolve), and  *)
(* when a body is done only the function's own label is left.              *)
(***************************************************************************)
LabelsInStep ==
  /\ LabelsResolve
  /\ (section = 10 /\ outcome = "ok") => labels = <<None>>

(***************************************************************************)
(* A $-name of a local or global variable or a function becomes the number *)
(* of the first one declared under it: the parameters and local variables  *)
(* are those of the function, the imported functions and globals come      *)
(* before the module's own, and the loader numbers all of them so.         *)
(***************************************************************************)
Variables(f) == f.params \o f.locals
Declared(word) ==
  CASE word \in LocalWords -> NamesOf(Variables(NextFunc))
    [] word \in GlobalWords -> Labels(GlobalImports \o program.globals)
    [] word = "call" -> Labels(FuncImports \o program.funcs)
Named(instr) == instr.note # <<>> /\ instr.note[1] \in Ids
NamesResolve ==
  (section = 10 /\ outcome = "ok") =>
    \A instr \in ToSet(code) : \A word \in LocalWords \cup GlobalWords \cup {"call"} :
      (Named(instr) /\ instr.bytes[1] = Opcode[word]) =>
        LET index == instr.bytes[2]
        IN  /\ index < Len(Declared(word))
            /\ Declared(word)[index + 1] = instr.note[1]
            /\ \A i \in 1..index : Declared(word)[i] # instr.note[1]

(***************************************************************************)
(* Functions of the same text, one written folded, one flat (twins), have  *)
(* the same code.                                                          *)
(***************************************************************************)
FoldedAsFlat ==
  section > 10 => \A t \in program.twins : bodies[t[1]].code = bodies[t[2]].code

(***************************************************************************)
(* read_block, which the interpreter calls at every block, loop and if,    *)
(* stops in an assembled body at the else or end of the construct it was   *)
(* called for.                                                             *)
(***************************************************************************)
OpenerAddresses ==
  {1 + FoldLeft(LAMBDA n, i : n + Len(i.bytes), 0, SubSeq(code, 1, k - 1)) :
     k \in {j \in DOMAIN code : Opens(code, j)}}
ScannerAgrees ==
  (section = 10 /\ outcome = "ok") =>
    \A ip \in OpenerAddresses : ReadBlock(BodyCode, ip + 2) = ThenEnd(BodyCode, ip)
=============================================================================
