------------------------------- MODULE Driver -------------------------------
(***************************************************************************)
(* deepvm as it is used (deep_main.c): a .wat file is assembled into a     *)
(* .wasm file, and a .wasm file is loaded and run.  These are two calls of *)
(* the program; the file lies on the disk between them.  The interpreter's *)
(* run is one step here, that of a module whose functions come to an end:  *)
(* it gives back every block it took (Interp, ObjectsAccounted), exits, or *)
(* is brought down by an instruction of the module (Interp).               *)
(***************************************************************************)
EXTENDS Wat

CONSTANTS
  FileSize,     \* WASM_FILE_SIZE
  WatTexts,     \* .wat files as characters, in which no form is known
  StringCap,    \* characters the reader's buffer for a string has room for
  Files,        \* .wasm files of other tools
  ServedPages,  \* pages of linear memory the allocator can serve: 1
  ServedSlots   \* slots of a function table it can serve beside them

ASSUME DriverSizes == FileSize \in Nat \ 0..7 /\ ServedPages \in Nat /\ ServedSlots \in Nat

VARIABLES
  disk,         \* the .wasm file, <<>> if there is none
  at,           \* where main is, or what it returned: "0", "-1", or how it
                \* came to its end otherwise
  table,        \* env->table
  pieces, mode, ptr, nesting, chars, tokens, ti, open, tree,
  buffer, size, loadAt, nodes, buf, node, codeBegin, module, held, logged

Rd == INSTANCE WatText
Ld == INSTANCE LoaderProofs      \* the loader, and what is proved of it

mainVars == <<disk, at, table>>
loadVars == <<buffer, size, loadAt, nodes, buf, node, codeBegin, module, held, logged>>
textVars == <<pieces, mode, ptr, nesting, chars, tokens, ti, open, tree>>
vars == <<textVars, asmVars, mainVars, loadVars>>

NoProgram ==
  [types |-> <<>>, imports |-> <<>>, funcs |-> <<>>, globals |-> <<>>, exports |-> <<>>,
   start |-> <<>>, table |-> <<>>, memory |-> <<>>, elems |-> <<>>, datas |-> <<>>,
   twins |-> {}]

(* A text, an assembled program or a file.                                 *)
Init ==
  /\ AsmInit
  /\ \/ /\ program = NoProgram /\ at = "text" /\ disk = <<>>
        /\ \E t \in WatTexts : Rd!TextInit(t)
     \/ /\ program # NoProgram /\ at = "wat" /\ disk = <<>>
        /\ Rd!TextInit(<<>>)
     \/ /\ program = NoProgram /\ at = "wasm" /\ disk \in Files
        /\ Rd!TextInit(<<>>)
  /\ table = <<>>
  /\ buffer = <<>> /\ size = 0 /\ loadAt = "start" /\ nodes = <<>> /\ buf = 1 /\ node = 0
  /\ codeBegin = 0 /\ module = Ld!EmptyModule /\ held = {} /\ logged = FALSE

-----------------------------------------------------------------------------
(***************************************************************************)
(* deepvm file.wat: deep_wat_compile_file opens the output only when the   *)
(* assembly has succeeded.                                                 *)
(***************************************************************************)
ReadTextStep ==
  /\ at = "text" /\ Rd!ReadText
  /\ UNCHANGED <<asmVars, mainVars, loadVars>>
TextFails(how) ==
  /\ at' = how /\ logged' = (logged \/ how = "-1")
  /\ UNCHANGED <<textVars, asmVars, disk, table, buffer, size, loadAt, nodes, buf, node,
                 codeBegin, module, held>>
(* (module ...), in which whatever begins with a word is a form; m stands  *)
(* for module, and no other word of a text is a keyword.                   *)
IsModuleForm(s) == s.list /\ s.kids # <<>> /\ s.kids[1].atom = <<"m">>
IsTopForm(s) == s.list /\ s.kids # <<>> /\ ~s.kids[1].list
Accepted(s) == IsModuleForm(s) /\ \A i \in 2..Len(s.kids) : ~IsTopForm(s.kids[i])
TextAccepted ==
  /\ at = "text" /\ mode = "tree" /\ Accepted(tree[1])
  /\ at' = "wat"
  /\ UNCHANGED <<textVars, asmVars, disk, table, loadVars>>
TextRefused ==
  /\ at = "text" /\ (mode = "empty" \/ (mode = "tree" /\ ~Accepted(tree[1])))
  /\ TextFails("-1")
TextOverrun ==
  /\ at = "text" /\ mode = "overrun"
  /\ TextFails("crash")

AssembleStep ==
  /\ at = "wat" /\ Assemble
  /\ UNCHANGED <<textVars, mainVars, loadVars>>
WriteFile ==
  /\ at = "wat" /\ Assembled
  /\ disk' = out /\ at' = "wasm"
  /\ UNCHANGED <<textVars, asmVars, table, loadVars>>
AssemblyFails ==
  /\ at = "wat" /\ section = Failed
  /\ at' = "-1" /\ logged' = TRUE
  /\ UNCHANGED <<textVars, asmVars, disk, table, buffer, size, loadAt, nodes, buf, node, codeBegin,
                 module, held>>

(***************************************************************************)
(* deepvm file.wasm.  A file longer than the buffer is cut off.            *)
(***************************************************************************)
FileBlock == <<"file", 0, 0, "buffer">>
ReadFile ==
  /\ at = "wasm"
  /\ size' = Min({Len(disk), FileSize})
  /\ buffer' = [p \in 1..FileSize |-> IF p <= Len(disk) THEN disk[p] ELSE 0]
  /\ held' = held \cup {FileBlock}
  /\ at' = IF disk = <<>> THEN "-1" ELSE "load"
  /\ logged' = (disk = <<>>)
  /\ UNCHANGED <<textVars, asmVars, disk, table, loadAt, nodes, buf, node, codeBegin, module>>

LoadStep ==
  /\ at = "load" /\ Ld!Load
  /\ UNCHANGED <<textVars, asmVars, mainVars>>
LoadFails ==
  /\ at = "load" /\ loadAt \in {"refused", "crash", "abort"}
  /\ at' = IF loadAt = "refused" THEN "-1" ELSE loadAt
  /\ UNCHANGED <<textVars, asmVars, disk, table, loadVars>>

(***************************************************************************)
(* The environment: both stacks, the linear memory if it can be had, the   *)
(* global variables and the function table, which the elem sections fill.  *)
(* A table without a slot is no block; one that cannot be had is written   *)
(* to all the same.                                                        *)
(***************************************************************************)
StackBlocks ==
  {<<"stack", 0, 0, part>> : part \in {"struct", "bytes"}}
    \cup {<<"control", 0, 0, part>> : part \in {"struct", "frames"}}
GlobalsBlock == <<"global_vars", 0, 0, "array">>
Pages == IF module.memory = <<>> THEN 1 ELSE Max({1, module.memory[1].items[1]})
MemoryBlocks == IF Pages <= ServedPages THEN {<<"pages", 0, 0, "bytes">>} ELSE {}
PageSlots == 65536 \div 4
HasTable == module.table # <<>> /\ module.tableCount > 0
TableSlots == IF HasTable THEN module.table[1].items[1] ELSE 0
TableServed ==
  TableSlots <= ServedSlots + (IF MemoryBlocks = {} THEN ServedPages * PageSlots ELSE 0)
TableBlocks ==
  IF TableSlots > 0 /\ TableServed THEN {<<"env_table", 0, 0, "array">>} ELSE {}

Uninitialised == -1
PutElemFromFirst(t, e) ==
  [i \in DOMAIN t |-> IF i \in 1..Len(e.funcs) THEN e.funcs[i] ELSE t[i]]
PutElem(t, e) ==
  [i \in DOMAIN t |-> IF i - e.offset \in 1..Len(e.funcs) THEN e.funcs[i - e.offset] ELSE t[i]]
FilledTable ==
  FoldLeft(PutElem, [i \in 1..TableSlots |-> Uninitialised], module.elems.items)
BuildEnvironment ==
  /\ at = "load" /\ loadAt = "loaded"
  /\ held' = held \cup StackBlocks \cup {GlobalsBlock} \cup MemoryBlocks \cup TableBlocks
  /\ IF TableServed THEN at' = "run" /\ table' = FilledTable
     ELSE at' = "crash" /\ UNCHANGED table
  /\ UNCHANGED <<textVars, asmVars, disk, buffer, size, loadAt, nodes, buf, node, codeBegin, module,
                 logged>>

(***************************************************************************)
(* call_main: the last export of that name, whatever it exports.           *)
(***************************************************************************)
MainName == <<109, 97, 105, 110>>
Mains == {i \in DOMAIN module.exports.items : module.exports.items[i].name = MainName}
MainIndexFromOne == module.exports.items[Max(Mains)].index + 1
MainIndex == module.exports.items[Max(Mains)].index
Decoded(index) ==
  index + 1 \in DOMAIN module.funcs.items /\ module.funcs.items[index + 1] # <<>>

(* Without a linear memory, main and what it calls may still not use any.  *)
Callable == Decoded(MainIndex) /\ \A s \in ToSet(module.start) : Decoded(s)
RunMain ==
  /\ at = "run"
  /\ \/ /\ Mains = {}
        /\ at' = "release" /\ logged' = TRUE
     \/ /\ Mains # {} /\ (~Callable \/ MemoryBlocks = {})
        /\ at' = "crash" /\ UNCHANGED logged
     \/ /\ Mains # {} /\ Callable
        /\ at' \in {"release", "exit", "trap"} /\ UNCHANGED logged
  /\ UNCHANGED <<textVars, asmVars, disk, table, buffer, size, loadAt, nodes, buf, node, codeBegin,
                 module, held>>

Released ==
  Ld!ModuleBlocks(module) \cup StackBlocks \cup {GlobalsBlock} \cup MemoryBlocks
    \cup TableBlocks \cup {FileBlock}
Release ==
  /\ at = "release"
  /\ IF Ld!FreeFollowsNull(module) THEN at' = "crash" /\ UNCHANGED held
     ELSE at' = "check" /\ held' = held \ Released
  /\ UNCHANGED <<textVars, asmVars, disk, table, buffer, size, loadAt, nodes, buf, node, codeBegin,
                 module, logged>>

(* The free memory is what it was at the start when nothing is held.       *)
LeakCheck ==
  /\ at = "check"
  /\ at' = IF held = {} THEN "0" ELSE "-1"
  /\ logged' = (logged \/ held # {})
  /\ UNCHANGED <<textVars, asmVars, disk, table, buffer, size, loadAt, nodes, buf, node, codeBegin,
                 module, held>>

Ended == {"0", "-1", "crash", "abort", "exit", "trap"}
Finished == at \in Ended /\ UNCHANGED vars
Next ==
  \/ ReadTextStep \/ TextAccepted \/ TextRefused \/ TextOverrun
  \/ AssembleStep \/ WriteFile \/ AssemblyFails
  \/ ReadFile \/ LoadStep \/ LoadFails \/ BuildEnvironment \/ RunMain \/ Release \/ LeakCheck
  \/ Finished

(***************************************************************************)
(* Fairness is WF_vars(Next) with its ENABLED spelled out, which is slow   *)
(* to evaluate: the one thread goes on until its call has ended, or goes   *)
(* round and changes nothing, in a list of a single node, which is linked  *)
(* to itself, or before a semicolon that begins no comment.  That there is *)
(* no other state without a step is what the deadlock check of the runs    *)
(* says.                                                                   *)
(***************************************************************************)
Spinning ==
  \/ at = "load" /\ loadAt \in {"find", "decode"} /\ node # 0 /\ nodes[node].next = node
  \/ at = "text" /\ Rd!AtLoneSemicolon
Fairness == []<>(at \in Ended \/ Spinning) \/ []<><<TRUE>>_vars

Spec == Init /\ [][Next]_vars /\ Fairness

-----------------------------------------------------------------------------
(***************************************************************************)
(* The reader of a .wat file stays in it and makes of it the tokens and    *)
(* then the expression that were written (see WatText).                    *)
(***************************************************************************)
ReadsTheText == Rd!StaysInText /\ Rd!TokensAsWritten /\ Rd!TreeAsWritten

(***************************************************************************)
(* What a text declares, by its own names and numbers: the position a form *)
(* is written at, not the number the assembler found for it.               *)
(***************************************************************************)
Position(forms, ref) ==
  IF ref \in Ids THEN SelectInSeq(forms, LAMBDA f : f.label = ref) ELSE Numeral[ref] + 1
AllFuncs == FuncImports \o program.funcs
DeclaredSig(f) ==
  IF f.use = "" THEN Signature(f)
  ELSE LET t == program.types[Position(program.types, f.use)]
       IN  [params |-> t.params, results |-> t.results]
DeclaredFuncs ==
  [i \in DOMAIN FuncImports |->
     [sig |-> DeclaredSig(FuncImports[i]), imported |-> TRUE,
      locals |-> DeclaredSig(FuncImports[i]).params, code |-> <<>>]]
    \o [i \in DOMAIN program.funcs |->
          LET f == program.funcs[i]
          IN  [sig |-> DeclaredSig(f), imported |-> FALSE,
               locals |-> DeclaredSig(f).params \o TypesOf(f.locals),
               code |-> bodies[i].code]]
LoadedFuncs ==
  [i \in DOMAIN module.funcs.items |->
     LET f == module.funcs.items[i][1]
     IN  [sig |-> f.sig, imported |-> f.imported, locals |-> Ld!Expanded(f.vars),
          code |-> SubSeq(buffer, f.begin, f.begin + f.size - 1)]]

FuncAt(ref) == Position(AllFuncs, ref) - 1
DeclaredElems ==
  [i \in DOMAIN program.elems |->
     [offset |-> program.elems[i].offset,
      funcs |-> [j \in DOMAIN program.elems[i].funcs |-> FuncAt(program.elems[i].funcs[j])],
      ended |-> TRUE]]
(* A value taken from another global is 0, as the comment on its reader    *)
(* says.                                                                   *)
DeclaredGlobals ==
  [i \in DOMAIN program.globals |->
     LET g == program.globals[i]
     IN  [type |-> g.type, mut |-> g.mut,
          init |-> IF g.init[1].word \in Constants
                   THEN Tail(ConstBytes(g.init[1].word, Numeral[g.init[1].arg])) ELSE <<0>>,
          ended |-> TRUE]]
LimitsOf(forms) == [i \in DOMAIN forms |-> forms[i].limits]
LoadedLimits(x) == [i \in DOMAIN x |-> x[i].items]

(***************************************************************************)
(* The module that is run is the one that was written: signatures, local   *)
(* variables and code of every function under the number the text gives    *)
(* it, imports, exports, start function, globals, table, elements, memory  *)
(* and data, through the numbering of the assembler, its bytes, and the    *)
(* decoders that read them in the order of the file.                       *)
(***************************************************************************)
LoadsAsWritten ==
  (at = "run" /\ program # NoProgram) =>
    /\ LoadedFuncs = DeclaredFuncs
    /\ Len(module.imports.items) = Len(program.imports)
    /\ \A i \in DOMAIN program.imports :
         /\ module.imports.items[i].module = program.imports[i].module
         /\ module.imports.items[i].member = program.imports[i].member
    /\ module.exports.items = AllExports
    /\ module.start = [i \in DOMAIN program.start |-> FuncAt(program.start[i])]
    /\ module.globals.items = DeclaredGlobals
    /\ LoadedLimits(module.table) = LimitsOf(program.table)
    /\ LoadedLimits(module.memory) = LimitsOf(program.memory)
    /\ module.elems.items = DeclaredElems
    /\ module.datas.items = program.datas

(***************************************************************************)
(* What is written runs: no module that the assembler accepts brings down  *)
(* the loader or main ("the two share one loader and interpreter, which    *)
(* guarantees that what is written runs", README.md).                      *)
(***************************************************************************)
WrittenRuns == at \in {"crash", "abort"} => program = NoProgram

(***************************************************************************)
(* Only what is held is released, by the loader and by main.               *)
(***************************************************************************)
FreedOnce ==
  /\ Ld!ListReleased
  /\ (at = "release" /\ ~Ld!FreeFollowsNull(module)) => Released \subseteq held

(***************************************************************************)
(* When main compares the free memory, nothing is held: for whatever       *)
(* sections a file has, in whatever order, if it has none of them twice.   *)
(***************************************************************************)
Repeated == \E i, j \in DOMAIN nodes : i # j /\ nodes[i].type = nodes[j].type
                                        /\ nodes[i].type \in 1..9 \cup {11}
NothingLost == at = "check" => (held = {} \/ Repeated)

(***************************************************************************)
(* A file may rest on what is not there: bodies, a type, a function, or    *)
(* room for its linear memory or its table.  Its sections may come in      *)
(* another order than that of their numbers, which the decoders rely on.   *)
(***************************************************************************)
InOrder ==
  \A i, j \in DOMAIN nodes :
    (i < j /\ {nodes[i].type, nodes[j].type} \subseteq 1..11) => nodes[i].type < nodes[j].type
OwnFuncSections == {n \in DOMAIN nodes : nodes[n].type = 3}
OwnCount(n) == Ld!Leb(nodes[n].begin)
TypesNamed ==
  {i.index : i \in ToSet(Ld!FuncsOf(module.imports.items))}
    \cup UNION {ToSet(Ld!OwnIndices(OwnCount(n).value, OwnCount(n).next)) : n \in OwnFuncSections}
FuncsNamed == {module.exports.items[i].index : i \in Mains} \cup ToSet(module.start)
FuncsNumbered ==
  UNION {0..module.importFuncs + OwnCount(n).value - 1 : n \in OwnFuncSections}
Founded ==
  /\ codeBegin # 0 /\ InOrder
  /\ <<>> \notin ToSet(module.types.items)
  /\ \A i \in TypesNamed : Ld!HasSig(i)
  /\ FuncsNamed \subseteq FuncsNumbered
  /\ MemoryBlocks # {} /\ TableServed

(***************************************************************************)
(* A module that is well founded brings down the loader or main only after *)
(* an error has been logged: the decoders' errors are not passed on, and   *)
(* call_main or module_free meets what they left undone.                   *)
(***************************************************************************)
CrashIsAnnounced == (at = "crash" /\ Founded) => logged

(***************************************************************************)
(* A function's block of local variables, which call_function takes by the *)
(* last of localCount + 1 offsets, covers all of them, however they are    *)
(* grouped in clusters.                                                    *)
(***************************************************************************)
LocalsCovered ==
  \A f \in ToSet(module.funcs.items) : f # <<>> =>
    /\ Len(f[1].offsets) = f[1].localCount + 1
    /\ Last(f[1].offsets) = FoldLeft(LAMBDA n, c : n + c[1] * Ld!TypeSize[c[2]], 0, f[1].vars)

(***************************************************************************)
(* A slot of the table holds the function the last elem section covering   *)
(* it puts there, or the mark of an uninitialised one, which call_indirect *)
(* refuses.                                                                *)
(***************************************************************************)
Covers(e, slot) == slot - e.offset \in 0..Len(e.funcs) - 1
TableFilled ==
  at = "run" =>
    /\ Len(table) = TableSlots
    /\ \A slot \in 0..Len(table) - 1 :
         LET over == {i \in DOMAIN module.elems.items : Covers(module.elems.items[i], slot)}
         IN  table[slot + 1] = IF over = {} THEN Uninitialised
                               ELSE LET e == module.elems.items[Max(over)]
                                    IN  e.funcs[slot - e.offset + 1]

(***************************************************************************)
(* Every call of deepvm ends, but for a file of a single section and a     *)
(* text with a semicolon that begins no comment.                           *)
(***************************************************************************)
EveryCallEnds ==
  <>(\/ at \in Ended
     \/ loadAt \in {"find", "decode"} /\ Len(nodes) = 1
     \/ at = "text" /\ Rd!AtLoneSemicolon)
=============================================================================
