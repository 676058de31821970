------------------------------- MODULE Loader -------------------------------
(***************************************************************************)
(* The loader (deep_loader.c).  deep_load checks the header, links a node  *)
(* for every section, looks for the code section, decodes the sections in  *)
(* the order of the file and releases the nodes; module_free releases the  *)
(* module.  An address is an index of buffer, a pointer to a block the     *)
(* index of what it points to, 0 for NULL.                                 *)
(*                                                                         *)
(* Allocations are taken to succeed: a file is at most FileSize bytes (the *)
(* pages of the linear memory are Driver's).                               *)
(* Files are those another tool or the assembler writes, or cut short, but *)
(* no vector runs on behind the end of its file.  Constants are not        *)
(* negative; an integer constant is <<n>>, a float constant its bytes;     *)
(* value types and constant expressions are the MVP's.                     *)
(***************************************************************************)
EXTENDS Bytecode, Integers, SequencesExt

CONSTANT FileSize       \* WASM_FILE_SIZE

VARIABLES
  buffer,       \* FileSize bytes, the file's and then zeros
  size,         \* bytes of the file in it
  loadAt,       \* "start", "list", "find", "decode", "release", or the outcome
                \* "loaded", "refused" (deep_load returns NULL), "crash" (a
                \* null pointer followed), "abort" (a failed assertion)
  nodes,        \* the section list
  buf,          \* create_section_list's pointer
  node,         \* the node the current loop over the list is at
  codeBegin,    \* p_code
  module,       \* the module decoded so far
  held,         \* blocks taken from the allocator
  logged        \* whether an error has been logged

loadVars == <<buffer, size, loadAt, nodes, buf, node, codeBegin, module, held, logged>>

Magic == <<0, 97, 115, 109, 1, 0, 0, 0>>
SectionCode == 10
FuncTag == 0
NULL == 0

(* An array of the module: the section node it was decoded from, NULL      *)
(* before that, and its items.  What is not an array is a sequence of at   *)
(* most one.                                                               *)
Array(at, items) == [at |-> at, items |-> items]
Arrays == {"types", "imports", "funcs", "exports", "globals", "elems", "datas"}
Optional == {"table", "memory", "start"}
Names == Arrays \cup Optional \cup {"importFuncs", "tableCount"}
EmptyModule ==
  [name \in Names |-> CASE name \in Arrays -> Array(NULL, <<>>)
                        [] name \in Optional -> <<>>
                        [] OTHER -> 0]

(***************************************************************************)
(* The blocks of an array, and of each item.                               *)
(***************************************************************************)
Parts(array, item) ==
  CASE array = "types" -> IF item = <<>> THEN {} ELSE {"struct", "type"}
    [] array = "funcs" -> IF item = <<>> THEN {}
                          ELSE {"struct", "offsets"}
                                 \cup (IF item[1].vars = <<>> THEN {} ELSE {"vars"})
    [] array = "exports" -> {"struct", "name"}
    [] array = "imports" -> {"struct", "module_name", "member_name"}
    [] array = "elems" -> {"struct", "func_indices"}
    [] array \in {"globals", "datas"} -> {"struct"}
ItemBlocks(array, at, items) ==
  UNION {{<<array, at, i, part>> : part \in Parts(array, items[i])} : i \in DOMAIN items}
ArrayBlock(array, at) == <<array, at, 0, "array">>
Blocks(array, at, items) == {ArrayBlock(array, at)} \cup ItemBlocks(array, at, items)

-----------------------------------------------------------------------------
(***************************************************************************)
(* Reading.  A reader gives a value and the address after it; Fields reads *)
(* one after the other.  A vector is a count and as many items.            *)
(***************************************************************************)
Leb(p) == ReadLeb(buffer, p)
Raw(p, n) == [value |-> SubSeq(buffer, p, p + n - 1), next |-> p + n]
Text(p) == LET n == Leb(p) IN Raw(n.next, n.value)
Field(kind, p) ==
  CASE kind = "byte" -> [value |-> buffer[p], next |-> p + 1]
    [] kind = "leb" -> Leb(p)
    [] kind = "text" -> Text(p)
Fields(p, kinds) ==
  FoldLeft(LAMBDA r, kind : LET f == Field(kind, r.next)
                            IN  [value |-> Append(r.value, f.value), next |-> f.next],
           [value |-> <<>>, next |-> p], kinds)
Times(Item(_), n, p) ==
  FoldLeft(LAMBDA r, i : LET item == Item(r.next)
                         IN  [value |-> Append(r.value, item.value), next |-> item.next],
           [value |-> <<>>, next |-> p], [i \in 1..n |-> i])
Vector(Item(_), p) == LET n == Leb(p) IN Times(Item, n.value, n.next)

(* One entry of each section.  A type that is no function's is passed over *)
(* a byte at a time; an offset that is not a constant is not read, so that *)
(* its index is taken for the end of the expression.                       *)
TypeItem(p) ==
  IF buffer[p] # 96 THEN [value |-> <<>>, next |-> p + 1]
  ELSE LET f == Fields(p, <<"byte", "text", "text">>)
       IN  [value |-> <<[params |-> f.value[2], results |-> f.value[3]]>>, next |-> f.next]
ImportItem(p) ==
  LET f == Fields(p, <<"text", "text", "byte", "leb">>)
  IN  [value |-> [module |-> f.value[1], member |-> f.value[2], tag |-> f.value[3],
                  index |-> f.value[4]],
       next |-> f.next]
ExportItem(p) ==
  LET f == Fields(p, <<"text", "byte", "leb">>)
  IN  [value |-> [name |-> f.value[1], tag |-> f.value[2], index |-> f.value[3]],
       next |-> f.next]
DataItem(p) ==
  LET f == Fields(p, <<"byte", "byte", "leb", "byte", "text">>)
  IN  [value |-> [offset |-> f.value[3], bytes |-> f.value[5]], next |-> f.next]
Literal(op, p) ==
  CASE op \in {i32_const, i64_const} -> [value |-> <<Leb(p).value>>, next |-> Leb(p).next]
    [] op = f32_const -> Raw(p, 4)
    [] op = f64_const -> Raw(p, 8)
    [] op = op_global_get -> [value |-> <<0>>, next |-> Leb(p).next]
GlobalItem(p) ==
  LET f == Fields(p, <<"byte", "byte", "byte">>)
      init == Literal(f.value[3], f.next)
  IN  [value |-> [type |-> f.value[1], mut |-> f.value[2], init |-> init.value,
                  ended |-> buffer[init.next] = op_end],
       next |-> init.next + 1]
ElemItem(p) ==
  LET f == Fields(p, <<"leb", "byte">>)
      offset == IF f.value[2] = i32_const THEN Leb(f.next) ELSE [value |-> 0, next |-> f.next]
      funcs == Vector(Leb, offset.next + 1)
  IN  [value |-> [offset |-> offset.value, funcs |-> funcs.value,
                  ended |-> buffer[offset.next] = op_end],
       next |-> funcs.next]
LimitsAt(flags, p) ==
  LET min == Leb(p)
  IN  IF flags % 2 = 1 THEN <<min.value, Leb(min.next).value>> ELSE <<min.value>>

-----------------------------------------------------------------------------
(***************************************************************************)
(* deep_load up to the decoders.                                           *)
(***************************************************************************)
LoadEnds(how) == loadAt' = how /\ logged' = (logged \/ how = "refused")

CheckMagic ==
  /\ loadAt = "start"
  /\ IF SubSeq(buffer, 1, 8) = Magic
     THEN loadAt' = "list" /\ buf' = 9 /\ UNCHANGED logged
     ELSE LoadEnds("refused") /\ UNCHANGED buf
  /\ UNCHANGED <<buffer, size, nodes, node, codeBegin, module, held>>

(* create_section_list: the first node is linked to itself until a second  *)
(* one comes; the next of the last is the zero its block was handed out    *)
(* with.                                                                   *)
LinkedTo(section, n) == [type |-> section.type, begin |-> section.begin, next |-> n]
LinkedFromThird(ns) ==
  LET n == Len(ns)
  IN  IF n <= 2 THEN [ns EXCEPT ![1] = LinkedTo(@, 1)] ELSE [ns EXCEPT ![n - 1] = LinkedTo(@, n)]
Linked(ns) ==
  LET n == Len(ns)
  IN  IF n = 1 THEN [ns EXCEPT ![1] = LinkedTo(@, 1)] ELSE [ns EXCEPT ![n - 1] = LinkedTo(@, n)]
NodeBlock(n) == <<"node", n, 0, "struct">>
CreateNode ==
  /\ loadAt = "list" /\ buf < size + 1
  /\ LET length == Leb(buf + 1)
     IN  /\ nodes' = Linked(Append(nodes, [type |-> buffer[buf], begin |-> length.next,
                                           next |-> NULL]))
         /\ buf' = length.next + length.value
  /\ held' = held \cup {NodeBlock(Len(nodes) + 1)}
  /\ UNCHANGED <<buffer, size, loadAt, node, codeBegin, module, logged>>

ModuleBlock == <<"module", 0, 0, "struct">>
ListEnds ==
  /\ loadAt = "list" /\ buf >= size + 1
  /\ IF buf = size + 1 /\ nodes # <<>>
     THEN /\ loadAt' = "find" /\ node' = 1
          /\ module' = EmptyModule /\ held' = held \cup {ModuleBlock}
          /\ UNCHANGED logged
     ELSE LoadEnds("refused") /\ UNCHANGED <<node, module, held>>
  /\ UNCHANGED <<buffer, size, nodes, buf, codeBegin>>

FindCode ==
  /\ loadAt = "find"
  /\ IF nodes[node].type = SectionCode
     THEN loadAt' = "decode" /\ codeBegin' = nodes[node].begin /\ node' = 1
     ELSE /\ UNCHANGED codeBegin
          /\ node' = nodes[node].next
          /\ loadAt' = IF nodes[node].next = NULL THEN "crash" ELSE "find"
  /\ UNCHANGED <<buffer, size, nodes, buf, module, held, logged>>

-----------------------------------------------------------------------------
(***************************************************************************)
(* decode_each_sections.  A decoder that finds a section a second time     *)
(* takes a new array and forgets the first one.                            *)
(***************************************************************************)
Section == nodes[node]
Decoding(types) == loadAt = "decode" /\ node # NULL /\ Section.type \in types
NextSection == node' = Section.next /\ UNCHANGED <<buffer, size, nodes, buf, codeBegin>>

TakeArray(array, items) ==
  /\ module' = [module EXCEPT ![array] = Array(node, items)]
  /\ held' = held \cup Blocks(array, node, items)
DecodeArray(type, array, Item(_), bad(_)) ==
  /\ Decoding({type})
  /\ LET items == Vector(Item, Section.begin).value
     IN  /\ TakeArray(array, items)
         /\ logged' = (logged \/ \E i \in ToSet(items) : bad(i))
  /\ NextSection
  /\ UNCHANGED loadAt

Never(i) == FALSE
NotEnded(i) == ~i.ended
DecodeTypes == DecodeArray(1, "types", TypeItem, Never)
DecodeExports == DecodeArray(7, "exports", ExportItem, Never)
DecodeElems == DecodeArray(9, "elems", ElemItem, NotEnded)
DecodeDatas == DecodeArray(11, "datas", DataItem, Never)
DecodeGlobals == DecodeArray(6, "globals", GlobalItem, NotEnded)

(* An import's tag says which counter goes up; only that of the functions  *)
(* is ever read.  No tag has a reader of its own.                          *)
FuncsOf(imports) == SelectSeq(imports, LAMBDA i : i.tag = FuncTag)
DecodeImports ==
  /\ Decoding({2})
  /\ LET imports == Vector(ImportItem, Section.begin).value
     IN  /\ module' = [module EXCEPT !.imports = Array(node, imports),
                                     !.importFuncs = @ + Len(FuncsOf(imports))]
         /\ held' = held \cup Blocks("imports", node, imports)
         /\ logged' = (logged \/ \E i \in ToSet(imports) : i.tag > 3)
  /\ NextSection
  /\ UNCHANGED loadAt

DecodeTable ==
  /\ Decoding({4})
  /\ LET count == Leb(Section.begin)
         f == Fields(count.next, <<"byte", "byte">>)
     IN  IF count.value = 0
         THEN module' = [module EXCEPT !.tableCount = 0] /\ UNCHANGED held
         ELSE /\ module' = [module EXCEPT !.tableCount = count.value,
                              !.table = <<Array(node, LimitsAt(f.value[2], f.next))>>]
              /\ held' = held \cup {<<"table", node, 0, "struct">>}
  /\ NextSection
  /\ UNCHANGED <<loadAt, logged>>

DecodeMemory ==
  /\ Decoding({5})
  /\ LET count == Leb(Section.begin)
     IN  IF count.value = 0 THEN UNCHANGED <<module, held>>
         ELSE /\ module' = [module EXCEPT
                              !.memory = <<Array(node, LimitsAt(buffer[count.next],
                                                                count.next + 1))>>]
              /\ held' = held \cup {<<"memory", node, 0, "struct">>}
  /\ NextSection
  /\ UNCHANGED <<loadAt, logged>>

DecodeStart ==
  /\ Decoding({8})
  /\ module' = [module EXCEPT !.start = <<Leb(Section.begin).value>>]
  /\ NextSection
  /\ UNCHANGED <<loadAt, held, logged>>

SkipSection ==
  /\ Decoding((0..255) \ ((1..9) \cup {11}))
  /\ NextSection
  /\ UNCHANGED <<loadAt, module, held, logged>>

-----------------------------------------------------------------------------
(***************************************************************************)
(* decode_func_section: the imported functions, whose local variables are  *)
(* their parameters, and then the function section's own, each with the    *)
(* next body of the code section.  vars are the clusters <<count, type>>   *)
(* of local variables, one each for the parameters.                        *)
(***************************************************************************)
type_i32 == 127
type_i64 == 126
type_f32 == 125
type_f64 == 124
TypeSize == type_i32 :> 4 @@ type_i64 :> 8 @@ type_f32 :> 4 @@ type_f64 :> 8 @@ 64 :> 0

Ones(kinds) == [i \in DOMAIN kinds |-> <<1, kinds[i]>>]
Expanded(vars) ==
  FlattenSeq([i \in DOMAIN vars |-> [k \in 1..vars[i][1] |-> vars[i][2]]])
Offsets(vars) ==
  FoldLeft(LAMBDA o, c : o \o [k \in 1..c[1] |-> Last(o) + k * TypeSize[c[2]]], <<0>>, vars)

FunctionCountsClusters(sig, imported, vars, begin, length) ==
  <<[sig |-> sig, imported |-> imported, vars |-> vars,
     localCount |-> Len(vars) % 256, offsets |-> Offsets([i \in DOMAIN vars |-> <<1, vars[i][2]>>]),
     begin |-> begin, size |-> length]>>
Function(sig, imported, vars, begin, length) ==
  <<[sig |-> sig, imported |-> imported, vars |-> vars,
     localCount |-> Len(Expanded(vars)) % 256, offsets |-> Offsets(vars),
     begin |-> begin, size |-> length]>>

Sig(index) == module.types.items[index + 1][1]
HasSig(index) ==
  index + 1 \in DOMAIN module.types.items /\ module.types.items[index + 1] # <<>>

ImportedFunction(i) ==
  Function(Sig(i.index), TRUE, Ones(Sig(i.index).params), 0, 0)

ClusterItem(p) == Fields(p, <<"leb", "byte">>)
(* r holds the functions so far and the places in both sections.           *)
OwnFunction(r) ==
  LET index == Leb(r.at)
      length == Leb(r.code)
      clusters == Vector(ClusterItem, length.next)
  IN  [funcs |-> Append(r.funcs, Function(Sig(index.value), FALSE,
                   Ones(Sig(index.value).params) \o clusters.value, clusters.next,
                   length.value - (clusters.next - length.next))),
       at |-> index.next, code |-> length.next + length.value]
OwnIndices(count, p) == Times(Leb, count, p).value

(* The loop over the imports gives up at an import it meets when it has    *)
(* all the functions, and takes the module's own functions with it.        *)
GivesUp(imports, n) == imports # <<>> /\ Len(FuncsOf(Front(imports))) >= n
Unset(n) == [i \in 1..n |-> <<>>]

CountsDiffer(p) == Leb(p).value # Leb(codeBegin).value
DecodeFuncs ==
  /\ Decoding({3})
  /\ LET count == Leb(Section.begin)
         imports == module.imports.items
         n == module.importFuncs
         taken == SubSeq(FuncsOf(imports), 1, n)
         imported == [i \in DOMAIN taken |-> ImportedFunction(taken[i])] \o Unset(n - Len(taken))
         own == FoldLeft(LAMBDA r, i : OwnFunction(r),
                         [funcs |-> <<>>, at |-> count.next, code |-> Leb(codeBegin).next],
                         [i \in 1..count.value |-> i]).funcs
         funcs == imported \o (IF GivesUp(imports, n) THEN Unset(count.value) ELSE own)
     IN  IF CountsDiffer(Section.begin)
         THEN logged' = TRUE /\ UNCHANGED <<loadAt, module, held>>
         ELSE IF \/ \E i \in ToSet(taken) : ~HasSig(i.index)
                 \/ /\ ~GivesUp(imports, n)
                    /\ \E i \in ToSet(OwnIndices(count.value, count.next)) : ~HasSig(i)
         THEN loadAt' = "crash" /\ UNCHANGED <<module, held, logged>>
         ELSE IF \E f \in ToSet(funcs) : f # <<>> /\ f[1].localCount + 1 # Len(f[1].offsets)
         THEN loadAt' = "abort" /\ UNCHANGED <<module, held, logged>>
         ELSE /\ TakeArray("funcs", funcs)
              /\ logged' = (logged \/ GivesUp(imports, n))
              /\ UNCHANGED loadAt
  /\ NextSection

-----------------------------------------------------------------------------
(* deep_load's last loop, and module_free.                                 *)
DecodingDone ==
  /\ loadAt = "decode" /\ node = NULL
  /\ loadAt' = "release" /\ node' = 1
  /\ UNCHANGED <<buffer, size, nodes, buf, codeBegin, module, held, logged>>
ReleaseNodeAndNext ==
  /\ loadAt = "release" /\ node # NULL
  /\ held' = held \ {NodeBlock(n) : n \in {node, nodes[node].next}}
  /\ node' = nodes[node].next
  /\ UNCHANGED <<buffer, size, loadAt, nodes, buf, codeBegin, module, logged>>
ReleaseNode ==
  /\ loadAt = "release" /\ node # NULL
  /\ held' = held \ {NodeBlock(node)}
  /\ node' = nodes[node].next
  /\ UNCHANGED <<buffer, size, loadAt, nodes, buf, codeBegin, module, logged>>
NodesReleased ==
  /\ loadAt = "release" /\ node = NULL
  /\ LoadEnds("loaded")
  /\ UNCHANGED <<buffer, size, nodes, buf, node, codeBegin, module, held>>

Load ==
  \/ CheckMagic \/ CreateNode \/ ListEnds \/ FindCode
  \/ DecodeTypes \/ DecodeImports \/ DecodeFuncs \/ DecodeTable \/ DecodeMemory
  \/ DecodeGlobals \/ DecodeExports \/ DecodeStart \/ DecodeElems \/ DecodeDatas
  \/ SkipSection \/ DecodingDone \/ ReleaseNode \/ NodesReleased

(* module_free; a function or type that was never decoded is a NULL        *)
(* pointer it follows.                                                     *)
ModuleBlocksWithoutTable(m) ==
  {ModuleBlock}
    \cup (UNION {Blocks(a, m[a].at, m[a].items) : a \in {b \in Arrays : m[b].at # NULL}})
    \cup {<<"memory", x.at, 0, "struct">> : x \in ToSet(m.memory)}
ModuleBlocks(m) ==
  {ModuleBlock}
    \cup (UNION {Blocks(a, m[a].at, m[a].items) : a \in {b \in Arrays : m[b].at # NULL}})
    \cup {<<"table", t.at, 0, "struct">> : t \in ToSet(m.table)}
    \cup {<<"memory", x.at, 0, "struct">> : x \in ToSet(m.memory)}
FreeFollowsNull(m) ==
  \E a \in {"types", "funcs"} : <<>> \in ToSet(m[a].items)

(***************************************************************************)
(* deep_load's loop over the list releases nodes that are held, and when   *)
(* it comes to its end, at the pointer nobody has set, it has released     *)
(* them all.                                                               *)
(***************************************************************************)
ListReleased ==
  /\ (loadAt = "release" /\ node # NULL) => NodeBlock(node) \in held
  /\ loadAt = "loaded" => \A n \in DOMAIN nodes : NodeBlock(n) \notin held
=============================================================================
