------------------------------ MODULE MCInterp ------------------------------
(***************************************************************************)
(* Modules for the interpreter: assembled from the bodies of their         *)
(* functions.  Conditions come from i32.load, so both ways are tried.      *)
(***************************************************************************)
EXTENDS Interp

(* A function: width in words of each parameter, of each other local       *)
(* variable and of the result, and its body.                               *)
Fn(params, locals, results, body) ==
  [widths |-> params \o locals, params |-> Len(params), results |-> results,
   body |-> body, imported |-> FALSE]
Imported(params) == [Fn(params, <<>>, 1, <<>>) EXCEPT !.imported = TRUE]

Sums(s) == [i \in 1..Len(s) + 1 |-> FoldSeq(+, 0, SubSeq(s, 1, i - 1))]

Assemble(fns, start, table, imports) ==
  LET bodies == [i \in DOMAIN fns |-> fns[i].body]
      before == Sums([i \in DOMAIN fns |-> Len(fns[i].body)])
  IN  [code |-> FlattenSeq(bodies),
       funcs |-> [i \in DOMAIN fns |->
                    [begin |-> before[i] + 1, end |-> before[i + 1] + 1,
                     params |-> fns[i].params, offsets |-> Sums(fns[i].widths),
                     results |-> fns[i].results, imported |-> fns[i].imported]],
       main |-> Max({i - 1 : i \in DOMAIN fns}), start |-> start, table |-> table,
       imports |-> imports, pages |-> 1,
       globals |-> <<<<0, 0>>, <<0, 0>>>>, globalWords |-> <<1, 2>>]

AnyWord == <<i32_const, 0, 40, 2, 0>>     \* an i32.load
One == <<i32_const, 1>>
End == <<op_end>>
Void == type_void
ResultOne == One \o End

(***************************************************************************)
(* Structured bodies: statements within d labels besides the function's.   *)
(***************************************************************************)
Jumps(d) ==
  {<<op_br, n>> : n \in 0..d} \cup {AnyWord \o <<op_br_if, n>> : n \in 0..d}
    \cup {<<op_return>>, AnyWord \o <<op_br_table, 2, 0, d, d>>}
Nested(inner) ==
  {<<op, Void>> \o s \o End : op \in {op_block, op_loop}, s \in inner}
IfElse(inner) ==
  {AnyWord \o <<op_if, Void>> \o s \o <<op_else>> \o t \o End : s \in inner, t \in inner}

Flat(d) == Jumps(d) \cup Nested(Jumps(d + 1)) \cup IfElse(Jumps(d + 1))
Deep == Nested(Nested(Flat(2)) \cup IfElse(Jumps(2)))
Pairs == {s \o t : s \in Nested(Jumps(1)) \cup IfElse(Jumps(1)), t \in Flat(0)}

(* main calls the body as a function of no parameters.                     *)
Main == Fn(<<>>, <<>>, 1, <<op_call, 0>> \o ResultOne)
Calling(body) ==
  Assemble(<<Fn(<<>>, <<>>, 0, body \o End), Main>>, {}, <<>>, <<>>)

(* A leaf, called from inside a block or loop of its caller, directly or   *)
(* through the table; it may also be the start function.                   *)
Leaves == Jumps(0) \cup Nested(Jumps(1))
Callers ==
  {<<op, Void>> \o call \o j \o End :
     op \in {op_block, op_loop}, j \in Jumps(1),
     call \in {<<op_call, 1>>, <<i32_const, 1, op_call_indirect, 0, 0>>}}
CallModules ==
  {Assemble(<<Fn(<<>>, <<>>, 0, c \o End), Fn(<<>>, <<>>, 0, l \o End), Main>>,
            start, <<{}, {1}>>, <<>>) :
     c \in Callers, l \in Leaves, start \in {{}, {1}}}

(* A function that calls itself until the control stack is full.           *)
Recursive == Calling(<<op_block, Void, op_call, 0>> \o End)

(* main alone.                                                             *)
Alone(body, results, imports) ==
  Assemble(imports \o <<Fn(<<>>, <<>>, results, body \o End)>>, {}, <<{}>>, <<>>)

(* Ways to leave main with a 1, from d constructs deep.                    *)
Exits(d) ==
  {One \o <<op_return>>, One \o <<op_br, d>>}
    \cup {AnyWord \o <<op_br_if, n>> \o One \o <<op_return>> : n \in 0..d - 1}
Mains == {s \o One : s \in Exits(0) \cup Nested(Exits(1)) \cup Nested(Nested(Exits(2)))}

ControlModules ==
  {Calling(s) : s \in Deep \cup Pairs} \cup CallModules \cup {Recursive}
    \cup {Alone(b, 1, <<>>) : b \in Mains}

-----------------------------------------------------------------------------
(***************************************************************************)
(* Straight code: one of each instruction, its operands loaded first and   *)
(* its result main's own.                                                  *)
(***************************************************************************)
AnyLong == <<i32_const, 0, 41, 3, 0>>
Word == <<AnyWord>>
Long == <<AnyLong>>
Operands(f) ==
  CASE f \in {i32_compare, i32_binary, f32_compare, f32_binary, word_stores} -> Word \o Word
    [] f \in {i64_compare, i64_binary, f64_compare, f64_binary} -> Long \o Long
    [] f = long_stores -> Word \o Long
    [] f \in {eqz_64, i64_count, f64_unary, to_word_from_long, to_long_from_long} -> Long
    [] f \in {reinterpret, skip} -> <<>>
    [] OTHER -> Word
Immediates(op) == IF op \in MemoryAccess THEN <<2, 0>> ELSE <<>>

OneOf(f) == {Min(f.ops), Max(f.ops)} \cup (f.ops \cap Divisions)
Operations ==
  UNION {{Alone(FlattenSeq(Operands(f)) \o <<op>> \o Immediates(op)
                  \o (IF f.gives = 0 THEN One ELSE <<>>),
                Max({1, f.gives}), <<>>) : op \in OneOf(f) \ {op_else}} : f \in Families}

Moves ==
  {One \o One \o <<op_drop>>, AnyWord \o One \o AnyWord \o <<op_select>>,
   <<memory_size, 0>>, AnyWord \o <<memory_grow, 0>>,
   AnyWord \o <<op_global_set, 0, op_global_get, 0>>,
   <<f32_const, 0, 0, 128, 63>>, One \o <<op_unreachable>>, One \o <<255>>,
   AnyWord \o <<op_call_indirect, 0, 0>> \o One}
LongMoves ==
  {<<i64_const, 127>>, <<f64_const, 0, 0, 0, 0, 0, 0, 240, 63>>,
   AnyLong \o <<op_global_set, 1, op_global_get, 1>>}

StraightModules ==
  Operations \cup {Alone(b, 1, <<>>) : b \in Moves} \cup {Alone(b, 2, <<>>) : b \in LongMoves}

-----------------------------------------------------------------------------
(***************************************************************************)
(* Calls with arguments and local variables of both widths: the caller     *)
(* keeps an operand and two local variables across the call, the callee    *)
(* changes its own.  Imported functions come first in the index space.     *)
(***************************************************************************)
Callee ==
  Fn(<<1, 2>>, <<1>>, 1,
     AnyWord \o <<op_local_set, 0>> \o AnyLong \o <<op_local_set, 1>>
       \o <<op_block, Void>> \o AnyWord \o <<op_local_tee, 2, op_br_if, 0, op_local_get, 0,
         op_return>> \o End \o <<op_local_get, 2>> \o End)
CallerOf(callee) ==
  Fn(<<>>, <<1, 2>>, 1,
     AnyWord \o <<op_local_set, 0>> \o One \o <<op_local_get, 0>> \o AnyLong
       \o <<op_call, callee, op_drop, op_drop, op_local_get, 0>> \o End)
LocalModules ==
  {Assemble(<<Callee, CallerOf(0)>>, {}, <<>>, <<>>)}

Imports == {[name |-> "puts", arg |-> AnyWord], [name |-> "putf", arg |-> AnyWord],
            [name |-> "putl", arg |-> AnyLong], [name |-> "isnanf", arg |-> AnyWord],
            [name |-> "isinfd", arg |-> AnyLong], [name |-> "other", arg |-> AnyWord]}
NativeModules ==
  {Assemble(<<Imported(IF n.arg = AnyWord THEN <<1>> ELSE <<2>>),
              Fn(<<>>, <<>>, 1, n.arg \o <<op_call, 0>> \o End)>>, {}, <<>>,
            <<[name |-> n.name, isFunc |-> TRUE]>>) : n \in Imports}

ValueModules == StraightModules \cup LocalModules \cup NativeModules

-----------------------------------------------------------------------------
(* Modules that meet what the code does otherwise than it is documented.   *)
LoneIfModules ==
  {Alone(<<op_block, Void>> \o AnyWord \o <<op_if, Void, op_nop, op_end>>
           \o <<op_nop>> \o End \o One, 1, <<>>)}
TableModules ==
  {Calling(<<op_block, Void>> \o AnyWord \o <<op_br_table, 1, 0, 1>> \o End)}

-----------------------------------------------------------------------------
(***************************************************************************)
(* Modules for a heap with little left: blocks with and without a result,  *)
(* an opcode read_block does not know, and calls with arguments, with a    *)
(* local variable and with neither, nested to every depth up to four; and  *)
(* a block and a loop that push one word more than the operand stack       *)
(* holds.                                                                  *)
(***************************************************************************)
Tight ==
  LET void(s) == <<op_block, Void>> \o s \o End
      long(s) == <<op_block, 126>> \o s \o <<i64_const, 0, 11, op_drop>>
      plain == <<op_call, 0>>
      given == One \o <<op_call, 1>>
      bare == <<op_call, 2>>
      last == {plain, given, bare, void(<<op_nop>>), long(<<>>), <<op_block, Void, 255, op_end>>}
      inner == last \cup {void(s) : s \in last} \cup {long(s) : s \in last}
  IN  inner \cup {void(s) : s \in inner} \cup {long(s) : s \in inner}
Tall == FlattenSeq([i \in 1..StackWords + 1 |-> One])
TightModules ==
  {Assemble(<<Fn(<<>>, <<1>>, 0, AnyWord \o <<op_local_set, 0>> \o End),
              Fn(<<1>>, <<>>, 0, End), Fn(<<>>, <<>>, 0, End),
              Fn(<<>>, locals, 1, s \o ResultOne)>>, {}, <<>>, <<>>) :
     s \in Tight, locals \in {<<>>, <<1>>}}
    \cup {Alone(<<op, Void>> \o Tall \o End \o One, 1, <<>>) : op \in {op_block, op_loop}}
ValueAndTightModules == ValueModules \cup TightModules

(***************************************************************************)
(* A main that leaves through any number of blocks, by a branch or a       *)
(* return, gives the value it pushed last: call_main reads it below        *)
(* env->sp, which every activation on the way has to write.                *)
(***************************************************************************)
ReturnsOne == status = "done" => envSp > 0 /\ stack[envSp - 1] = 1
=============================================================================
