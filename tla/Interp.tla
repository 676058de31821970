------------------------------- MODULE Interp -------------------------------
(***************************************************************************)
(* The interpreter (deep_interp.c).  exec_instructions is re-entered for   *)
(* every block, loop, if and call, so its activations on the C stack are   *)
(* part of the state, next to the control stack of frames they push and    *)
(* pop.  A branch does not move the instruction pointer: it sets           *)
(* jump_depth, and each activation that finds it set at its loop head      *)
(* takes one off and returns, until enter_frame or call_function stops the *)
(* unwinding.  One step is one instruction, one such return, or what the   *)
(* C function that started an activation does when it has returned.        *)
(*                                                                         *)
(* The operand stack is counted in words of 4 bytes: a 32-bit value is     *)
(* one word and a 64-bit value two.  A word is one of W values; constants  *)
(* and moves are exact, an arithmetic result is any word.                  *)
(***************************************************************************)
EXTENDS Bytecode, Integers, SequencesExt

CONSTANTS
  Modules,        \* the modules that may be loaded
  W,              \* values of a word (2^32 in the code)
  StackWords,     \* STACK_CAPACITY \div 4
  ControlCap,     \* CONTROL_STACK_CAPACITY
  MaxObjects      \* blocks the heap can still give the interpreter

ASSUME Parameters ==
  /\ W \in Nat \ {0, 1} /\ ControlCap \in Nat \ {0, 1}
  /\ StackWords \in Nat /\ MaxObjects \in Nat \ 0..3   \* main and start fit

Words == 0..W - 1

VARIABLES
  module,       \* the loaded module (see ModuleOK)
  acts,         \* the activations of exec_instructions, innermost last
  stack,        \* the operand stack's memory
  envSp,        \* env->sp: words below it are in use
  jump,         \* env->jump_depth
  control,      \* the frames on the control stack, index 0 first
  curFrame,     \* env->cur_frame, as an index of control
  envLocals,    \* env->local_vars, as the index of the frame it belongs to
  globals,      \* env->global_vars: a low and a high word each
  objects,      \* heap blocks held by the interpreter
  status        \* "run", "done", "exit" (exit(1)), "crash" (a null pointer
                \* followed or an arithmetic trap), "ctlOverflow"

vars == <<module, acts, stack, envSp, jump, control, curFrame, envLocals,
          globals, objects, status>>

(***************************************************************************)
(* A module: code holds the bodies of all its functions, funcs where each  *)
(* begins and ends, the offsets of its local variables in words (the       *)
(* parameters first), how many are parameters and the words of its result; *)
(* start and the elements of table are a function index or none.           *)
(***************************************************************************)
FuncType(n) ==
  [begin : 1..n + 1, end : 1..n + 1, params : Nat, offsets : Seq(Nat),
   results : 0..2, imported : BOOLEAN]
ModuleOK(m) ==
  /\ m.code \in Seq(Bytes)
  /\ m.funcs \in Seq(FuncType(Len(m.code)))
  /\ m.main + 1 \in DOMAIN m.funcs
  /\ m.start \subseteq {i - 1 : i \in DOMAIN m.funcs}
  /\ m.globals \in Seq(Words \X Words) /\ m.globalWords \in Seq({1, 2})
  /\ m.pages \in Words

Func(i) == module.funcs[i + 1]
LocalWords(f) == Last(f.offsets)
ParamWords(f) == f.offsets[f.params + 1]

(***************************************************************************)
(* Frames and activations.  kind is what the C function under the          *)
(* activation does with its return, resume where the then branch of an if  *)
(* goes on, over how the activation returned: it has not ("no"), at its    *)
(* end ("natural"), for a jump ("jump") or on the overflow check           *)
(* ("overflow"); the last two return false.                                *)
(***************************************************************************)
Frame(type, func, begin, end, sp, prev, locals, values, held) ==
  [type |-> type, func |-> func, begin |-> begin, end |-> end, sp |-> sp,
   prev |-> prev, locals |-> locals, vars |-> values, held |-> held]

Activation(frame, kind, resume) ==
  [ip |-> frame.begin, end |-> frame.end, sp |-> frame.sp, kind |-> kind,
   resume |-> resume, over |-> "no"]

FunctionFrame(i, sp, prev, slot, values, held) ==
  Frame("FUNCTION", i, Func(i).begin, Func(i).end, sp, prev, slot, values, held)

FrameOf == control[curFrame]
Top == Last(acts)
Op == module.code[Top.ip]
Imm == ReadLeb(module.code, Top.ip + 1)

(* The innermost activation goes on at ip with the operand stack at sp,    *)
(* after the check at the foot of the loop.                                *)
Continue(outer, sp, ip) ==
  Append(Front(outer),
         [Last(outer) EXCEPT !.ip = ip, !.sp = sp,
                             !.over = IF sp > StackWords THEN "overflow" ELSE "no"])

Halt(how) ==
  /\ status' = how
  /\ UNCHANGED <<module, acts, stack, envSp, jump, control, curFrame, envLocals,
                 globals, objects>>

(***************************************************************************)
(* deep_main.c's environment, and call_main up to its first instruction:   *)
(* the main frame goes in slot 0, which the index already names, and a     *)
(* start function is called above it.  deep_malloc hands out zeroed        *)
(* blocks, which is what makes local variables start at 0, and nothing for *)
(* a function that has none.                                               *)
(***************************************************************************)
ZeroedLocals(f) == [k \in 1..LocalWords(f) |-> 0]
FunctionObjects(f) == IF LocalWords(f) = 0 THEN 1 ELSE 2
FirstFrame(i, prev, slot) ==
  FunctionFrame(i, 0, prev, slot, ZeroedLocals(Func(i)), FunctionObjects(Func(i)))

Init ==
  /\ module \in Modules
  /\ stack = [i \in 0..StackWords + 1 |-> 0]
  /\ envSp = 0
  /\ jump = 0
  /\ globals = module.globals
  /\ status = "run"
  /\ LET main == FirstFrame(module.main, 0, 1)
         start(s) == FirstFrame(s, 1, 2)
     IN  \/ /\ module.start = {}
            /\ control = <<main>> /\ objects = main.held
            /\ acts = <<Activation(main, "main", 0)>>
         \/ \E s \in module.start :
              /\ control = <<main, start(s)>> /\ objects = main.held + start(s).held
              /\ acts = <<Activation(main, "main", 0), Activation(start(s), "start", 0)>>
  /\ curFrame = Len(control)
  /\ envLocals = Len(control)

-----------------------------------------------------------------------------
(* The loop of exec_instructions.                                          *)
Active == status = "run" /\ Top.over = "no"
At(ops) == Active /\ jump = 0 /\ Top.ip < Top.end /\ Op \in ops

(* The activation returns; the operand stack's height is env's again.      *)
ReturnFromUnsynced(how) ==
  /\ envSp' = IF how = "jump" THEN envSp ELSE Top.sp
  /\ acts' = [acts EXCEPT ![Len(acts)].over = how]
  /\ UNCHANGED <<module, stack, control, curFrame, envLocals, globals, objects, status>>
ReturnFrom(how) ==
  /\ envSp' = Top.sp
  /\ acts' = [acts EXCEPT ![Len(acts)].over = how]
  /\ UNCHANGED <<module, stack, control, curFrame, envLocals, globals, objects, status>>

Unwind ==
  /\ Active
  /\ jump # 0
  /\ jump' = jump - 1
  /\ ReturnFrom("jump")

FallOff ==
  /\ Active
  /\ jump = 0
  /\ Top.ip >= Top.end
  /\ jump' = jump
  /\ ReturnFrom("natural")

(***************************************************************************)
(* Instructions that move operands only: pop some words, push some, go to  *)
(* the next instruction.                                                   *)
(***************************************************************************)
Operand(n) == stack[Top.sp - n]
Popped(n) == [i \in 1..n |-> stack[Top.sp - n - 1 + i]]

PushedLow(words, base) ==
  [i \in DOMAIN stack |-> IF i \in base - 1..base + Len(words) - 2
                          THEN words[i - base + 2] ELSE stack[i]]
Pushed(words, base) ==
  [i \in DOMAIN stack |-> IF i \in base..base + Len(words) - 1
                          THEN words[i - base + 1] ELSE stack[i]]

(* pops words off, pushes the given ones, goes on at ip.  What code that   *)
(* takes more than there is would read below the stack is not modelled: no *)
(* step is possible there, here and wherever operands are taken.           *)
Replace(pops, words, ip) ==
  /\ Top.sp >= pops
  /\ stack' = Pushed(words, Top.sp - pops)
  /\ acts' = Continue(acts, Top.sp - pops + Len(words), ip)
  /\ UNCHANGED <<module, envSp, jump, curFrame, envLocals, objects, status>>

Elsewhere == UNCHANGED <<control, globals>>

(***************************************************************************)
(* The instructions that compute, by family: words taken, words given and  *)
(* the opcodes.  A comparison gives 0 or 1, a load or an operation any     *)
(* word.                                                                   *)
(***************************************************************************)
Family(ops, takes, gives, values) ==
  [ops |-> ops, takes |-> takes, gives |-> gives, values |-> values]

Booleans == {0, 1}
word_loads == Family({40, 42} \cup 44..47, 1, 1, Words)
long_loads == Family({41, 43} \cup 48..53, 1, 2, Words)
word_stores == Family({54, 56, 58, 59}, 2, 0, {})
long_stores == Family({55, 57} \cup 60..62, 3, 0, {})
i32_compare == Family(70..79, 2, 1, Booleans)
i64_compare == Family(81..90, 4, 1, Booleans)
eqz_32 == Family({69}, 1, 1, Booleans)
eqz_64 == Family({80}, 2, 1, Booleans)
f32_compare == Family(91..96, 2, 1, Booleans)
f64_compare == Family(97..102, 4, 1, Booleans)
i32_binary == Family(106..120, 2, 1, Words)
i64_binary == Family(124..138, 4, 2, Words)
f32_binary == Family(146..152, 2, 1, Words)
f64_binary == Family(160..166, 4, 2, Words)
i32_count == Family(103..105, 1, 1, Words)
i64_count == Family(121..123, 2, 2, Words)
f32_unary == Family(139..145, 1, 1, Words)
f64_unary == Family(153..159, 2, 2, Words)
to_word_from_word == Family({168, 169, 178, 179}, 1, 1, Words)
to_word_from_long == Family({167, 170, 171, 180, 181, 182}, 2, 1, Words)
to_long_from_word == Family(172..175 \cup {183, 184, 187}, 1, 2, Words)
to_long_from_long == Family({176, 177, 185, 186}, 2, 2, Words)
reinterpret == Family(188..191, 0, 0, {})
skip == Family({op_nop, op_else, op_end}, 0, 0, {})

Families ==
  {word_loads, long_loads, word_stores, long_stores, i32_compare, i64_compare,
   eqz_32, eqz_64, f32_compare, f64_compare, i32_binary, i64_binary, f32_binary,
   f64_binary, i32_count, i64_count, f32_unary, f64_unary, to_word_from_word,
   to_word_from_long, to_long_from_word, to_long_from_long, reinterpret, skip}

(* A memory access has two LEB immediates, the rest none.                  *)
AfterOperator ==
  IF Op \in MemoryAccess THEN AfterLeb(module.code, Imm.next) ELSE Top.ip + 1

Divisions == 109..112 \cup 127..130
DivisorWords == IF Op < 124 THEN 1 ELSE 2
DivisorIsZero ==
  Op \in Divisions /\ \A n \in 1..DivisorWords : Operand(n) = 0

(* The smallest signed number divided by -1, for the signed operations.    *)
Smallest(hi, lo) == stack[hi] = W \div 2 /\ (lo = hi \/ stack[lo] = 0)
QuotientOverflows ==
  /\ Op \in {109, 111, 127, 129}
  /\ \A n \in 1..DivisorWords : Operand(n) = W - 1
  /\ Smallest(Top.sp - DivisorWords - 1, Top.sp - 2 * DivisorWords)

Compute ==
  \E f \in Families :
    /\ At(f.ops)
    /\ ~DivisorIsZero
    /\ ~QuotientOverflows
    /\ \E words \in [1..f.gives -> f.values] : Replace(f.takes, words, AfterOperator)
    /\ Elsewhere

(* DIVIDE and MODULUS exit on a zero divisor, and only on that: x86 traps  *)
(* on a quotient that does not fit.                                        *)
Arithmetic ==
  /\ At(Divisions)
  /\ \/ DivisorIsZero /\ Halt("exit")
     \/ QuotientOverflows /\ Halt("crash")

(* read_leb_i32 and read_leb_i64 sign-extend from the last byte's bit 6.   *)
SignedImmediate ==
  LET above == 128 * Weight[Imm.next - Top.ip - 1]    \* bit 7 of the last byte
  IN  IF module.code[Imm.next - 1] % 128 >= 64 THEN Imm.value - above ELSE Imm.value

(* A float constant is copied from its raw bytes.                          *)
Const ==
  /\ \/ At({i32_const}) /\ Replace(0, <<SignedImmediate % W>>, Imm.next)
     \/ /\ At({i64_const})
        /\ Replace(0, <<SignedImmediate % W, (SignedImmediate \div W) % W>>, Imm.next)
     \/ At({f32_const}) /\ \E w \in Words : Replace(0, <<w>>, Top.ip + 5)
     \/ At({f64_const}) /\ \E w, v \in Words : Replace(0, <<w, v>>, Top.ip + 9)
  /\ Elsewhere

(* drop and select take words, whatever the width of the operands is.      *)
Drop == At({op_drop}) /\ Replace(1, <<>>, Top.ip + 1) /\ Elsewhere
Select ==
  /\ At({op_select})
  /\ Replace(3, <<IF Operand(1) # 0 THEN Operand(3) ELSE Operand(2)>>, Top.ip + 1)
  /\ Elsewhere

(* deep_realloc always fails, so the memory never grows.                   *)
Memory ==
  /\ \/ At({memory_size}) /\ Replace(0, <<module.pages>>, Imm.next)
     \/ /\ At({memory_grow})
        /\ Replace(1, <<IF Operand(1) = 0 THEN module.pages ELSE W - 1>>, Imm.next)
  /\ Elsewhere

(***************************************************************************)
(* Local variables: offsets come from the current frame's function, the    *)
(* storage is env->local_vars.  A frame whose storage could not be         *)
(* allocated has none: the access follows a null pointer.                  *)
(***************************************************************************)
Offset(i) == Func(FrameOf.func).offsets[i + 1]
Width(i) == Offset(i + 1) - Offset(i)
LocalVars == control[envLocals].vars
Allocated(i) == Offset(i + 1) <= Len(LocalVars)
LocalAccess == {op_local_get, op_local_set, op_local_tee}

(* The variable i overwritten with the operand on top.                     *)
StoreLocalOfMain(i) ==
  control' = [control EXCEPT ![1].vars =
                [k \in DOMAIN @ |-> IF k \in Offset(i) + 1..Offset(i + 1)
                                    THEN Popped(Width(i))[k - Offset(i)] ELSE @[k]]]
StoreLocal(i) ==
  control' = [control EXCEPT ![envLocals].vars =
                [k \in DOMAIN @ |-> IF k \in Offset(i) + 1..Offset(i + 1)
                                    THEN Popped(Width(i))[k - Offset(i)] ELSE @[k]]]

Local ==
  /\ At(LocalAccess)
  /\ Allocated(Imm.value)
  /\ \/ /\ Op = op_local_get
        /\ Replace(0, SubSeq(LocalVars, Offset(Imm.value) + 1, Offset(Imm.value + 1)),
                   Imm.next)
        /\ UNCHANGED control
     \/ /\ Op = op_local_set
        /\ Replace(Width(Imm.value), <<>>, Imm.next)
        /\ StoreLocal(Imm.value)
     \/ /\ Op = op_local_tee
        /\ Top.sp >= Width(Imm.value)
        /\ Replace(0, <<>>, Imm.next)
        /\ StoreLocal(Imm.value)
  /\ UNCHANGED globals

NoLocals == At(LocalAccess) /\ ~Allocated(Imm.value) /\ Halt("crash")

(* A global takes 8 bytes; a 32-bit one keeps its value in the low word.   *)
Global ==
  LET i == Imm.value + 1
      n == module.globalWords[i]
  IN  /\ \/ /\ At({op_global_get})
            /\ Replace(0, SubSeq(globals[i], 1, n), Imm.next)
            /\ UNCHANGED globals
         \/ /\ At({op_global_set})
            /\ Replace(n, <<>>, Imm.next)
            /\ globals' = [globals EXCEPT ![i] =
                              IF n = 2 THEN Popped(2) ELSE <<Operand(1), 0>>]
      /\ UNCHANGED control

Exit ==
  \/ At({op_unreachable}) /\ Halt("exit")
  \/ At(Bytes \ (Known \cup F64Arithmetic)) /\ Halt("exit")

-----------------------------------------------------------------------------
(* Branches: jump_depth is set and the unwinding starts at the loop head.  *)
Branch(depth, pops, ip) ==
  /\ Top.sp >= pops
  /\ jump' = depth
  /\ acts' = Continue(acts, Top.sp - pops, ip)
  /\ UNCHANGED <<module, stack, envSp, control, curFrame, envLocals, globals, objects,
                 status>>

BrPastTarget == At({op_br}) /\ Branch(Imm.value + 2, 0, Imm.next)
Br == At({op_br}) /\ Branch(Imm.value + 1, 0, Imm.next)
BrIf == At({op_br_if}) /\ Branch(IF Operand(1) # 0 THEN Imm.value + 1 ELSE 0, 1, Imm.next)
Return == At({op_return}) /\ Branch(-1, 0, Top.ip + 1)

(***************************************************************************)
(* The labels of a table are bytes, its default the last; past the table,  *)
(* the default case reads the byte after it, the next opcode.              *)
(***************************************************************************)
TableLabels(code, ip) == (ReadLeb(code, ip + 1).value + 1) % 256
LabelAddress(code, ip, w) ==
  LET n == TableLabels(code, ip)
  IN  ReadLeb(code, ip + 1).next + (IF w % 256 < n - 1 THEN w % 256 ELSE n)

BrTable ==
  /\ At({op_br_table})
  /\ Branch(module.code[LabelAddress(module.code, Top.ip, Operand(1))] + 1, 1,
            Imm.next + TableLabels(module.code, Top.ip))

-----------------------------------------------------------------------------
(***************************************************************************)
(* Blocks.  A block takes a DEEPType, its result type if it has one, a     *)
(* DEEPFunction and (enter_frame) a frame from the heap; only the third    *)
(* allocation is tested, with exit(1), any other null pointer is followed. *)
(* read_block runs before the third.                                       *)
(***************************************************************************)
type_void == 64
BlockObjects == IF module.code[Top.ip + 1] = type_void THEN 3 ELSE 4
Room == MaxObjects - objects
HeapFails(found) ==
  \/ Room < BlockObjects - 2 /\ Halt("crash")
  \/ Room >= BlockObjects - 2 /\ ~found /\ Halt("exit")
  \/ Room = BlockObjects - 2 /\ found /\ Halt("exit")
  \/ Room = BlockObjects - 1 /\ found /\ Halt("crash")

ControlFull == Len(control) >= ControlCap

(***************************************************************************)
(* enter_frame: the frame shares the function's local variables and takes  *)
(* the previous function frame of the one it is opened in.  begin..end is  *)
(* the code it runs; sp the operand stack it starts from, written to env   *)
(* before.  Writing past the control stack's last slot is "ctlOverflow".   *)
(***************************************************************************)
EnterFrame(type, kind, begin, end, sp, resume) ==
  LET frame == Frame(type, FrameOf.func, begin, end, Top.sp, FrameOf.prev,
                     envLocals, <<>>, BlockObjects)
  IN  IF ControlFull THEN Halt("ctlOverflow")
      ELSE /\ envSp' = Top.sp
           /\ control' = Append(control, frame)
           /\ curFrame' = Len(control) + 1
           /\ objects' = objects + BlockObjects
           /\ acts' = Append([acts EXCEPT ![Len(acts)].sp = sp],
                             Activation(frame, kind, resume))
           /\ UNCHANGED <<module, stack, jump, envLocals, globals, status>>

Block ==
  /\ At({op_block, op_loop})
  /\ LET end == ReadBlock(module.code, Top.ip + 2)
     IN  IF Room < BlockObjects \/ end = 0 THEN HeapFails(end # 0)
         ELSE IF Op = op_block
         THEN EnterFrame("BLOCK", "block", Top.ip + 2, end, Top.sp, 0)
         ELSE EnterFrame("LOOP", "loop", Top.ip + 2, end, Top.sp, 0)

(***************************************************************************)
(* The first read_block finds the else, or the end of an if without one;   *)
(* the second starts after it.  The condition is popped after the operand  *)
(* stack has been written to env, so the branch starts above it.  The      *)
(* frame's type is the truth value of opcode == IF_FRAME: FUNCTION_FRAME.  *)
(***************************************************************************)
If ==
  /\ At({op_if})
  /\ Top.sp >= 1
  /\ LET middle == ReadBlock(module.code, Top.ip + 2)
         end == IF middle = 0 THEN 0 ELSE ReadBlock(module.code, middle)
     IN  IF Room < BlockObjects \/ end = 0 THEN HeapFails(end # 0)
         ELSE IF Operand(1) # 0
         THEN EnterFrame("FUNCTION", "then", Top.ip + 2, middle, Top.sp - 1, end)
         ELSE EnterFrame("FUNCTION", "else", middle, end, Top.sp - 1, 0)

(***************************************************************************)
(* An activation has returned to enter_frame.  A loop that returned false  *)
(* with no jump left runs again from its frame's operand stack; otherwise  *)
(* the frame goes, and the block's heap blocks with it.                    *)
(***************************************************************************)
Returned(kinds) == status = "run" /\ Top.over # "no" /\ Top.kind \in kinds
BlockKinds == {"block", "loop", "then", "else"}
RepeatsBlocks == Top.over # "natural" /\ jump = 0
RepeatsAtEnd == Top.kind = "loop" /\ jump = 0
Repeats == Top.kind = "loop" /\ Top.over # "natural" /\ jump = 0

Repeat ==
  /\ Returned(BlockKinds)
  /\ Repeats
  /\ acts' = Append(Front(acts), Activation(FrameOf, Top.kind, Top.resume))
  /\ UNCHANGED <<module, stack, envSp, jump, control, curFrame, envLocals, globals,
                 objects, status>>

(* The frame comes off the control stack and what it holds is freed.       *)
PopFrameUnlessJump ==
  /\ control' = IF Top.over = "jump" THEN control ELSE Front(control)
  /\ objects' = objects - Last(control).held
PopFrameKeepsBlocks ==
  /\ control' = Front(control)
  /\ objects' = objects - 1
PopFrameTwice ==
  /\ control' = Front(control)
  /\ objects' = objects - Last(control).held - 1
PopFrame ==
  /\ control' = Front(control)
  /\ objects' = objects - Last(control).held

LeaveBlock ==
  /\ Returned(BlockKinds)
  /\ ~Repeats
  /\ PopFrame
  /\ curFrame' = Len(control) - 1
  /\ acts' = Continue(Front(acts), envSp,
                      IF Top.kind = "then" THEN Top.resume ELSE Last(control).end)
  /\ UNCHANGED <<module, stack, envSp, jump, envLocals, globals, status>>

-----------------------------------------------------------------------------
(***************************************************************************)
(* The built-in functions take their argument off the operand stack and    *)
(* give one word: puts 0 or -1, the others that print 0, a test 0 or 1.    *)
(***************************************************************************)
Native(name) ==
  CASE name = "puts" -> [takes |-> 1, gives |-> {0, W - 1}]
    [] name \in {"puti", "putf"} -> [takes |-> 1, gives |-> {0}]
    [] name \in {"putl", "putd"} -> [takes |-> 2, gives |-> {0}]
    [] name \in {"isinff", "isnanf"} -> [takes |-> 1, gives |-> Booleans]
    [] name \in {"isinfd", "isnand"} -> [takes |-> 2, gives |-> Booleans]
NativeNames == {"puts", "puti", "putf", "putl", "putd", "isinff", "isnanf",
                "isinfd", "isnand"}

(* The import a function index stands for: the first one reached when as   *)
(* many function imports precede it as the index says.  (Whether it is     *)
(* itself a function is not asked.)                                        *)
Candidates(i) ==
  {m \in DOMAIN module.imports :
     Cardinality({k \in 1..m - 1 : module.imports[k].isFunc}) = i}

(* The frame of a built-in is pushed and popped within the step.           *)
CallNative(i, sp, ip) ==
  /\ IF Candidates(i) = {} THEN Halt("exit")
     ELSE LET name == module.imports[Min(Candidates(i))].name
          IN  IF name \notin NativeNames
              THEN /\ envSp' = sp
                   /\ acts' = Continue(acts, sp, ip)
                   /\ UNCHANGED <<stack, status>>
              ELSE \E w \in Native(name).gives :
                     LET base == sp - Native(name).takes
                     IN  /\ base >= 0
                         /\ envSp' = base + 1
                         /\ stack' = Pushed(<<w>>, base)
                         /\ acts' = Continue(acts, base + 1, ip)
                         /\ UNCHANGED status
  /\ envLocals' = Last(control).locals
  /\ UNCHANGED <<module, jump, control, curFrame, globals, objects>>

(***************************************************************************)
(* call_function.  The arguments are copied to the local variables and     *)
(* stay on the operand stack, above which the function starts.  Without a  *)
(* frame the call is skipped; without room for the local variables it goes *)
(* on with a null pointer.                                                 *)
(***************************************************************************)
CallFunction(i, sp, ip) ==
  LET f == Func(i)
      args == [k \in 1..ParamWords(f) |-> stack[sp - ParamWords(f) - 1 + k]]
  IN  /\ sp >= ParamWords(f)
      /\ IF Room = 0
         THEN /\ envSp' = sp
              /\ acts' = Continue(acts, sp, ip)
              /\ UNCHANGED <<module, stack, jump, control, curFrame, envLocals, globals,
                             objects, status>>
         ELSE IF Room = 1 /\ args # <<>> THEN Halt("crash")
         ELSE IF ControlFull THEN Halt("ctlOverflow")
         ELSE IF f.imported THEN CallNative(i, sp, ip)
         ELSE LET values == [k \in 1..LocalWords(f) |->
                               IF k <= Len(args) THEN args[k] ELSE 0]
                  frame == FunctionFrame(i, sp, curFrame, Len(control) + 1,
                                         IF Room = 1 THEN <<>> ELSE values,
                                         IF Room = 1 THEN 1 ELSE FunctionObjects(f))
              IN  /\ envSp' = sp
                  /\ control' = Append(control, frame)
                  /\ curFrame' = Len(control) + 1
                  /\ envLocals' = Len(control) + 1
                  /\ objects' = objects + frame.held
                  /\ acts' = Append([acts EXCEPT ![Len(acts)].sp = sp,
                                                 ![Len(acts)].ip = ip],
                                    Activation(frame, "call", 0))
                  /\ UNCHANGED <<module, stack, jump, globals, status>>

Call == At({op_call}) /\ CallFunction(Imm.value, Top.sp, Imm.next)

(* The element is taken from the table without a look at the type index.   *)
CallIndirect ==
  /\ At({op_call_indirect})
  /\ Top.sp >= 1
  /\ LET n == Operand(1) + 1
     IN  IF n \notin DOMAIN module.table THEN Halt("exit")
         ELSE IF module.table[n] = {} THEN Halt("exit")
         ELSE \E i \in module.table[n] : CallFunction(i, Top.sp - 1, Imm.next + 1)

(***************************************************************************)
(* An activation has returned to call_function: a return's jump ends here, *)
(* and the local variables are again those of the frame now on top.  After *)
(* the start function main runs from its own frame's operand stack.        *)
(***************************************************************************)
LeaveFunctionKeepsLocals ==
  /\ Returned({"call", "start"})
  /\ PopFrame
  /\ jump' = IF jump < 0 THEN 0 ELSE jump
  /\ curFrame' = Last(control).prev
  /\ acts' = IF Top.kind = "start" THEN Front(acts)
             ELSE Continue(Front(acts), envSp, Last(Front(acts)).ip)
  /\ UNCHANGED <<module, stack, envSp, envLocals, globals, status>>
LeaveFunction ==
  /\ Returned({"call", "start"})
  /\ PopFrame
  /\ jump' = IF jump < 0 THEN 0 ELSE jump
  /\ curFrame' = Last(control).prev
  /\ envLocals' = control[Len(control) - 1].locals
  /\ acts' = IF Top.kind = "start" THEN Front(acts)
             ELSE Continue(Front(acts), envSp, Last(Front(acts)).ip)
  /\ UNCHANGED <<module, stack, envSp, globals, status>>

(* call_main frees the main frame and takes the result below envSp.        *)
LeaveMain ==
  /\ Returned({"main"})
  /\ PopFrame
  /\ status' = "done"
  /\ acts' = Front(acts)
  /\ UNCHANGED <<module, stack, envSp, jump, curFrame, envLocals, globals>>

Terminated == status # "run" /\ UNCHANGED vars

Instruction ==
  \/ Compute \/ Arithmetic \/ Const \/ Drop \/ Select \/ Memory \/ Local \/ NoLocals
  \/ Global \/ Exit \/ Br \/ BrIf \/ BrTable \/ Return \/ Block \/ If \/ Call
  \/ CallIndirect

Next ==
  \/ Instruction \/ Unwind \/ FallOff \/ Repeat \/ LeaveBlock \/ LeaveFunction
  \/ LeaveMain \/ Terminated

(* The interpreter is one thread that never waits.                         *)
Spec == Init /\ [][Next]_vars /\ WF_vars(Next)

-----------------------------------------------------------------------------
Frames ==
  [type : {"FUNCTION", "BLOCK", "LOOP"}, func : Nat, begin : Nat, end : Nat,
   sp : 0..StackWords, prev : Nat, locals : Nat, vars : Seq(Words), held : 1..4]
Activations ==
  [ip : Nat, end : Nat, sp : 0..StackWords + 2,
   kind : {"main", "start", "call", "block", "loop", "then", "else"},
   resume : Nat, over : {"no", "natural", "jump", "overflow"}]

TypeOK ==
  /\ ModuleOK(module)
  /\ acts \in Seq(Activations) /\ control \in Seq(Frames)
  /\ stack \in [0..StackWords + 1 -> Words]
  /\ envSp \in 0..StackWords + 2
  /\ jump \in Int
  /\ curFrame \in Nat /\ envLocals \in Nat
  /\ globals \in Seq(Words \X Words)
  /\ objects \in 0..MaxObjects
  /\ status \in {"run", "done", "exit", "crash", "ctlOverflow"}

FunctionKinds == {"main", "start", "call"}
IsFunction(k) == acts[k].kind \in FunctionKinds
Innermost == Max({k \in DOMAIN acts : IsFunction(k)})

(***************************************************************************)
(* The three pointers of the environment agree with the C stack however    *)
(* blocks and calls have been left: env->cur_frame is the frame of the     *)
(* running activation, which is the top of the control stack, and          *)
(* env->local_vars is the storage of the innermost function, restored by   *)
(* call_function from the control stack and not from the frame it had.     *)
(***************************************************************************)
FramesAgree ==
  status = "run" =>
    /\ Len(control) = Len(acts)
    /\ curFrame = Len(control)
    /\ envLocals = Innermost
    /\ \A k \in DOMAIN acts : acts[k].kind = "call" => control[k].prev = k - 1

(***************************************************************************)
(* Every heap block taken for a frame, a block's type or local variables   *)
(* is given back on every way out (end, branch, return, overflow, a call   *)
(* that found no memory): main, which compares the free memory at the end  *)
(* with that at the start, finds no leak.                                  *)
(***************************************************************************)
HeldBy(frames) ==
  LET sum[k \in 0..Len(frames)] == IF k = 0 THEN 0 ELSE sum[k - 1] + frames[k].held
  IN  sum[Len(frames)]
ObjectsAccounted == status \in {"run", "done"} => objects = HeldBy(control)

(* control_stack_free's assertion: back in main only its own frame is left *)
(* (at index 0), whatever jump brought the interpreter there.              *)
ControlStackEmptied == Returned({"main"}) => Len(control) = 1 /\ curFrame = 1

(***************************************************************************)
(* A pending jump ends inside the function that made it: of the            *)
(* activations it still has to leave, none is below the innermost          *)
(* function's.                                                             *)
(***************************************************************************)
Pending == IF Top.over = "jump" THEN jump + 1 ELSE jump
JumpStaysInFunction ==
  status = "run" /\ jump >= 0 => Pending <= Len(acts) - Innermost + 1

(***************************************************************************)
(* A block or a function leaves the operands of those around it as they    *)
(* were: nothing below the operand stack its frame started from is         *)
(* written.                                                                *)
(***************************************************************************)
OuterOperandsKept ==
  [][status = "run" => \A i \in 0..control[Len(acts)].sp - 1 : stack'[i] = stack[i]]_vars

(* The local variables of a function that is waiting for a call are not    *)
(* touched by the callee.                                                  *)
CallersLocalsKept ==
  [][status = "run" =>
       \A k \in 1..Innermost - 1 :
         k \in DOMAIN control' => control'[k].vars = control[k].vars]_vars

(***************************************************************************)
(* A module without loops or recursion comes to an end, however its run    *)
(* fails.  A loop may not: that its body overflows the operand stack is    *)
(* for enter_frame a reason to run it again.                               *)
(***************************************************************************)
HasLoop ==
  \E i \in 1..Len(module.code) - 1 : module.code[i] = op_loop /\ module.code[i + 1] = type_void
AlwaysEnds == HasLoop \/ <>(status # "run")

-----------------------------------------------------------------------------
(* What the documents, comments and tests say that the code does not do.   *)

(***************************************************************************)
(* flow_control.md, item 6: both branches of an if finish at its end.      *)
(***************************************************************************)
IfEndsAtItsEnd ==
  At({op_if}) =>
    ReadBlock(module.code, ReadBlock(module.code, Top.ip + 2))
      = ConstructEnd(module.code, Top.ip)

(***************************************************************************)
(* deep_interp.h: jump_depth is 0 again when a function has been executed. *)
(***************************************************************************)
CallEndsJump == [][Returned({"call"}) => jump' = 0]_vars

-----------------------------------------------------------------------------
(***************************************************************************)
(* The interpreter implements ControlFlow.  An activation is a label; a    *)
(* pending jump is a branch already taken: the activations it will leave   *)
(* are gone and the next instruction is the target's.                      *)
(***************************************************************************)
LabelOf(k) ==
  [kind |-> CASE IsFunction(k) -> "func"
              [] acts[k].kind = "loop" -> "loop"
              [] OTHER -> "block",
   begin |-> control[k].begin,
   end |-> IF acts[k].kind = "then" THEN acts[k].resume ELSE control[k].end,
   ret |-> CASE acts[k].kind = "call" -> acts[k - 1].ip
             [] acts[k].kind = "start" -> control[1].begin
             [] OTHER -> 0]

Jumping == acts # <<>> /\ (jump # 0 \/ Top.over = "jump")
Target == IF jump < 0 THEN Innermost ELSE Len(acts) - Pending + 1
Remaining ==
  IF ~Jumping THEN Len(acts)
  ELSE IF Target \in DOMAIN acts /\ acts[Target].kind = "loop" THEN Target
  ELSE Max({Target - 1, 0})

Labels == [k \in 1..Remaining |-> LabelOf(k)]
Pc ==
  CASE acts = <<>> -> 0
    [] Jumping /\ Target < 1 -> 0
    [] Jumping /\ Target >= 1 ->
         LET label == LabelOf(Target)
         IN  CASE label.kind = "loop" -> label.begin
               [] label.kind = "block" -> label.end
               [] OTHER -> label.ret
    [] acts # <<>> /\ ~Jumping ->
         IF Top.kind = "then" /\ Top.ip = Top.end THEN Top.resume ELSE Top.ip

Structured ==
  INSTANCE ControlFlow WITH pc <- Pc, labels <- Labels,
                            trapped <- status \in {"exit", "crash", "ctlOverflow"}

(***************************************************************************)
(* Unwinding by jump_depth does what structured control flow asks for      *)
(* (flow_control.md, item 5): every branch, return, call and fall through  *)
(* arrives where the nesting of the code says, and nowhere else.           *)
(***************************************************************************)
ImplementsControlFlow == Structured!Spec
=============================================================================
