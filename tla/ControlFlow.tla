---------------------------- MODULE ControlFlow -----------------------------
(***************************************************************************)
(* What flow_control.md (item 5) asks of the control instructions, with    *)
(* the interpreter's machinery left out: a branch finds the label it names *)
(* and goes there in one step, to the start of a loop and to the end of    *)
(* anything else; both branches of an if finish at its end; a function     *)
(* returns to the instruction after its call.  Values are left out too:    *)
(* a condition may go either way, and a table may name any of its labels.  *)
(*                                                                         *)
(* A module is a record: code (the bytes of all its functions), funcs      *)
(* (begin, end and whether imported), table, main and start.               *)
(***************************************************************************)
EXTENDS Bytecode, SequencesExt

VARIABLES
  module,    \* the module that has been loaded; no step changes it
  pc,        \* address of the next instruction; 0 once main has returned
  labels,    \* the constructs and functions entered and not left
  trapped

vars == <<module, pc, labels, trapped>>

Label == [kind : {"func", "block", "loop"}, begin : Nat, end : Nat, ret : Nat]

FuncLabel(i, ret) ==
  LET f == module.funcs[i + 1]
  IN  [kind |-> "func", begin |-> f.begin, end |-> f.end, ret |-> ret]
BlockLabel(kind, begin, end) ==
  [kind |-> kind, begin |-> begin, end |-> end, ret |-> 0]

(* The start function runs first and returns to the first instruction of   *)
(* main.                                                                   *)
Init ==
  /\ trapped = FALSE
  /\ LET main == FuncLabel(module.main, 0)
     IN  IF module.start = {}
         THEN labels = <<main>> /\ pc = main.begin
         ELSE \E s \in module.start :
                /\ labels = <<main, FuncLabel(s, main.begin)>>
                /\ pc = module.funcs[s + 1].begin

Running == ~trapped /\ labels # <<>>
Inside == Running /\ pc < Last(labels).end
At(ops) == Inside /\ module.code[pc] \in ops
Immediate == ReadLeb(module.code, pc + 1).value
After == InstructionEnd(module.code, pc)

(***************************************************************************)
(* The state after leaving for label k: a loop starts again and stays      *)
(* open, anything else is closed.                                          *)
(***************************************************************************)
GoTo(k) ==
  /\ labels' = SubSeq(labels, 1, IF labels[k].kind = "loop" THEN k ELSE k - 1)
  /\ pc' = CASE labels[k].kind = "loop" -> labels[k].begin
             [] labels[k].kind = "block" -> labels[k].end
             [] OTHER -> labels[k].ret
  /\ UNCHANGED <<module, trapped>>

(* Branch n labels out, and never out of the function.                     *)
BranchTo(n) ==
  LET k == Len(labels) - n
  IN  /\ k > 0
      /\ \A j \in k + 1..Len(labels) : labels[j].kind # "func"
      /\ GoTo(k)

Proceed(to) == pc' = to /\ UNCHANGED <<module, labels, trapped>>
Open(label) ==
  /\ labels' = Append(labels, label)
  /\ pc' = label.begin
  /\ UNCHANGED <<module, trapped>>

Control == Openers \cup {op_else, op_br, op_br_if, op_br_table, op_return,
                         op_call, op_call_indirect}

Straight == At(Bytes \ Control) /\ Proceed(After)

Block ==
  /\ At({op_block, op_loop})
  /\ Open(BlockLabel(IF module.code[pc] = op_loop THEN "loop" ELSE "block",
                     pc + 2, ConstructEnd(module.code, pc)))

(* An if without an else and a false condition is stepped over.            *)
If ==
  /\ At({op_if})
  /\ LET end == ConstructEnd(module.code, pc)
         middle == ThenEnd(module.code, pc)
     IN  \/ Open(BlockLabel("block", pc + 2, end))
         \/ HasElse(module.code, pc) /\ Open(BlockLabel("block", middle, end))
         \/ ~HasElse(module.code, pc) /\ Proceed(end)

(* The then branch is over: the else is not executed.                      *)
Else == At({op_else}) /\ Proceed(Last(labels).end)

Br == At({op_br}) /\ BranchTo(Immediate)
BrIf == At({op_br_if}) /\ (BranchTo(Immediate) \/ Proceed(After))
BrTable ==
  /\ At({op_br_table})
  /\ LET count == ReadLeb(module.code, pc + 1)
     IN  \E n \in 0..count.value : BranchTo(module.code[count.next + n])

Return ==
  /\ At({op_return})
  /\ GoTo(Max({j \in DOMAIN labels : labels[j].kind = "func"}))

Invoke(i) ==
  IF module.funcs[i + 1].imported THEN Proceed(After) ELSE Open(FuncLabel(i, After))
Call == At({op_call}) /\ Invoke(Immediate)
CallIndirect ==
  /\ At({op_call_indirect})
  /\ \E n \in DOMAIN module.table : \E i \in module.table[n] : Invoke(i)

(* Past its last instruction a construct is left.                          *)
Leave ==
  /\ Running
  /\ pc = Last(labels).end
  /\ labels' = Front(labels)
  /\ pc' = IF Last(labels).kind = "func" THEN Last(labels).ret ELSE pc
  /\ UNCHANGED <<module, trapped>>

(* exit(1), or the end of the process in some other way.                   *)
Trap == Running /\ trapped' = TRUE /\ UNCHANGED <<module, pc, labels>>

Next ==
  \/ Straight \/ Block \/ If \/ Else \/ Br \/ BrIf \/ BrTable \/ Return
  \/ Call \/ CallIndirect \/ Leave \/ Trap

Spec == Init /\ [][Next]_vars
=============================================================================
