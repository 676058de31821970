------------------------------ MODULE Bytecode ------------------------------
(***************************************************************************)
(* The bytes of a function body as deep_interp.c reads them: opcodes, LEB  *)
(* immediates, and read_block, which looks for the end of a block without  *)
(* executing it.  A body is a sequence of bytes and an address an index of *)
(* it.  read_block knows nothing of nesting but a bracket count, and steps *)
(* over every other instruction with an immediate size of its own; the     *)
(* sizes the interpreter itself uses are Interp's.                         *)
(***************************************************************************)
EXTENDS Naturals, Sequences, FiniteSetsExt

Bytes == 0..255

(* deep_opcode.h: the opcodes that are named on their own.                 *)
op_unreachable == 0
op_nop == 1
op_block == 2
op_loop == 3
op_if == 4
op_else == 5
op_end == 11
op_br == 12
op_br_if == 13
op_br_table == 14
op_return == 15
op_call == 16
op_call_indirect == 17
op_drop == 26
op_select == 27
op_local_get == 32
op_local_set == 33
op_local_tee == 34
op_global_get == 35
op_global_set == 36
memory_size == 63
memory_grow == 64
i32_const == 65
i64_const == 66
f32_const == 67
f64_const == 68

MemoryAccess == 40..62          \* i32_load .. i64_store32
F64Arithmetic == 160..166       \* f64_add .. f64_copysign
Numeric == 69..191              \* i32_eqz .. f64_reinterpret_i64
Openers == {op_block, op_loop, op_if}

(***************************************************************************)
(* read_leb_u32: up to five bytes, seven bits each, the high bit set on    *)
(* all but the last.  With no last byte among the five it returns 0 and    *)
(* leaves the pointer where it was.  Values stay below 2^28 in the bodies  *)
(* modelled.                                                               *)
(***************************************************************************)
Weight == <<1, 128, 16384, 2097152, 268435456>>       \* i * 7 bits to the left

LebValue(code, ip, n) ==
  LET sum[k \in 0..n] ==
        IF k = 0 THEN 0 ELSE sum[k - 1] + (code[ip + k - 1] % 128) * Weight[k]
  IN  sum[n]

ReadLeb(code, ip) ==
  LET last == {n \in 1..5 : ip + n - 1 <= Len(code) /\ code[ip + n - 1] < 128}
      n == Min(last)
  IN  IF last = {} THEN [value |-> 0, next |-> ip]
      ELSE [value |-> LebValue(code, ip, n), next |-> ip + n]

(***************************************************************************)
(* read_block's own table of immediates.  The seven f64 operations are in  *)
(* none of its cases, and a float constant is stepped over as if its raw   *)
(* four or eight bytes were a LEB number.                                  *)
(***************************************************************************)
NoImmediate ==
  {op_unreachable, op_nop, op_return, op_drop, op_select}
    \cup (Numeric \ F64Arithmetic)
OneLeb ==
  {op_call, op_br, op_br_if, memory_size, memory_grow, i32_const, i64_const,
   f32_const, f64_const}
    \cup op_local_get..op_global_set
Known ==
  NoImmediate \cup OneLeb \cup MemoryAccess \cup Openers
    \cup {op_br_table, op_else, op_end, op_call_indirect}

AfterLeb(code, ip) == ReadLeb(code, ip).next

(* A branch table: a count, as many labels of a byte each, the default.    *)
TableEndNoDefault(code, ip) ==
  LET count == ReadLeb(code, ip) IN count.next + count.value
TableEnd(code, ip) ==
  LET count == ReadLeb(code, ip) IN count.next + count.value + 1

ScanNext(code, ip) ==
  LET op == code[ip]
  IN  CASE op \in Openers -> ip + 2
        [] op = op_br_table -> TableEnd(code, ip + 1)
        [] op = op_call_indirect -> AfterLeb(code, ip + 1) + 1
        [] op \in OneLeb -> AfterLeb(code, ip + 1)
        [] op \in MemoryAccess -> AfterLeb(code, AfterLeb(code, ip + 1))
        [] OTHER -> ip + 1

ScanBracketNoIf(op, net) ==
  CASE op \in {op_block, op_loop} -> (net + 1) % 256
    [] op = op_end -> (net + 255) % 256
    [] OTHER -> net
ScanBracket(op, net) ==
  CASE op \in Openers -> (net + 1) % 256
    [] op = op_end -> (net + 255) % 256
    [] OTHER -> net

(* The scan stops after the end that closes the block, or after an else    *)
(* met while only the block itself is open.                                *)
ScanStops(op, net) == net = 1 /\ op \in {op_end, op_else}

(***************************************************************************)
(* read_block from ip: the address after the end or else it stops at; 0    *)
(* for exit(1) on an opcode it does not know, or on leaving the body,      *)
(* which a valid body never makes it do.                                   *)
(***************************************************************************)
ReadBlock(code, ip) ==
  LET scan[q \in (1..Len(code) + 1) \X (0..255)] ==
        IF q[1] > Len(code) \/ code[q[1]] \notin Known THEN 0
        ELSE IF ScanStops(code[q[1]], q[2]) THEN q[1] + 1
        ELSE LET next == ScanNext(code, q[1])
             IN  IF next > Len(code) THEN 0
                 ELSE scan[<<next, ScanBracket(code[q[1]], q[2])>>]
  IN  scan[<<ip, 1>>]

-----------------------------------------------------------------------------
(***************************************************************************)
(* The reference: instruction boundaries and nesting as the binary format  *)
(* defines them.  A float constant has a raw immediate of 4 or 8 bytes,    *)
(* and a construct ends where the last of its nested constructs has ended. *)
(***************************************************************************)
InstructionEnd(code, ip) ==
  CASE code[ip] = f32_const -> ip + 5
    [] code[ip] = f64_const -> ip + 9
    [] OTHER -> ScanNext(code, ip)

(* Past a whole instruction, its nested body included.  With closing set,  *)
(* past the end that closes the construct whose body ip lies in; with      *)
(* middle set too, past its else if it has one.  Ends says where each      *)
(* instruction ends without the body.                                      *)
PastAll(code, ends) ==
  LET past[q \in (1..Len(code) + 1) \X {"one", "closing", "middle"}] ==
        IF q[1] > Len(code) THEN q[1]
        ELSE LET op == code[q[1]]
                 after == IF op \in Openers THEN past[<<q[1] + 2, "closing">>]
                          ELSE ends[q[1]]
                 closes == \/ q[2] # "one" /\ op = op_end
                           \/ q[2] = "middle" /\ op = op_else
             IN  IF closes THEN q[1] + 1
                 ELSE IF q[2] = "one" THEN after
                 ELSE past[<<after, q[2]>>]
  IN  past
Past(code) == PastAll(code, [ip \in 1..Len(code) |-> InstructionEnd(code, ip)])

ConstructEnd(code, ip) == Past(code)[<<ip, "one">>]
ThenEnd(code, ip) == Past(code)[<<ip + 2, "middle">>]
HasElse(code, ip) == code[ThenEnd(code, ip) - 1] = op_else
=============================================================================
