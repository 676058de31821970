----------------------------- MODULE BlockScan ------------------------------
(***************************************************************************)
(* read_block (deep_interp.c) as the loop it is: one step per instruction  *)
(* it steps over.  The block scanned is any sequence of at most MaxLength  *)
(* of the given Instructions (each with its immediates, as bytes) that     *)
(* opens and closes its constructs properly and whose last instruction     *)
(* closes the block.                                                       *)
(***************************************************************************)
EXTENDS Bytecode, SequencesExt

CONSTANTS Instructions, MaxLength

VARIABLES
  body,     \* the instructions of the block, each a sequence of bytes
  ip,       \* the scan's address in the block's bytes
  net,      \* net_bracket
  verdict   \* "scanning", "found" (ip is past the end) or "unknown" (exit(1))

vars == <<body, ip, net, verdict>>

Code == FlattenSeq(body)

(* How many constructs are open, the block's own included, after the first *)
(* n instructions.                                                         *)
Depth(b, n) ==
  1 + Cardinality({i \in 1..n : b[i][1] \in Openers})
    - Cardinality({i \in 1..n : b[i][1] = op_end})

(* Only the last instruction closes the block: its end or, in the then     *)
(* branch of an if, its else.  An else of an inner construct is met deeper *)
(* (the scan does not ask of which one).                                   *)
WellNested(b) ==
  LET n == Len(b)
  IN  /\ n > 0
      /\ b[n][1] \in {op_end, op_else}
      /\ Depth(b, n - 1) = 1
      /\ \A m \in 1..n - 1 : /\ Depth(b, m) > 0
                             /\ b[m][1] = op_else => Depth(b, m) > 1

Bodies == {b \in UNION {[1..n -> Instructions] : n \in 1..MaxLength} : WellNested(b)}

Init ==
  /\ body \in Bodies
  /\ ip = 1
  /\ net = 1
  /\ verdict = "scanning"

Scanning(ops) ==
  /\ verdict = "scanning"
  /\ ip <= Len(Code)
  /\ Code[ip] \in ops
  /\ body' = body

(* Any instruction that leaves the block open.                             *)
StepOverNotLoads ==
  /\ Scanning(Known)
  /\ ~ScanStops(Code[ip], net)
  /\ ip' = IF Code[ip] \in MemoryAccess THEN ip ELSE ScanNext(Code, ip)
  /\ net' = ScanBracket(Code[ip], net)
  /\ UNCHANGED verdict

StepOver ==
  /\ Scanning(Known)
  /\ ~ScanStops(Code[ip], net)
  /\ ip' = ScanNext(Code, ip)
  /\ net' = ScanBracket(Code[ip], net)
  /\ UNCHANGED verdict

Finish ==
  /\ Scanning({op_end, op_else})
  /\ ScanStops(Code[ip], net)
  /\ ip' = ip + 1
  /\ net' = ScanBracket(Code[ip], net)
  /\ verdict' = "found"

UnknownOpcode ==
  /\ Scanning(Bytes \ Known)
  /\ verdict' = "unknown"
  /\ UNCHANGED <<ip, net>>

Done == verdict # "scanning" /\ UNCHANGED vars

Next == StepOver \/ Finish \/ UnknownOpcode \/ Done

Fairness == WF_vars(Next)

Spec == Init /\ [][Next]_vars /\ Fairness

-----------------------------------------------------------------------------
(* The address after the first n instructions, and the instructions the    *)
(* scan has passed.                                                        *)
Address(b, n) == 1 + Len(FlattenSeq(SubSeq(b, 1, n)))
Passed == {n \in 0..Len(body) : Address(body, n) = ip}

(***************************************************************************)
(* Between two steps the scan is at the start of an instruction, never in  *)
(* the middle of an immediate, and its bracket count is the number of      *)
(* constructs open there: flow_control.md, development note 4, has         *)
(* read_block compute the position where a block begins and ends.          *)
(***************************************************************************)
InStep == \E n \in Passed : net = Depth(body, n)

(***************************************************************************)
(* When the scan stops it is after the block's last instruction: the code  *)
(* that runs after the block is the code that follows it.                  *)
(***************************************************************************)
StopsAtTheEnd == verdict = "found" => ip = Len(Code) + 1

(***************************************************************************)
(* Every scan ends, with an answer or with exit(1): it never runs out of   *)
(* the block looking for its end.                                          *)
(***************************************************************************)
AlwaysAnswers == <>(verdict # "scanning")
=============================================================================
