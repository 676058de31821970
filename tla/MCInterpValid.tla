--------------------------- MODULE MCInterpValid ----------------------------
(* Places for ValidCodeProofs: those that a walk through the code finds.   *)
EXTENDS MCInterp, ValidCodeProofs

LeadsTo(m, q) ==
  LET i == q[1]
      p == q[2]
      d == q[3]
      e == q[4]
      first == ReadBlock(m.code, p + 2)
      second == ReadBlock(m.code, first)
  IN  CASE p >= e -> {}
        [] p < e /\ m.code[p] \notin Openers -> {<<i, InstructionEnd(m.code, p), d, e>>}
        [] p < e /\ m.code[p] \in {op_block, op_loop} ->
             IF first = 0 THEN {} ELSE {<<i, p + 2, d + 1, first>>, <<i, first, d, e>>}
        [] p < e /\ m.code[p] = op_if ->
             IF first = 0 \/ second = 0 THEN {}
             ELSE {<<i, p + 2, d + 1, first>>, <<i, first, d + 1, second>>,
                   <<i, second, d, e>>}

(* The places on the way through the longest body, four instructions a     *)
(* round; an instruction has one byte or more.                             *)
Onwards(m, P) == P \cup UNION {LeadsTo(m, q) : q \in P}
FourOnwards(m, P) == Onwards(m, Onwards(m, Onwards(m, Onwards(m, P))))
Entries(m) ==
  {<<i, m.funcs[i + 1].begin, 0, m.funcs[i + 1].end>> :
     i \in {j \in FunctionsOf(m) : ~m.funcs[j + 1].imported}}
Walk(m) ==
  LET longest == Max({m.funcs[i].end - m.funcs[i].begin : i \in DOMAIN m.funcs})
      walk[n \in 0..longest \div 4 + 1] ==
        IF n = 0 THEN Entries(m) ELSE FourOnwards(m, walk[n - 1])
  IN  walk[longest \div 4 + 1]
=============================================================================
