---------------------------- MODULE InterpProofs ----------------------------
(***************************************************************************)
(* The discipline of frames and activations, for every module: whatever    *)
(* code the interpreter runs (valid or not), however blocks and calls are  *)
(* left and whatever allocation fails.                                     *)
(***************************************************************************)
EXTENDS Interp, Foundations

-----------------------------------------------------------------------------
(* The C stack is a sequence of activations.                               *)
IsActivation(a) ==
  a = [ip |-> a.ip, end |-> a.end, sp |-> a.sp, kind |-> a.kind, resume |-> a.resume,
       over |-> a.over]
IsStack(st) == IsSeq(st) /\ \A k \in 1..Len(st) : IsActivation(st[k])
SameKinds(st, bs) ==
  IsStack(bs) /\ Len(bs) = Len(st) /\ \A k \in 1..Len(st) : bs[k].kind = st[k].kind

(* An activation that goes on, or returns, is still the same kind of one.  *)
LEMMA ReplacedTop ==
  ASSUME NEW st, IsStack(st), Len(st) > 0,
         NEW a, IsActivation(a), a.kind = st[Len(st)].kind
  PROVE  /\ SameKinds(st, [st EXCEPT ![Len(st)] = a])
         /\ SameKinds(st, Append(Front(st), a))
<1> DEFINE bs == [st EXCEPT ![Len(st)] = a]
           cs == Append(Front(st), a)
<1>1. IsSeq(st) /\ Len(st) \in Nat /\ Len(st) \in 1..Len(st)
  BY Shape DEF IsStack
<1>2. /\ IsSeq(bs) /\ Len(bs) = Len(st) /\ bs[Len(st)] = a
      /\ \A k \in 1..Len(st) : k # Len(st) => bs[k] = st[k]
  BY <1>1, ExceptFacts
<1>3. /\ IsSeq(Front(st)) /\ Len(Front(st)) = Len(st) - 1
      /\ \A k \in 1..Len(st) - 1 : Front(st)[k] = st[k]
  <2>1. 1 \in 1..Len(st) + 1 /\ Len(st) - 1 \in 1 - 1..Len(st)
    BY <1>1
  <2>2. /\ IsSeq(Front(st)) /\ Len(Front(st)) = Len(st) - 1 - 1 + 1
        /\ \A k \in 1..Len(st) - 1 - 1 + 1 : Front(st)[k] = st[1 + k - 1]
    BY <1>1, <2>1, SubSeqFacts DEF Front
  <2>3. QED BY <1>1, <2>2
<1>4. /\ IsSeq(cs) /\ Len(cs) = Len(st) /\ cs[Len(st)] = a
      /\ \A k \in 1..Len(st) - 1 : cs[k] = st[k]
  <2>1. /\ IsSeq(cs) /\ Len(cs) = Len(Front(st)) + 1 /\ cs[Len(Front(st)) + 1] = a
        /\ \A k \in 1..Len(Front(st)) : cs[k] = Front(st)[k]
    BY <1>3, AppendFacts
  <2>2. QED BY <1>1, <1>3, <2>1
<1> HIDE DEF bs, cs
<1>5. IsStack(bs) /\ IsStack(cs)
  BY <1>1, <1>2, <1>4 DEF IsStack
<1>6. SameKinds(st, bs) /\ SameKinds(st, cs)
  BY <1>1, <1>2, <1>4, <1>5 DEF SameKinds
<1>7. QED BY <1>6 DEF bs, cs

(* What an activation becomes when it goes on, returns or waits.           *)
WithIp(a, ip) == [a EXCEPT !.ip = ip]
WithSp(a, sp) == [a EXCEPT !.sp = sp]
WithOver(a, over) == [a EXCEPT !.over = over]
LEMMA Updated ==
  ASSUME NEW a, IsActivation(a), NEW w
  PROVE  /\ IsActivation(WithIp(a, w)) /\ WithIp(a, w).kind = a.kind
         /\ IsActivation(WithSp(a, w)) /\ WithSp(a, w).kind = a.kind
         /\ IsActivation(WithOver(a, w)) /\ WithOver(a, w).kind = a.kind
<1>1. PICK v1, v2, v3, v4, v5, v6 :
        a = [ip |-> v1, end |-> v2, sp |-> v3, kind |-> v4, resume |-> v5, over |-> v6]
  BY Zenon DEF IsActivation
<1>2. WithIp(a, w)
        = [ip |-> w, end |-> v2, sp |-> v3, kind |-> v4, resume |-> v5, over |-> v6]
  BY <1>1 DEF WithIp
<1>3. WithSp(a, w)
        = [ip |-> v1, end |-> v2, sp |-> w, kind |-> v4, resume |-> v5, over |-> v6]
  BY <1>1 DEF WithSp
<1>4. WithOver(a, w)
        = [ip |-> v1, end |-> v2, sp |-> v3, kind |-> v4, resume |-> v5, over |-> w]
  BY <1>1 DEF WithOver
<1>5. \A w1, w2, w3, w4, w5, w6 :
        IsActivation([ip |-> w1, end |-> w2, sp |-> w3, kind |-> w4, resume |-> w5,
                      over |-> w6])
  BY DEF IsActivation
<1>6. QED BY <1>1, <1>2, <1>3, <1>4, <1>5

(* The three ways the code writes an activation back.                      *)
LEMMA WrittenBack ==
  ASSUME NEW st, IsStack(st), Len(st) > 0, NEW sp, NEW ip, NEW how
  PROVE  /\ SameKinds(st, Continue(st, sp, ip))
         /\ SameKinds(st, [st EXCEPT ![Len(st)].over = how])
         /\ SameKinds(st, [st EXCEPT ![Len(st)].sp = sp])
         /\ SameKinds(st, [st EXCEPT ![Len(st)].sp = sp, ![Len(st)].ip = ip])
<1> DEFINE t == st[Len(st)]
           a == WithOver(WithSp(WithIp(t, ip), sp), IF sp > StackWords THEN "overflow" ELSE "no")
           b == WithOver(t, how)
           c == WithSp(t, sp)
           d == WithIp(WithSp(t, sp), ip)
<1>1. Len(st) \in 1..Len(st) /\ Len(st) \in DOMAIN st
  BY Shape DEF IsStack
<1>2. IsActivation(t)
  BY <1>1 DEF IsStack
<1>3. IsActivation(a) /\ a.kind = t.kind
  BY <1>2, Updated
<1>4. IsActivation(b) /\ b.kind = t.kind
  BY <1>2, Updated
<1>5. IsActivation(c) /\ c.kind = t.kind
  BY <1>2, Updated
<1>6. IsActivation(d) /\ d.kind = t.kind
  BY <1>2, Updated
<1>7. Continue(st, sp, ip) = Append(Front(st), a)
  BY DEF Continue, Last, WithIp, WithSp, WithOver
<1>8. [st EXCEPT ![Len(st)].over = how] = [st EXCEPT ![Len(st)] = b]
  BY DEF WithOver
<1>9. [st EXCEPT ![Len(st)].sp = sp] = [st EXCEPT ![Len(st)] = c]
  BY DEF WithSp
<1>10. [st EXCEPT ![Len(st)].sp = sp, ![Len(st)].ip = ip] = [st EXCEPT ![Len(st)] = d]
  BY <1>1 DEF WithIp, WithSp
<1> HIDE DEF a, b, c, d
<1>11. SameKinds(st, Continue(st, sp, ip))
  BY <1>3, <1>7, ReplacedTop
<1>12. SameKinds(st, [st EXCEPT ![Len(st)].over = how])
  BY <1>4, <1>8, ReplacedTop
<1>13. SameKinds(st, [st EXCEPT ![Len(st)].sp = sp])
  BY <1>5, <1>9, ReplacedTop
<1>14. SameKinds(st, [st EXCEPT ![Len(st)].sp = sp, ![Len(st)].ip = ip])
  BY <1>6, <1>10, ReplacedTop
<1>15. QED BY <1>11, <1>12, <1>13, <1>14

(* The control stack is a sequence of frames.                              *)
IsFrame(f) ==
  /\ f = [type |-> f.type, func |-> f.func, begin |-> f.begin, end |-> f.end, sp |-> f.sp,
           prev |-> f.prev, locals |-> f.locals, vars |-> f.vars, held |-> f.held]
  /\ f.held \in Nat
IsControl(fs) == IsSeq(fs) /\ \A k \in 1..Len(fs) : IsFrame(fs[k])

LEMMA ReplacedFrame ==
  ASSUME NEW fs, IsControl(fs), NEW n \in 1..Len(fs), NEW g, IsFrame(g)
  PROVE  /\ IsControl([fs EXCEPT ![n] = g]) /\ Len([fs EXCEPT ![n] = g]) = Len(fs)
         /\ [fs EXCEPT ![n] = g][n] = g
         /\ \A k \in 1..Len(fs) : k # n => [fs EXCEPT ![n] = g][k] = fs[k]
<1> DEFINE hs == [fs EXCEPT ![n] = g]
<1>1. IsSeq(fs)
  BY DEF IsControl
<1>2. /\ IsSeq(hs) /\ Len(hs) = Len(fs) /\ hs[n] = g
      /\ \A k \in 1..Len(fs) : k # n => hs[k] = fs[k]
  BY <1>1, ExceptFacts
<1> HIDE DEF hs
<1>3. IsControl(hs)
  BY <1>2 DEF IsControl
<1>4. QED BY <1>2, <1>3 DEF hs

WithVars(f, v) == [f EXCEPT !.vars = v]
LEMMA Revalued ==
  ASSUME NEW f, IsFrame(f), NEW v
  PROVE  /\ IsFrame(WithVars(f, v)) /\ WithVars(f, v).locals = f.locals
         /\ WithVars(f, v).prev = f.prev /\ WithVars(f, v).held = f.held
<1>1. PICK v1, v2, v3, v4, v5, v6, v7, v8, v9 :
        f = [type |-> v1, func |-> v2, begin |-> v3, end |-> v4, sp |-> v5,
             prev |-> v6, locals |-> v7, vars |-> v8, held |-> v9]
  BY Zenon DEF IsFrame
<1>2. WithVars(f, v) = [type |-> v1, func |-> v2, begin |-> v3, end |-> v4, sp |-> v5,
                        prev |-> v6, locals |-> v7, vars |-> v, held |-> v9]
  BY <1>1 DEF WithVars
<1>3. v9 \in Nat
  BY <1>1 DEF IsFrame
<1>4. QED BY <1>1, <1>2, <1>3 DEF IsFrame

LEMMA StoredLocal ==
  ASSUME NEW fs, IsControl(fs), NEW n \in 1..Len(fs), NEW v
  PROVE  LET gs == [fs EXCEPT ![n].vars = v]
         IN  /\ IsControl(gs) /\ Len(gs) = Len(fs)
             /\ \A k \in 1..Len(fs) : k # n => gs[k] = fs[k]
             /\ \A k \in 1..Len(fs) : /\ gs[k].locals = fs[k].locals
                                       /\ gs[k].prev = fs[k].prev
                                       /\ gs[k].held = fs[k].held
<1> DEFINE g == WithVars(fs[n], v)
           hs == [fs EXCEPT ![n] = g]
<1>1. [fs EXCEPT ![n].vars = v] = hs
  BY DEF WithVars
<1>2. IsFrame(fs[n])
  BY DEF IsControl
<1>3. IsFrame(g) /\ g.locals = fs[n].locals /\ g.prev = fs[n].prev /\ g.held = fs[n].held
  BY <1>2, Revalued
<1> HIDE DEF g
<1>4. /\ IsControl(hs) /\ Len(hs) = Len(fs) /\ hs[n] = g
      /\ \A k \in 1..Len(fs) : k # n => hs[k] = fs[k]
  BY <1>3, ReplacedFrame
<1> HIDE DEF hs
<1>5. \A k \in 1..Len(fs) : /\ hs[k].locals = fs[k].locals /\ hs[k].prev = fs[k].prev
                            /\ hs[k].held = fs[k].held
  BY <1>3, <1>4
<1>6. QED BY <1>1, <1>4, <1>5

(* What Front and Append leave in place.                                   *)
LEMMA FrontFacts ==
  ASSUME NEW s, IsSeq(s), Len(s) > 0
  PROVE  /\ IsSeq(Front(s)) /\ Len(Front(s)) = Len(s) - 1
         /\ \A k \in 1..Len(s) - 1 : Front(s)[k] = s[k]
<1>1. Len(s) \in Nat /\ 1 \in 1..Len(s) + 1 /\ Len(s) - 1 \in 1 - 1..Len(s)
  BY Shape
<1>2. /\ IsSeq(Front(s)) /\ Len(Front(s)) = Len(s) - 1 - 1 + 1
      /\ \A k \in 1..Len(s) - 1 - 1 + 1 : Front(s)[k] = s[1 + k - 1]
  BY <1>1, SubSeqFacts DEF Front
<1>3. QED BY <1>1, <1>2

-----------------------------------------------------------------------------
(***************************************************************************)
(* The invariant of a run.  A frame's local variables are those of the     *)
(* innermost function at its depth, a function's frame names the one below *)
(* it as its predecessor, and main and the start function are at the       *)
(* bottom.                                                                 *)
(***************************************************************************)
Owner(j, k) ==
  /\ j \in 1..k /\ acts[j].kind \in FunctionKinds
  /\ \A i \in j + 1..k : acts[i].kind \notin FunctionKinds
RunInv ==
  /\ IsStack(acts) /\ IsControl(control)
  /\ Len(acts) > 0 /\ Len(control) = Len(acts) /\ curFrame = Len(control)
  /\ envLocals = control[Len(control)].locals
  /\ \A k \in 1..Len(acts) : Owner(control[k].locals, k)
  /\ acts[1].kind = "main"
  /\ \A k \in 2..Len(acts) :
       /\ acts[k].kind # "main" /\ (acts[k].kind = "start" => k = 2)
       /\ acts[k].kind \in {"call", "start"} => control[k].prev = k - 1
FInv == status = "run" => RunInv

LEMMA Sizes ==
  ASSUME RunInv
  PROVE  /\ Len(acts) \in Nat /\ Len(acts) \in 1..Len(acts) /\ 1 \in 1..Len(acts)
         /\ DOMAIN acts = 1..Len(acts) /\ DOMAIN control = 1..Len(acts)
         /\ Len(control) \in Nat /\ Len(control) \in 1..Len(control)
         /\ envLocals \in 1..Len(control)
<1>1. Len(acts) \in Nat /\ DOMAIN acts = 1..Len(acts) /\ DOMAIN control = 1..Len(control)
  BY Shape DEF RunInv, IsStack, IsControl
<1>2. QED BY <1>1 DEF RunInv, Owner

LEMMA OwnerUnique ==
  ASSUME NEW k \in Nat, NEW i, NEW j, Owner(i, k), Owner(j, k)
  PROVE  i = j
BY DEF Owner

(* The kinds of steps: an instruction or a repeated loop, a block or a     *)
(* call, the way out of one, the end of main, and everything that stops    *)
(* the program.                                                            *)
Stays ==
  /\ SameKinds(acts, acts') /\ IsControl(control') /\ Len(control') = Len(control)
  /\ \A k \in 1..Len(control) : k # envLocals => control'[k] = control[k]
  /\ \A k \in 1..Len(control) : /\ control'[k].locals = control[k].locals
                                 /\ control'[k].prev = control[k].prev
                                 /\ control'[k].held = control[k].held
  /\ UNCHANGED <<curFrame, envLocals, objects, status>>
Opens(st, a, f) ==
  /\ SameKinds(acts, st) /\ acts' = Append(st, a) /\ IsActivation(a)
  /\ control' = Append(control, f) /\ IsFrame(f)
  /\ curFrame' = Len(control) + 1 /\ envLocals' = f.locals
  /\ objects' = objects + f.held
  /\ \/ a.kind \in BlockKinds /\ f.locals = envLocals
     \/ a.kind = "call" /\ f.locals = Len(control) + 1 /\ f.prev = Len(control)
  /\ UNCHANGED status
Closes ==
  /\ Len(acts) > 1 /\ SameKinds(Front(acts), acts')
  /\ control' = Front(control) /\ objects' = objects - control[Len(control)].held
  /\ curFrame' = Len(control) - 1 /\ envLocals' = control[Len(control) - 1].locals
  /\ UNCHANGED status
Ends ==
  /\ Len(control) = 1 /\ control' = Front(control)
  /\ objects' = objects - control[Len(control)].held
  /\ status' = "done"
Stops == status' \notin {"run", "done"} /\ UNCHANGED control
StepKind == Stays \/ (\E st, a, f : Opens(st, a, f)) \/ Closes \/ Ends \/ Stops

LEMMA HaltStops == ASSUME NEW how, how \notin {"run", "done"}, Halt(how) PROVE Stops
BY DEF Halt, Stops

LEMMA GoesOn ==
  ASSUME RunInv, SameKinds(acts, acts'), UNCHANGED <<control, curFrame, envLocals, objects, status>>
  PROVE  Stays
BY Sizes DEF Stays, RunInv

LEMMA ContinueStays ==
  ASSUME RunInv, NEW sp, NEW ip, acts' = Continue(acts, sp, ip),
         UNCHANGED <<control, curFrame, envLocals, objects, status>>
  PROVE  Stays
<1>1. SameKinds(acts, acts')
  BY WrittenBack DEF RunInv
<1>2. QED BY <1>1, GoesOn

-----------------------------------------------------------------------------
(* Every action is a step of one of these kinds.                           *)
LEMMA ReplaceStays ==
  ASSUME RunInv, NEW pops, NEW words, NEW ip, Replace(pops, words, ip), UNCHANGED control
  PROVE  Stays
<1>1. acts' = Continue(acts, Top.sp - pops + Len(words), ip)
  BY DEF Replace
<1>2. UNCHANGED <<control, curFrame, envLocals, objects, status>>
  BY DEF Replace
<1>3. QED BY <1>1, <1>2, ContinueStays

LEMMA ReplaceStores ==
  ASSUME RunInv, NEW pops, NEW words, NEW ip, Replace(pops, words, ip),
         NEW i, StoreLocal(i)
  PROVE  Stays
<1> DEFINE v == [k \in DOMAIN control[envLocals].vars |->
                   IF k \in Offset(i) + 1..Offset(i + 1)
                   THEN Popped(Width(i))[k - Offset(i)]
                   ELSE control[envLocals].vars[k]]
           gs == [control EXCEPT ![envLocals].vars = v]
<1>1. control' = gs
  BY DEF StoreLocal
<1>2. SameKinds(acts, acts')
  <2>1. acts' = Continue(acts, Top.sp - pops + Len(words), ip)
    BY DEF Replace
  <2>2. QED BY <2>1, WrittenBack DEF RunInv
<1> HIDE DEF v
<1>3. /\ IsControl(gs) /\ Len(gs) = Len(control)
      /\ \A k \in 1..Len(control) : k # envLocals => gs[k] = control[k]
      /\ \A k \in 1..Len(control) : /\ gs[k].locals = control[k].locals
                                      /\ gs[k].prev = control[k].prev
                                      /\ gs[k].held = control[k].held
  <2>1. IsControl(control) /\ envLocals \in 1..Len(control)
    BY Sizes DEF RunInv
  <2>2. QED BY <2>1, StoredLocal
<1> HIDE DEF gs
<1>4. UNCHANGED <<curFrame, envLocals, objects, status>>
  BY DEF Replace
<1>5. QED BY <1>1, <1>2, <1>3, <1>4 DEF Stays

LEMMA BranchStays ==
  ASSUME RunInv, NEW depth, NEW pops, NEW ip, Branch(depth, pops, ip)
  PROVE  Stays
<1>1. /\ acts' = Continue(acts, Top.sp - pops, ip)
      /\ UNCHANGED <<control, curFrame, envLocals, objects, status>>
  BY DEF Branch
<1>2. QED BY <1>1, ContinueStays

LEMMA ReturnStays == ASSUME RunInv, NEW how, ReturnFrom(how) PROVE Stays
<1>1. /\ acts' = [acts EXCEPT ![Len(acts)].over = how]
      /\ UNCHANGED <<control, curFrame, envLocals, objects, status>>
  BY DEF ReturnFrom
<1>2. SameKinds(acts, acts')
  BY <1>1, WrittenBack DEF RunInv
<1>3. QED BY <1>1, <1>2, GoesOn

LEMMA HeapFailsStops == ASSUME NEW found, HeapFails(found) PROVE Stops
<1>1. Halt("crash") => Stops
  BY HaltStops
<1>2. Halt("exit") => Stops
  BY HaltStops
<1>3. QED BY <1>1, <1>2 DEF HeapFails

LEMMA EnterFrameKind ==
  ASSUME RunInv, NEW type, NEW kind \in BlockKinds, NEW begin, NEW end, NEW sp, NEW resume,
         EnterFrame(type, kind, begin, end, sp, resume)
  PROVE  StepKind
<1> DEFINE f == Frame(type, FrameOf.func, begin, end, Top.sp, FrameOf.prev, envLocals,
                      <<>>, BlockObjects)
           a == Activation(f, kind, resume)
           st == [acts EXCEPT ![Len(acts)].sp = sp]
<1>1. CASE ControlFull
  <2>1. Halt("ctlOverflow")
    BY <1>1 DEF EnterFrame
  <2>2. QED BY <2>1, HaltStops DEF StepKind
<1>2. CASE ~ControlFull
  <2>1. /\ control' = Append(control, f) /\ acts' = Append(st, a)
        /\ curFrame' = Len(control) + 1 /\ objects' = objects + BlockObjects
        /\ UNCHANGED <<envLocals, status>>
    BY <1>2, Zenon DEF EnterFrame
  <2>2. SameKinds(acts, st)
    BY WrittenBack DEF RunInv
  <2>3. BlockObjects \in Nat
    BY DEF BlockObjects
  <2>4. IsFrame(f) /\ f.held = BlockObjects /\ f.locals = envLocals
    BY <2>3 DEF IsFrame, Frame
  <2>5. IsActivation(a) /\ a.kind = kind
    BY DEF IsActivation, Activation
  <2> HIDE DEF f, a, st
  <2>6. Opens(st, a, f)
    BY <2>1, <2>2, <2>4, <2>5 DEF Opens
  <2>7. QED BY <2>6, Zenon DEF StepKind
<1>3. QED BY <1>1, <1>2

LEMMA CallNativeKind ==
  ASSUME RunInv, NEW i, NEW sp, NEW ip, CallNative(i, sp, ip)
  PROVE  StepKind
<1>1. UNCHANGED <<control, curFrame, envLocals, objects>>
  <2>1. envLocals' = Last(control).locals /\ UNCHANGED <<control, curFrame, objects>>
    BY DEF CallNative
  <2>2. QED BY <2>1 DEF RunInv, Last
<1>2. CASE Candidates(i) = {}
  <2>1. Halt("exit")
    BY <1>2 DEF CallNative
  <2>2. QED BY <2>1, HaltStops DEF StepKind
<1>3. CASE Candidates(i) # {}
  <2> DEFINE name == module.imports[Min(Candidates(i))].name
  <2>1. CASE name \notin NativeNames
    <3>1. acts' = Continue(acts, sp, ip) /\ UNCHANGED status
      BY <1>3, <2>1 DEF CallNative
    <3>2. QED BY <1>1, <3>1, ContinueStays DEF StepKind
  <2>2. CASE name \in NativeNames
    <3>1. acts' = Continue(acts, sp - Native(name).takes + 1, ip) /\ UNCHANGED status
      BY <1>3, <2>2, Zenon DEF CallNative
    <3>2. QED BY <1>1, <3>1, ContinueStays DEF StepKind
  <2>3. QED BY <2>1, <2>2
<1>4. QED BY <1>2, <1>3

LEMMA CallFunctionKind ==
  ASSUME RunInv, NEW i, NEW sp, NEW ip, CallFunction(i, sp, ip)
  PROVE  StepKind
<1> DEFINE args == [k \in 1..ParamWords(Func(i)) |-> stack[sp - ParamWords(Func(i)) - 1 + k]]
           values == [k \in 1..LocalWords(Func(i)) |-> IF k <= Len(args) THEN args[k] ELSE 0]
           f == FunctionFrame(i, sp, curFrame, Len(control) + 1,
                              IF Room = 1 THEN <<>> ELSE values,
                              IF Room = 1 THEN 1 ELSE FunctionObjects(Func(i)))
           a == Activation(f, "call", 0)
           st == [acts EXCEPT ![Len(acts)].sp = sp, ![Len(acts)].ip = ip]
<1>1. CASE Room = 0
  <2>1. /\ acts' = Continue(acts, sp, ip)
        /\ UNCHANGED <<control, curFrame, envLocals, objects, status>>
    BY <1>1, Zenon DEF CallFunction
  <2>2. QED BY <2>1, ContinueStays DEF StepKind
<1>2. CASE Room # 0 /\ Room = 1 /\ args # <<>>
  <2>1. Halt("crash")
    BY <1>2, Zenon DEF CallFunction
  <2>2. QED BY <2>1, HaltStops DEF StepKind
<1>3. CASE Room # 0 /\ ~(Room = 1 /\ args # <<>>) /\ ControlFull
  <2>1. Halt("ctlOverflow")
    BY <1>3, Zenon DEF CallFunction
  <2>2. QED BY <2>1, HaltStops DEF StepKind
<1>4. CASE Room # 0 /\ ~(Room = 1 /\ args # <<>>) /\ ~ControlFull /\ Func(i).imported
  <2>1. CallNative(i, sp, ip)
    BY <1>4, Zenon DEF CallFunction
  <2>2. QED BY <2>1, CallNativeKind
<1>5. CASE Room # 0 /\ ~(Room = 1 /\ args # <<>>) /\ ~ControlFull /\ ~Func(i).imported
  <2>1. /\ control' = Append(control, f) /\ acts' = Append(st, a)
        /\ curFrame' = Len(control) + 1 /\ envLocals' = Len(control) + 1
        /\ objects' = objects + f.held
        /\ UNCHANGED status
    BY <1>5, Zenon DEF CallFunction
  <2>2. SameKinds(acts, st)
    BY WrittenBack DEF RunInv
  <2> HIDE DEF values
  <2>3. IsFrame(f) /\ f.locals = Len(control) + 1 /\ f.prev = curFrame
    BY DEF IsFrame, Frame, FunctionFrame, FunctionObjects
  <2>4. IsActivation(a) /\ a.kind = "call"
    BY DEF IsActivation, Activation
  <2> HIDE DEF f, a, st
  <2>5. curFrame = Len(control)
    BY DEF RunInv
  <2>6. Opens(st, a, f)
    BY <2>1, <2>2, <2>3, <2>4, <2>5 DEF Opens
  <2>7. QED BY <2>6, Zenon DEF StepKind
<1>6. QED BY <1>1, <1>2, <1>3, <1>4, <1>5

LEMMA InstructionKind == ASSUME RunInv, Instruction PROVE StepKind
<1>1. CASE Compute
  <2>1. PICK f \in Families :
          /\ \E words \in [1..f.gives -> f.values] : Replace(f.takes, words, AfterOperator)
          /\ Elsewhere
    BY <1>1, Zenon DEF Compute
  <2>2. PICK words : Replace(f.takes, words, AfterOperator)
    BY <2>1, Zenon
  <2>3. UNCHANGED control
    BY <2>1 DEF Elsewhere
  <2>4. QED BY <2>2, <2>3, ReplaceStays DEF StepKind
<1>2. CASE Arithmetic \/ NoLocals \/ Exit
  <2>1. Halt("exit") \/ Halt("crash")
    BY <1>2, Zenon DEF Arithmetic, NoLocals, Exit
  <2>2. QED BY <2>1, HaltStops DEF StepKind
<1>3. CASE Const
  <2>1. /\ \E words, ip : Replace(0, words, ip)
        /\ Elsewhere
    BY <1>3, Zenon DEF Const
  <2>2. PICK words, ip : Replace(0, words, ip)
    BY <2>1
  <2>3. QED BY <2>1, <2>2, ReplaceStays DEF StepKind, Elsewhere
<1>4. CASE Drop
  <2>1. Replace(1, <<>>, Top.ip + 1) /\ Elsewhere
    BY <1>4 DEF Drop
  <2>2. QED BY <2>1, ReplaceStays DEF StepKind, Elsewhere
<1>5. CASE Select
  <2>1. /\ \E words : Replace(3, words, Top.ip + 1)
        /\ Elsewhere
    BY <1>5, Zenon DEF Select
  <2>2. QED BY <2>1, ReplaceStays DEF StepKind, Elsewhere
<1>6. CASE Memory
  <2>1. /\ \E n, words : Replace(n, words, Imm.next)
        /\ Elsewhere
    BY <1>6, Zenon DEF Memory
  <2>2. QED BY <2>1, ReplaceStays DEF StepKind, Elsewhere
<1>7. CASE Local
  <2>1. CASE \E words : Replace(0, words, Imm.next) /\ UNCHANGED control
    BY <2>1, ReplaceStays DEF StepKind
  <2>2. CASE \E n : Replace(n, <<>>, Imm.next) /\ StoreLocal(Imm.value)
    BY <2>2, ReplaceStores DEF StepKind
  <2>3. QED BY <1>7, <2>1, <2>2, Zenon DEF Local
<1>8. CASE Global
  <2>1. /\ \E n, words : Replace(n, words, Imm.next)
        /\ UNCHANGED control
    BY <1>8, Zenon DEF Global
  <2>2. QED BY <2>1, ReplaceStays DEF StepKind
<1>9. CASE Br \/ BrIf \/ BrTable \/ Return
  <2>1. \E depth, pops, ip : Branch(depth, pops, ip)
    BY <1>9, Zenon DEF Br, BrIf, BrTable, Return
  <2>2. QED BY <2>1, BranchStays DEF StepKind
<1>10. CASE Block
  <2>1. CASE \E found : HeapFails(found)
    BY <2>1, HeapFailsStops DEF StepKind
  <2>2. CASE \E kind \in {"block", "loop"} :
               \E type, begin, end, sp : EnterFrame(type, kind, begin, end, sp, 0)
    <3>1. {"block", "loop"} \subseteq BlockKinds
      BY DEF BlockKinds
    <3>2. QED BY <2>2, <3>1, EnterFrameKind
  <2>3. QED BY <1>10, <2>1, <2>2, Zenon DEF Block
<1>11. CASE If
  <2>1. CASE \E found : HeapFails(found)
    BY <2>1, HeapFailsStops DEF StepKind
  <2>2. CASE \E kind \in {"then", "else"} :
               \E type, begin, end, sp, resume : EnterFrame(type, kind, begin, end, sp, resume)
    <3>1. {"then", "else"} \subseteq BlockKinds
      BY DEF BlockKinds
    <3>2. QED BY <2>2, <3>1, EnterFrameKind
  <2>3. QED BY <1>11, <2>1, <2>2, Zenon DEF If
<1>12. CASE Call \/ CallIndirect
  <2>1. Halt("exit") \/ \E i, sp, ip : CallFunction(i, sp, ip)
    BY <1>12, Zenon DEF Call, CallIndirect
  <2>2. CASE Halt("exit")
    BY <2>2, HaltStops DEF StepKind
  <2>3. QED BY <2>1, <2>2, CallFunctionKind
<1>13. QED
  BY <1>1, <1>2, <1>3, <1>4, <1>5, <1>6, <1>7, <1>8, <1>9, <1>10, <1>11, <1>12
  DEF Instruction

LEMMA RepeatKind == ASSUME RunInv, Repeat PROVE Stays
<1> DEFINE a == Activation(FrameOf, Top.kind, Top.resume)
<1>1. /\ acts' = Append(Front(acts), a)
      /\ UNCHANGED <<control, curFrame, envLocals, objects, status>>
  BY DEF Repeat
<1>2. IsActivation(a) /\ a.kind = acts[Len(acts)].kind
  BY DEF IsActivation, Activation, Top, Last
<1> HIDE DEF a
<1>3. IsStack(acts) /\ Len(acts) > 0
  BY DEF RunInv
<1>4. SameKinds(acts, acts')
  BY <1>1, <1>2, <1>3, ReplacedTop
<1>5. QED BY <1>1, <1>4, GoesOn

(* The way out of a block or a function goes back to one activation less.  *)
LEMMA FrontStack ==
  ASSUME RunInv, Len(acts) > 1
  PROVE  /\ IsStack(Front(acts)) /\ Len(Front(acts)) = Len(acts) - 1
         /\ \A k \in 1..Len(acts) - 1 : Front(acts)[k] = acts[k]
         /\ SameKinds(Front(acts), Front(acts))
         /\ \A sp, ip : SameKinds(Front(acts), Continue(Front(acts), sp, ip))
<1>1. /\ IsSeq(Front(acts)) /\ Len(Front(acts)) = Len(acts) - 1
      /\ \A k \in 1..Len(acts) - 1 : Front(acts)[k] = acts[k]
  BY FrontFacts DEF RunInv, IsStack
<1>2. IsStack(Front(acts))
  BY <1>1, Sizes DEF RunInv, IsStack
<1>3. SameKinds(Front(acts), Front(acts))
  BY <1>2 DEF SameKinds
<1>4. \A sp, ip : SameKinds(Front(acts), Continue(Front(acts), sp, ip))
  <2>1. Len(Front(acts)) > 0
    BY <1>1, Sizes
  <2>2. QED BY <1>2, <2>1, WrittenBack
<1>5. QED BY <1>1, <1>2, <1>3, <1>4

LEMMA LeaveBlockKind == ASSUME RunInv, LeaveBlock PROVE Closes
<1>1. /\ acts[Len(acts)].kind \in BlockKinds
      /\ control' = Front(control) /\ objects' = objects - control[Len(control)].held
      /\ curFrame' = Len(control) - 1
      /\ \E sp, ip : acts' = Continue(Front(acts), sp, ip)
      /\ UNCHANGED <<envLocals, status>>
  BY Zenon DEF LeaveBlock, Returned, PopFrame, Top, Last
<1>2. acts[Len(acts)].kind \notin FunctionKinds
  BY <1>1 DEF BlockKinds, FunctionKinds
<1>3. /\ Len(acts) > 1
      /\ Owner(envLocals, Len(acts) - 1)
  <2>1. Owner(envLocals, Len(acts))
    BY Sizes DEF RunInv
  <2>2. envLocals # Len(acts) /\ envLocals \in 1..Len(acts)
    BY <1>2, <2>1 DEF Owner
  <2>3. Len(acts) \in Nat
    BY Sizes
  <2>4. QED BY <2>1, <2>2, <2>3 DEF Owner
<1>4. Len(acts) - 1 \in Nat /\ Owner(control[Len(acts) - 1].locals, Len(acts) - 1)
  BY <1>3, Sizes DEF RunInv
<1>5. envLocals = control[Len(acts) - 1].locals
  BY <1>3, <1>4, OwnerUnique
<1>6. Len(control) = Len(acts)
  BY DEF RunInv
<1>7. QED BY <1>1, <1>3, <1>5, <1>6, FrontStack DEF Closes

LEMMA LeaveFunctionKind == ASSUME RunInv, LeaveFunction PROVE Closes
<1>1. /\ acts[Len(acts)].kind \in {"call", "start"}
      /\ control' = Front(control) /\ objects' = objects - control[Len(control)].held
      /\ curFrame' = control[Len(control)].prev
      /\ envLocals' = control[Len(control) - 1].locals
      /\ \/ acts' = Front(acts)
         \/ \E sp, ip : acts' = Continue(Front(acts), sp, ip)
      /\ UNCHANGED status
  BY Zenon DEF LeaveFunction, Returned, PopFrame, Top, Last
<1>2. Len(acts) # 1
  BY <1>1 DEF RunInv
<1>3. Len(acts) \in 2..Len(acts) /\ Len(acts) > 1 /\ Len(control) = Len(acts)
  BY <1>2, Sizes DEF RunInv
<1>4. control[Len(control)].prev = Len(control) - 1
  BY <1>1, <1>3 DEF RunInv
<1>5. QED BY <1>1, <1>3, <1>4, FrontStack DEF Closes

LEMMA LeaveMainKind == ASSUME RunInv, LeaveMain PROVE Ends
<1>1. /\ acts[Len(acts)].kind = "main" /\ status' = "done"
      /\ control' = Front(control) /\ objects' = objects - control[Len(control)].held
  BY DEF LeaveMain, Returned, PopFrame, Top, Last
<1>2. ~(Len(acts) \in 2..Len(acts))
  BY <1>1 DEF RunInv
<1>3. Len(control) = 1
  BY <1>2, Sizes DEF RunInv
<1>4. QED BY <1>1, <1>3 DEF Ends

LEMMA NextKind == ASSUME RunInv, status = "run", Next PROVE StepKind
<1>1. CASE Instruction
  BY <1>1, InstructionKind
<1>2. CASE Unwind \/ FallOff
  <2>1. \E how : ReturnFrom(how)
    BY <1>2 DEF Unwind, FallOff
  <2>2. QED BY <2>1, ReturnStays DEF StepKind
<1>3. CASE Repeat
  BY <1>3, RepeatKind DEF StepKind
<1>4. CASE LeaveBlock \/ LeaveFunction
  BY <1>4, LeaveBlockKind, LeaveFunctionKind DEF StepKind
<1>5. CASE LeaveMain
  BY <1>5, LeaveMainKind DEF StepKind
<1>6. QED BY <1>1, <1>2, <1>3, <1>4, <1>5 DEF Next, Terminated

-----------------------------------------------------------------------------
(* Every kind of step keeps the invariant.                                 *)
LEMMA StaysKeeps == ASSUME RunInv, Stays PROVE RunInv'
<1>1. /\ IsStack(acts') /\ Len(acts') = Len(acts)
      /\ \A k \in 1..Len(acts) : acts'[k].kind = acts[k].kind
  BY DEF Stays, SameKinds
<1>2. ASSUME NEW k \in 1..Len(acts), NEW j PROVE Owner(j, k)' <=> Owner(j, k)
  BY <1>1, Sizes DEF Owner
<1>3. \A k \in 1..Len(acts) : Owner(control[k].locals, k)'
  BY <1>2, Sizes DEF RunInv, Stays
<1>4. QED BY <1>1, <1>3, Sizes DEF RunInv, Stays

LEMMA OpensKeeps ==
  ASSUME RunInv, NEW st, NEW a, NEW f, Opens(st, a, f)
  PROVE  RunInv'
<1>0. PICK n \in Nat : n = Len(acts) /\ n > 0 /\ Len(control) = n /\ curFrame = n
  BY Sizes DEF RunInv
<1>1. /\ IsStack(st) /\ Len(st) = n /\ \A k \in 1..n : st[k].kind = acts[k].kind
  BY <1>0 DEF Opens, SameKinds
<1>2. /\ IsSeq(acts') /\ Len(acts') = n + 1 /\ acts'[n + 1] = a
      /\ \A k \in 1..n : acts'[k] = st[k]
  BY <1>1, AppendFacts DEF Opens, IsStack
<1>3. n \in Nat /\ n > 0 /\ Len(acts) = n /\ Len(control) = n /\ curFrame = n
  BY <1>0
<1>4. /\ IsSeq(control') /\ Len(control') = n + 1 /\ control'[n + 1] = f
      /\ \A k \in 1..n : control'[k] = control[k]
  BY <1>3, AppendFacts DEF Opens, RunInv, IsControl
<1>5. IsStack(acts') /\ IsControl(control')
  <2>1. \A k \in 1..n + 1 : IsActivation(acts'[k])
    BY <1>1, <1>2, <1>3 DEF IsStack, Opens
  <2>2. \A k \in 1..n + 1 : IsFrame(control'[k])
    BY <1>3, <1>4 DEF RunInv, IsControl, Opens
  <2>3. QED BY <1>2, <1>4, <2>1, <2>2 DEF IsStack, IsControl
<1>6. \A k \in 1..n : acts'[k].kind = acts[k].kind
  BY <1>1, <1>2
<1>7. \A k \in 1..n : Owner(control[k].locals, k)'
  <2>1. ASSUME NEW k \in 1..n, NEW j PROVE Owner(j, k)' <=> Owner(j, k)
    BY <1>3, <1>6 DEF Owner
  <2>2. \A k \in 1..n : Owner(control[k].locals, k)
    BY <1>3 DEF RunInv
  <2>3. QED BY <1>4, <2>1, <2>2
<1>8. Owner(control[n + 1].locals, n + 1)'
  <2>1. CASE a.kind \in BlockKinds /\ f.locals = envLocals
    <3>1. a.kind \notin FunctionKinds
      BY <2>1 DEF BlockKinds, FunctionKinds
    <3>2. Owner(envLocals, n)
      BY <1>3, Sizes DEF RunInv
    <3>3. QED BY <1>2, <1>3, <1>4, <1>6, <2>1, <3>1, <3>2 DEF Owner
  <2>2. CASE a.kind = "call" /\ f.locals = n + 1
    BY <1>2, <1>3, <1>4, <2>2 DEF Owner, FunctionKinds
  <2>3. QED BY <1>3, <2>1, <2>2 DEF Opens
<1>9. ASSUME NEW k \in 2..n + 1
      PROVE  /\ acts'[k].kind # "main" /\ (acts'[k].kind = "start" => k = 2)
             /\ acts'[k].kind \in {"call", "start"} => control'[k].prev = k - 1
  <2>1. CASE k \in 2..n
    BY <1>3, <1>4, <1>6, <2>1 DEF RunInv
  <2>2. CASE k = n + 1
    BY <1>2, <1>3, <1>4, <2>2 DEF Opens, BlockKinds
  <2>3. QED BY <1>3, <2>1, <2>2
<1>10. envLocals' = control'[Len(control')].locals /\ curFrame' = n + 1
  BY <1>3, <1>4 DEF Opens
<1>11. acts'[1].kind = "main"
  BY <1>3, <1>6 DEF RunInv
<1>12. \A k \in 1..n + 1 : Owner(control[k].locals, k)'
  BY <1>3, <1>7, <1>8
<1>13. QED BY <1>2, <1>3, <1>4, <1>5, <1>9, <1>10, <1>11, <1>12 DEF RunInv

LEMMA ClosesKeeps == ASSUME RunInv, Closes PROVE RunInv'
<1>1. PICK n \in Nat : n > 0 /\ Len(acts) = n + 1 /\ Len(control) = n + 1
  <2>1. Len(acts) - 1 \in Nat /\ Len(acts) - 1 > 0 /\ Len(control) = Len(acts)
    BY Sizes DEF RunInv, Closes
  <2>2. Len(acts) = Len(acts) - 1 + 1
    BY Sizes
  <2>3. QED BY <2>1, <2>2
<1>2. /\ IsSeq(Front(acts)) /\ Len(Front(acts)) = n
      /\ \A k \in 1..n : Front(acts)[k] = acts[k]
  <2>1. IsSeq(acts)
    BY DEF RunInv, IsStack
  <2>2. Len(acts) > 0 /\ Len(acts) - 1 = n
    BY <1>1
  <2>3. QED BY <2>1, <2>2, FrontFacts
<1>3. /\ IsStack(acts') /\ Len(acts') = n
      /\ \A k \in 1..n : acts'[k].kind = acts[k].kind
  BY <1>2 DEF Closes, SameKinds
<1>4. /\ IsSeq(control') /\ Len(control') = n
      /\ \A k \in 1..n : control'[k] = control[k]
  <2>1. IsSeq(control) /\ control' = Front(control)
    BY DEF RunInv, IsControl, Closes
  <2>2. Len(control) > 0 /\ Len(control) - 1 = n
    BY <1>1
  <2>3. QED BY <2>1, <2>2, FrontFacts
<1>5. IsControl(control')
  BY <1>1, <1>4 DEF RunInv, IsControl
<1>6. \A k \in 1..n : Owner(control[k].locals, k)'
  <2>1. ASSUME NEW k \in 1..n, NEW j PROVE Owner(j, k)' <=> Owner(j, k)
    BY <1>1, <1>3 DEF Owner
  <2>2. \A k \in 1..n : Owner(control[k].locals, k)
    BY <1>1 DEF RunInv
  <2>3. QED BY <1>4, <2>1, <2>2
<1>7. \A k \in 2..n :
        /\ acts'[k].kind # "main" /\ (acts'[k].kind = "start" => k = 2)
        /\ acts'[k].kind \in {"call", "start"} => control'[k].prev = k - 1
  BY <1>1, <1>3, <1>4 DEF RunInv
<1>8. envLocals' = control'[Len(control')].locals /\ curFrame' = n
  BY <1>1, <1>4 DEF Closes
<1>9. acts'[1].kind = "main"
  BY <1>1, <1>3 DEF RunInv
<1>10. QED BY <1>1, <1>3, <1>4, <1>5, <1>6, <1>7, <1>8, <1>9 DEF RunInv

LEMMA InitRuns == Init => RunInv
<1> SUFFICES ASSUME Init PROVE RunInv
  OBVIOUS
<1> DEFINE m == FirstFrame(module.main, 0, 1)
           s(i) == FirstFrame(i, 1, 2)
           a == Activation(m, "main", 0)
           b(i) == Activation(s(i), "start", 0)
<1>1. IsFrame(m) /\ m.locals = 1 /\ IsActivation(a) /\ a.kind = "main"
  BY DEF IsFrame, Frame, FirstFrame, FunctionFrame, FunctionObjects, IsActivation,
         Activation
<1>2. \A i : IsFrame(s(i)) /\ s(i).locals = 2 /\ s(i).prev = 1 /\ IsActivation(b(i)) /\ b(i).kind = "start"
  BY DEF IsFrame, Frame, FirstFrame, FunctionFrame, FunctionObjects, IsActivation,
         Activation
<1>3. /\ curFrame = Len(control) /\ envLocals = Len(control)
      /\ \/ control = <<m>> /\ acts = <<a>>
         \/ \E i : control = <<m, s(i)>> /\ acts = <<a, b(i)>>
  BY DEF Init
<1> HIDE DEF m, s, a, b
<1>4. CASE control = <<m>> /\ acts = <<a>>
  <2>1. control \in Seq({m}) /\ acts \in Seq({a})
    BY <1>4
  <2>2. IsSeq(control) /\ IsSeq(acts)
    BY <2>1 DEF IsSeq
  <2>3. IsStack(acts) /\ IsControl(control)
    BY <1>1, <1>4, <2>2 DEF IsStack, IsControl
  <2>4. \A k \in 1..Len(acts) : Owner(control[k].locals, k)
    BY <1>1, <1>4 DEF Owner, FunctionKinds
  <2>5. QED BY <1>1, <1>3, <1>4, <2>3, <2>4 DEF RunInv
<1>5. ASSUME NEW i, control = <<m, s(i)>>, acts = <<a, b(i)>> PROVE RunInv
  <2>1. control \in Seq({m, s(i)}) /\ acts \in Seq({a, b(i)})
    BY <1>5
  <2>2. IsSeq(control) /\ IsSeq(acts)
    BY <2>1 DEF IsSeq
  <2>3. IsStack(acts) /\ IsControl(control)
    BY <1>1, <1>2, <1>5, <2>2 DEF IsStack, IsControl
  <2>4. \A k \in 1..Len(acts) : Owner(control[k].locals, k)
    BY <1>1, <1>2, <1>5 DEF Owner, FunctionKinds
  <2>5. QED BY <1>1, <1>2, <1>3, <1>5, <2>3, <2>4 DEF RunInv
<1>6. QED BY <1>3, <1>4, <1>5

LEMMA RestsWhenStopped == ASSUME Next, status # "run" PROVE UNCHANGED vars
BY Zenon DEF Next, Terminated, Instruction, Unwind, FallOff, Repeat, LeaveBlock,
   LeaveFunction, LeaveMain, Returned, Active, Compute, Arithmetic, Const, Drop, Select,
   Memory, Local, NoLocals, Global, Exit, Br, BrIf, BrTable, Return, Block, If, Call,
   CallIndirect, At

LEMMA FInvInductive == FInv /\ [Next]_vars => FInv'
<1> SUFFICES ASSUME FInv, [Next]_vars, status' = "run" PROVE RunInv'
  BY DEF FInv
<1>1. CASE UNCHANGED vars
  BY <1>1 DEF vars, FInv, RunInv, Owner
<1>2. CASE Next /\ status = "run"
  <2>1. RunInv /\ StepKind
    BY <1>2, NextKind DEF FInv
  <2>2. QED BY <2>1, StaysKeeps, OpensKeeps, ClosesKeeps DEF StepKind, Ends, Stops
<1>3. CASE Next /\ status # "run"
  <2>1. UNCHANGED vars
    BY <1>3, RestsWhenStopped
  <2>2. QED BY <1>1, <2>1
<1>4. QED BY <1>1, <1>2, <1>3

THEOREM FramesInvariant == Spec => []FInv
<1>1. Init => FInv
  BY InitRuns DEF FInv
<1>2. QED BY <1>1, FInvInductive, PTL DEF Spec

-----------------------------------------------------------------------------
(***************************************************************************)
(* env->cur_frame, env->local_vars and the frames on the control stack     *)
(* agree with the activations on the C stack, for every module.            *)
(***************************************************************************)
LEMMA OwnerIsInnermost == ASSUME RunInv PROVE envLocals = Innermost
<1> DEFINE S == {k \in DOMAIN acts : IsFunction(k)}
<1>1. Owner(envLocals, Len(acts))
  BY Sizes DEF RunInv
<1>2. envLocals \in S /\ \A k \in S : k \in Nat /\ envLocals >= k
  <2>1. envLocals \in S
    BY <1>1, Sizes DEF Owner, IsFunction
  <2>2. \A k \in S : k \in 1..Len(acts) /\ acts[k].kind \in FunctionKinds
    BY Sizes DEF IsFunction
  <2>3. \A k \in S : k \in Nat /\ ~(k \in envLocals + 1..Len(acts))
    BY <1>1, <2>2, Sizes DEF Owner
  <2>4. QED BY <2>1, <2>2, <2>3, Sizes
<1>3. envLocals \in Nat
  BY Sizes
<1> HIDE DEF S
<1>4. Max(S) = envLocals
  <2>1. Max(S) \in S /\ \A k \in S : Max(S) >= k
    BY <1>2, Zenon DEF Max
  <2>2. PICK m \in S : m = Max(S)
    BY <2>1
  <2>3. m \in Nat /\ envLocals >= m /\ m >= envLocals
    BY <1>2, <2>1, <2>2
  <2>4. m = envLocals
    BY <1>3, <2>3
  <2>5. QED BY <2>2, <2>4
<1>5. QED BY <1>4 DEF S, Innermost

THEOREM FramesAgreeAlways == Spec => []FramesAgree
<1>1. FInv => FramesAgree
  <2> SUFFICES ASSUME FInv, status = "run" PROVE FramesAgree
    BY DEF FramesAgree
  <2>1. RunInv
    BY DEF FInv
  <2>2. ASSUME NEW k \in DOMAIN acts, acts[k].kind = "call" PROVE control[k].prev = k - 1
    <3>1. k # 1 /\ k \in 1..Len(acts)
      BY <2>1, <2>2, Sizes DEF RunInv
    <3>2. k \in 2..Len(acts)
      BY <2>1, <3>1, Sizes
    <3>3. QED BY <2>1, <2>2, <3>2 DEF RunInv
  <2>3. QED BY <2>1, <2>2, OwnerIsInnermost DEF FramesAgree, RunInv
<1>2. QED BY <1>1, FramesInvariant, PTL

(***************************************************************************)
(* control_stack_free's assertion: when main's activation has returned its *)
(* frame is the only one left.                                             *)
(***************************************************************************)
THEOREM ControlStackEmptiedAlways == Spec => []ControlStackEmptied
<1>1. FInv => ControlStackEmptied
  <2> SUFFICES ASSUME FInv, Returned({"main"}) PROVE Len(control) = 1 /\ curFrame = 1
    BY DEF ControlStackEmptied
  <2>1. RunInv /\ acts[Len(acts)].kind = "main"
    BY DEF FInv, Returned, Top, Last
  <2>2. ~(Len(acts) \in 2..Len(acts))
    BY <2>1 DEF RunInv
  <2>3. QED BY <2>1, <2>2, Sizes DEF RunInv
<1>2. QED BY <1>1, FramesInvariant, PTL

(***************************************************************************)
(* No step touches the local variables of a function that waits for a      *)
(* call to return.                                                         *)
(***************************************************************************)
THEOREM CallersLocalsKeptAlways == Spec => CallersLocalsKept
<1> DEFINE Kept == status = "run" => \A k \in 1..Innermost - 1 :
                     k \in DOMAIN control' => control'[k].vars = control[k].vars
<1>1. FInv /\ [Next]_vars => [Kept]_vars
  <2> SUFFICES ASSUME FInv, Next, status = "run", NEW k \in 1..Innermost - 1, k \in DOMAIN control'
               PROVE  control'[k].vars = control[k].vars
    BY Zenon
  <2>1. RunInv /\ StepKind
    BY NextKind DEF FInv
  <2>2. k \in 1..envLocals - 1 /\ k \in 1..Len(control) /\ k # envLocals
    BY <2>1, OwnerIsInnermost, Sizes
  <2>3. CASE Stays
    BY <2>2, <2>3 DEF Stays
  <2>4. ASSUME NEW st, NEW a, NEW f, Opens(st, a, f) PROVE control'[k].vars = control[k].vars
    <3>1. IsSeq(control) /\ control' = Append(control, f)
      BY <2>1, <2>4 DEF Opens, RunInv, IsControl
    <3>2. QED BY <2>2, <3>1, AppendFacts
  <2>5. CASE Closes \/ Ends
    <3>1. IsSeq(control) /\ control' = Front(control) /\ Len(control) > 0
      BY <2>1, <2>5, Sizes DEF Closes, Ends, RunInv, IsControl
    <3>2. /\ IsSeq(Front(control)) /\ Len(Front(control)) = Len(control) - 1
          /\ \A i \in 1..Len(control) - 1 : Front(control)[i] = control[i]
      BY <3>1, FrontFacts
    <3>3. k \in 1..Len(control) - 1
      BY <3>1, <3>2, Shape
    <3>4. QED BY <3>1, <3>2, <3>3
  <2>6. CASE Stops
    BY <2>6 DEF Stops
  <2>7. QED BY <2>1, <2>3, <2>4, <2>5, <2>6 DEF StepKind
<1>2. QED BY <1>1, FramesInvariant, PTL DEF Spec, CallersLocalsKept

-----------------------------------------------------------------------------
(* What the frames hold, as a sum.                                         *)
HeldOf(fs) == [k \in 1..Len(fs) |-> fs[k].held]
LEMMA HeldIsSum ==
  ASSUME NEW fs, Len(fs) \in Nat
  PROVE  \E f : IsSum(f, HeldOf(fs), Len(fs)) /\ HeldBy(fs) = f[Len(fs)]
<1> DEFINE n == Len(fs)
           Good(f) == f = [k \in 0..n |-> IF k = 0 THEN 0 ELSE f[k - 1] + fs[k].held]
           sum == CHOOSE f : Good(f)
<1>1. \A f : Good(f) <=> IsSum(f, HeldOf(fs), n)
  <2> SUFFICES ASSUME NEW f PROVE Good(f) <=> IsSum(f, HeldOf(fs), n)
    OBVIOUS
  <2>1. [k \in 0..n |-> IF k = 0 THEN 0 ELSE f[k - 1] + fs[k].held]
          = [k \in 0..n |-> IF k = 0 THEN 0 ELSE f[k - 1] + HeldOf(fs)[k]]
    BY DEF HeldOf
  <2>2. QED BY <2>1, Zenon DEF IsSum
<1>2. \E f : Good(f)
  BY <1>1, SumExists
<1>3. Good(sum)
  BY <1>2, Zenon
<1>4. HeldBy(fs) = sum[n]
  BY DEF HeldBy
<1> HIDE DEF Good, sum
<1>5. QED BY <1>1, <1>3, <1>4

(* Frames that hold the same in all, one more, one less.                   *)
LEMMA HeldFacts ==
  ASSUME NEW fs, IsControl(fs), NEW gs, IsControl(gs)
  PROVE  /\ Len(gs) = Len(fs) /\ (\A k \in 1..Len(fs) : gs[k].held = fs[k].held)
              => HeldBy(gs) = HeldBy(fs)
         /\ Len(gs) = Len(fs) + 1 /\ (\A k \in 1..Len(fs) : gs[k].held = fs[k].held)
              => HeldBy(gs) = HeldBy(fs) + gs[Len(gs)].held
         /\ HeldBy(fs) \in Nat
<1>1. Len(fs) \in Nat /\ Len(gs) \in Nat
  BY Shape DEF IsControl
<1>2. PICK f : IsSum(f, HeldOf(fs), Len(fs)) /\ HeldBy(fs) = f[Len(fs)]
  BY <1>1, HeldIsSum
<1>3. PICK g : IsSum(g, HeldOf(gs), Len(gs)) /\ HeldBy(gs) = g[Len(gs)]
  BY <1>1, HeldIsSum
<1>4. ASSUME Len(gs) \in {Len(fs), Len(fs) + 1}, \A k \in 1..Len(fs) : gs[k].held = fs[k].held
      PROVE  f[Len(fs)] = g[Len(fs)]
  <2>1. \A k \in 1..Len(fs) : HeldOf(fs)[k] = HeldOf(gs)[k]
    BY <1>1, <1>4 DEF HeldOf
  <2>2. Len(fs) <= Len(gs) /\ Len(fs) <= Len(fs)
    BY <1>1, <1>4
  <2>3. QED BY <1>1, <1>2, <1>3, <2>1, <2>2, SumsAgree
<1>5. Len(gs) = Len(fs) + 1 => g[Len(gs)] = g[Len(fs)] + gs[Len(gs)].held
  <2> SUFFICES ASSUME Len(gs) = Len(fs) + 1 PROVE g[Len(gs)] = g[Len(fs)] + gs[Len(gs)].held
    OBVIOUS
  <2>1. Len(gs) \in 0..Len(gs) /\ Len(gs) # 0 /\ Len(gs) - 1 = Len(fs)
    BY <1>1
  <2>2. g[Len(gs)] = IF Len(gs) = 0 THEN 0 ELSE g[Len(gs) - 1] + HeldOf(gs)[Len(gs)]
    BY <1>3, <2>1 DEF IsSum
  <2>3. HeldOf(gs)[Len(gs)] = gs[Len(gs)].held
    BY <1>1, <2>1 DEF HeldOf
  <2>4. QED BY <2>1, <2>2, <2>3
<1>6. HeldBy(fs) \in Nat
  <2>1. \A k \in 1..Len(fs) : HeldOf(fs)[k] \in Nat
    BY DEF HeldOf, IsControl, IsFrame
  <2>2. QED BY <1>1, <1>2, <2>1, SumsAreNatural
<1>7. QED BY <1>2, <1>3, <1>4, <1>5, <1>6

(***************************************************************************)
(* Whatever way a block or a call is left, the heap blocks taken for it    *)
(* are given back, and when main has returned none is left.                *)
(***************************************************************************)
Accounted == FInv /\ ObjectsAccounted

LEMMA AccountedInductive == Accounted /\ [Next]_vars => Accounted'
<1> SUFFICES ASSUME Accounted, [Next]_vars PROVE ObjectsAccounted'
  BY FInvInductive DEF Accounted
<1>1. CASE UNCHANGED vars
  BY <1>1 DEF vars, Accounted, ObjectsAccounted
<1>2. CASE Next /\ status # "run"
  <2>1. UNCHANGED vars
    BY <1>2, RestsWhenStopped
  <2>2. QED BY <1>1, <2>1
<1>3. CASE Next /\ status = "run"
  <2>1. RunInv /\ StepKind /\ objects = HeldBy(control) /\ IsControl(control)
    BY <1>3, NextKind DEF Accounted, FInv, ObjectsAccounted, RunInv
  <2>2. CASE Stays
    <3>1. HeldBy(control') = HeldBy(control)
      BY <2>1, <2>2, HeldFacts DEF Stays
    <3>2. QED BY <2>1, <2>2, <3>1 DEF Stays, ObjectsAccounted
  <2>3. ASSUME NEW st, NEW a, NEW f, Opens(st, a, f) PROVE ObjectsAccounted'
    <3>1. IsControl(control')
      BY <2>1, <2>3, OpensKeeps DEF RunInv
    <3>2. IsSeq(control) /\ control' = Append(control, f) /\ objects' = objects + f.held
      BY <2>1, <2>3 DEF Opens, IsControl
    <3>3. /\ Len(control') = Len(control) + 1 /\ control'[Len(control) + 1] = f
          /\ \A k \in 1..Len(control) : control'[k] = control[k]
      BY <3>2, AppendFacts
    <3>4. HeldBy(control') = HeldBy(control) + f.held
      BY <2>1, <3>1, <3>3, HeldFacts
    <3>5. QED BY <2>1, <3>2, <3>4 DEF ObjectsAccounted
  <2>4. CASE Closes \/ Ends
    <3>1. /\ control' = Front(control) /\ objects' = objects - control[Len(control)].held
          /\ Len(control) \in 1..Len(control) /\ Len(control) > 0 /\ IsSeq(control)
      BY <2>1, <2>4, Sizes DEF Closes, Ends, IsControl
    <3>2. /\ IsSeq(control') /\ Len(control') = Len(control) - 1
          /\ \A k \in 1..Len(control) - 1 : control'[k] = control[k]
      BY <3>1, FrontFacts
    <3>3. IsControl(control') /\ Len(control) = Len(control') + 1
      BY <2>1, <3>1, <3>2 DEF IsControl
    <3>4. \A k \in 1..Len(control') : control[k].held = control'[k].held
      BY <3>2
    <3>5. HeldBy(control) = HeldBy(control') + control[Len(control)].held
      BY <2>1, <3>3, <3>4, HeldFacts
    <3>6. HeldBy(control') \in Nat /\ control[Len(control)].held \in Nat
      BY <2>1, <3>1, <3>3, HeldFacts DEF IsControl, IsFrame
    <3>7. QED BY <2>1, <3>1, <3>5, <3>6 DEF ObjectsAccounted
  <2>5. CASE Stops
    BY <2>5 DEF Stops, ObjectsAccounted
  <2>6. QED BY <2>1, <2>2, <2>3, <2>4, <2>5 DEF StepKind
<1>4. QED BY <1>1, <1>2, <1>3

LEMMA InitAccounts == Init => ObjectsAccounted
<1> SUFFICES ASSUME Init PROVE objects = HeldBy(control)
  BY DEF ObjectsAccounted
<1>1. /\ RunInv /\ \A k \in 1..Len(control) : control[k].held \in Nat
      /\ \/ Len(control) = 1 /\ objects = control[1].held
         \/ Len(control) = 2 /\ objects = control[1].held + control[2].held
  <2> DEFINE m == FirstFrame(module.main, 0, 1)
             s(i) == FirstFrame(i, 1, 2)
  <2>1. m.held \in {1, 2} /\ \A i : s(i).held \in {1, 2}
    BY DEF FirstFrame, FunctionFrame, Frame, FunctionObjects
  <2>2. \/ control = <<m>> /\ objects = m.held
        \/ \E i : control = <<m, s(i)>> /\ objects = m.held + s(i).held
    BY DEF Init
  <2> HIDE DEF m, s
  <2>3. QED BY <2>1, <2>2, InitRuns
<1>2. PICK f : IsSum(f, HeldOf(control), Len(control)) /\ HeldBy(control) = f[Len(control)]
  BY <1>1, HeldIsSum
<1>3. /\ HeldOf(control)[1] = control[1].held
      /\ Len(control) = 2 => HeldOf(control)[2] = control[2].held
  <2>1. 1 \in 1..Len(control) /\ (Len(control) = 2 => 2 \in 1..Len(control))
    <3>1. Len(control) = 1 \/ Len(control) = 2
      BY <1>1
    <3>2. QED BY <3>1
  <2>2. \A k \in 1..Len(control) : HeldOf(control)[k] = control[k].held
    BY DEF HeldOf
  <2>3. QED BY <1>1, <2>1, <2>2
<1>4. /\ f[0] = 0 /\ f[1] = f[0] + HeldOf(control)[1]
      /\ Len(control) = 2 => f[2] = f[1] + HeldOf(control)[2]
  <2>1. \A k \in 0..Len(control) : f[k] = IF k = 0 THEN 0 ELSE f[k - 1] + HeldOf(control)[k]
    BY <1>2 DEF IsSum
  <2>2. f[0] = 0 /\ f[1] = f[1 - 1] + HeldOf(control)[1]
    <3>1. 0 \in 0..Len(control) /\ 1 \in 0..Len(control)
      BY <1>1
    <3>2. QED BY <2>1, <3>1
  <2>3. Len(control) = 2 => f[2] = f[2 - 1] + HeldOf(control)[2]
    BY <2>1
  <2>4. QED BY <2>2, <2>3
<1>5. QED BY <1>1, <1>2, <1>3, <1>4

THEOREM ObjectsAccountedAlways == Spec => []ObjectsAccounted
<1>1. Init => Accounted
  BY InitRuns, InitAccounts DEF Accounted, FInv
<1>2. Accounted => ObjectsAccounted
  BY DEF Accounted
<1>3. QED BY <1>1, <1>2, AccountedInductive, PTL DEF Spec
=============================================================================
