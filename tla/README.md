# DeepVM in TLA+

A verification development for DeepVM, a WebAssembly interpreter in C. It holds
TLA+ modules that model the memory allocator, the interpreter, the loader, the
WAT assembler and the program around them from their source, TLC configurations
that check them on small instances, and proofs that TLAPS checks for every
instance: any size of the allocator's pool, any program the assembler is given,
any file the loader reads, any code the interpreter runs (any valid code, for
some of the properties), any well-formed block without float constants, and any
width of the numbers.

## 1. Inventory

DeepVM is one process with one thread. `main` (deep_main.c) parses its arguments,
and either translates a `.wat` file (deep_wat.c) and ends, or initialises the
allocator on a static buffer, loads a `.wasm` file (deep_loader.c), builds an
execution environment, interprets the export `main` (deep_interp.c), releases
everything and compares the free memory with what it was at the start. There are no
threads or callbacks, and nothing persists but the `.wasm` file between the two
calls; the difficulty lies in long sequences of legal calls, in state that lives in
several places at once (a C activation's `sp` and `ip`, the environment, the frame,
the control stack), in allocation failures, and in boundaries.

| Component | State | Operations | Correct when |
|---|---|---|---|
| Allocator, deep_mem.c | one buffer: list head, sorted blocks, remainder, fast blocks; bins; `free_memory` | `deep_mem_init`, `deep_malloc`, `deep_free` (realloc, migrate and destroy are stubs) | blocks in use never overlap and keep their data (but see section 4); heads say what is there; `free_memory` is exact; payloads start zeroed; every call ends |
| Block scanner, `read_block` | an address, a bracket count | called for every block, loop and if | finds the instruction after the block's end, whatever the immediates contain |
| Interpreter, deep_interp.c | operand stack, control stack of frames, `cur_frame`, `local_vars`, `jump_depth`, globals, linear memory, table; one `sp`/`ip` per C activation | `exec_instructions` per opcode, `enter_frame`, `call_function`, `call_main`, nine built-in functions | branches arrive where the nesting says; frames, operands and local variables survive blocks and calls; nothing leaks |
| Loader, deep_loader.c | the module's sections | `deep_load`, one decoder per section, `module_free`, LEB readers | the module says what the bytes say; what is allocated is released |
| Driver, deep_main.c | the environment | `main` | what is built is released, once; every call ends with a result or a message |
| WAT assembler, deep_wat.c | tokens, expression, symbol tables, label stack, output buffer | `deep_wat_compile_file`: `tokenize`, `parse_one`, `assemble_module`, `emit_seq`, `emit_folded`, `emit_expr` | the tokens are those of the text; names and labels become the numbers the loader and interpreter count to; text and binary denote the same module |
| Random numbers, xoroshiro128plus.c | 128 bits | `next` | any level may come out |
| Opcode names, logging, version | none | output | |

How they interact: the loader, the driver and the interpreter take every object
from the allocator; the interpreter relies on zeroed payloads for local
variables and linear memory, and the loader for the last `next` pointer of its
section list. The interpreter reads the loader's module (code as bytes, offsets
of local variables, import table) and re-enters itself through `enter_frame`
and `call_function`.

The assembler shares nothing with the virtual machine but the format: it writes
names as numbers that the loader finds again by counting (functions, imported
ones first; local variables, parameters first; types), labels as depths that the
interpreter counts down at run time, and constructs without their lengths, which
`read_block` finds by scanning.

The hard behaviours are listed, each at its line, under `hazards` in
PROJECT.json. The most important are the arithmetic of carving, splitting and
merging; the skip list whose search never succeeds; the unwinding by
`jump_depth`; the scanner's own table of immediates; allocation failing half
way through opening a block; decoders that give up without telling anyone; and
the numberings that assembler and loader compute apart from each other.

## 2. Plan

Done:

1. `Heap`, `Pool`, `PoolProofs`: what an allocator promises, the block-level
   allocator, and the proofs of its safety and of the refinement.
2. `DeepMem`: the allocator word by word, checked to implement `Pool`.
3. `Bytecode`, `BlockScan`: the bytes of a body, and `read_block`.
4. `ControlFlow`, `Interp`: structured control flow, and the interpreter,
   checked to implement it.

5. `Leb`, `LebStream`: the numbers of the format, written by the assembler and
   read by the loader and the interpreter.
6. `WatText`, `WatBody`, `Wat`: the assembler: its reader, the emission of
   bodies, and the module around them.
7. `Loader`, `Driver`: the loader, and `main` with both of its calls, which
   composes `WatText`, `Wat` and `Loader` through the file.
8. `LoaderProofs`, `DriverProofs`: the section list and every block the decoders
   and main take, for every file.
9. `Foundations`, `InterpProofs`, `BlockScanProofs`, `LebProofs`: the interpreter's
   frames, the scanner against the binary format, the numbers.
10. `ValidCodeProofs`: what the interpreter does with valid code, and that it then
    implements `ControlFlow`.
11. `DriverProofs` once more: the assembler's label stack, and the numbers it gives
    labels and names.

What could be added:

12. Proofs: the height of the operand stack at each place, for
    `OuterOperandsKept` and `ReturnsOne`.
13. The loader with an allocator that may fail, and vectors that run on behind
    the end of their file.

## 3. Modules

### Heap, Pool (deep_mem.c by blocks)

`Heap` is the promise to clients: `Alloc` hands out a block that shares no byte
with a held one, `Release` takes it back, `BreakDown` ends the promise; the call
with which it ends may still hand out blocks, of which nothing is promised, or take
blocks back.

`Pool` keeps `live` (blocks clients hold), `spare` (blocks in the fast bins),
`remHead`/`remEnd` (`remainder_block_head`, `remainder_block_end`),
`freeMemory`. Its actions are the paths of `deep_malloc` and `deep_free`:
`MallocFromBin` and `MallocCarve` (deep_malloc_fast_bins), `MallocSorted`
(deep_malloc_sorted_bins; the list search finds nothing, see DeepMem), `FreeFast`,
`FreeSorted`. `ok` turns FALSE with a call that damages the pool, and the model
stops behind it. If the call comes back its effect is in the state: a carve that
fits exactly hands out a block whose head lies over the last four bytes of the
block below the remainder; a release takes its block back although the skip list
wrote into another one, or a merge with a free fast block above an empty remainder
(`Engulfs`) cut off the chain of its bin. If it does not come back there is no effect
(`Break`): a split with less than a header left, whose memset gets a length of
4 GiB, or a use of the skip list that runs into foreign data or goes round for ever
(`ListBreaks`).

### DeepMem (deep_mem.c by words)

`mem` maps an address to the 32-bit word there. A head word carries size and the
flags A and P; a free fast block's payload the bin's next pointer; a free sorted
block's payload its skip-list node. List operations are functions from a record
(memory, words that are not the list's to write, status) to such a record, one
operator per C function: `FindOnIndex`, `InsertBlock`, `RemoveBlock`, `Merge`.
`FreeSorted` (deep_free_sorted_bins) is a chain of its stages: `Cleared`,
`MergeAbove`, `MergeBelow`, `Relist`, `Released`.
The level of a node is any level, in place of the random number. `Junk` stands
for any data a client writes. A bin and the next pointers of its chain hold
pointers (`PointerTo`), which the skip list, where it takes one for an offset,
follows out of the buffer.

`status` leaves "ok" with a call that damages the pool, and the model stops behind
that call. Three kinds of damage come back to the caller, with every word they write
and the block they hand out or take back in the state: "torn" (a carve that fits
exactly), "stray" (the skip list writes a word of a block that is not its own) and
"engulf" (a merge's memset runs into the blocks above the remainder). The properties
therefore see the states behind them and say what the damage is limited to. Three
others are not followed, since what happens depends on data of clients or on the
machine: "crash", "wild" and "hang".

`FindBySize` is the constant 0: the loop condition of
`_find_sorted_block_by_size` joins with `||` what needs `&&`, so a search always
runs past the offsets array of the list head and gives NULL. The consequence is
modelled too: the words it scans belong to the first block, and client data
there is followed as an offset (`ScanRunsAway`).

### Bytecode, BlockScan

`Bytecode` has the opcodes, `ReadLeb`, and `read_block`'s own table of
immediates; `ReadBlock` is the whole scan as a recursive function, used by
`Interp`. `BlockScan` is the same loop as a state machine, one step per
instruction, over every well-nested block of at most `MaxLength` instructions.
The reference operators at the end of `Bytecode` (`ConstructEnd`, `ThenEnd`,
`HasElse`) follow the binary format and are what `ControlFlow` is written with.

### ControlFlow, Interp

`ControlFlow` is structured control flow as flow_control.md (item 5) has it: a
stack of labels and a program counter; a branch takes one step.

`Interp` is `exec_instructions` and its callers. `acts` is the C stack: one
activation per nested call of `exec_instructions`, with its copies of `ip` and `sp`
and a note of which C function waits for it. `control`, `curFrame`, `envSp`,
`envLocals`, `jump` are the fields of `DEEPExecEnv` (pointers to frames and to local
variables as indices of `control`). `objects` counts the heap blocks the interpreter
holds: a frame, and the local variables of a function that has any, since
`deep_malloc(0)` is NULL (`FunctionObjects`). Every opcode is covered: control
instructions one action each, moves and local or global variables exactly, computing
instructions in families by the words they take and give. One step is one
instruction, one return of `exec_instructions` (`Unwind`, `FallOff`), or what the
waiting C function does next (`Repeat`, `LeaveBlock`, `LeaveFunction`, `LeaveMain`).
The comparison on the operand stack's end, the failing allocations of a block, the
skipped call, the null pointer of local variables, the division trap and the control
stack's end are all in the model. An instruction that takes more operands than were
ever pushed is not: the model has no step there, and that the runs find no deadlock
shows that the code they run never does it.

The refinement mapping to `ControlFlow` treats a pending jump as a branch
already taken: `Labels` are the activations it will leave standing and `Pc` the
target's address.

### Leb, LebStream (numbers)

`Leb` has the writers `put_leb_u` (bb_put_leb_u32) and `put_leb_s` (bb_put_leb_s32,
_s64) and the readers `read_leb_u` and `read_leb_s` (read_leb_u32, _i32, _i64), for
any number of bits to a byte, bits to a number and bytes a reader looks at. What a
writer has left of a number after some rounds of its loop (`Left`) and what a reader
has summed up (`Bits`) are recursive functions, so that proofs can follow them.
`read_leb_u64` is called by nobody and not modelled; it shifts an int by up to 63
bits. `LebStream` writes numbers one behind the other, as few bytes each as the
assembler does or filled up as other tools do, or one that does not end in time, and
reads them in the same order.

### WatText, WatBody, Wat (deep_wat.c)

`WatText` is the assembler's reader. A text is a sequence of characters, written
in pieces together with the tokens a reader of the format sees in each piece; the
actions see only the characters. `tokenize` takes one iteration of one of its
loops a step (`mode` says which loop), `parse_one` one token a step, its recursion
being the stack `open`. `overrun` is the step past the end of the text after a
backslash, `AtLoneSemicolon` the character at which `tokenize` never moves again.

`WatBody` is the emission of a function body. `emit_seq`, `emit_folded` and
`emit_expr` call each other; `work` is that C stack, an item for everything still
to emit: the rest of an `emit_seq` with the caller that waits for it (`role`), an
expression, bytes or a reference to put after the operands, the close of a
construct. `labels` is `fc.labels`, `code` the output as instructions; the note
beside an instruction is not code, it keeps the names it was written with so that
properties can compare. A step is one instruction, or one return.

`Wat` is `assemble_module`. `Collect` numbers types, functions and globals in the
order of the passes of the code (`DeclareType`, `RegisterFunction`),
`WriteSection` appends one section, the code section is a body at a time
(`BeginBody`, `EmitStep`, `FinishBody`, `WriteCode`). A program (`ProgramOK`) is
what the forms say, with bodies as S-expressions; how a form's S-expression is
taken apart is not modelled. `Forms` are the S-expressions bodies are made of, down
to their atoms (`WrittenInForms`); they may be any set.

### Loader, Driver (deep_loader.c, deep_main.c)

`Loader` reads bytes. `create_section_list` takes a node a step (`CreateNode`, with
the link of the first node to itself and the last one's NULL out of a zeroed
payload), `FindCode` is the unbounded search for the code section, then each decoder
is an action, in the order of the file, and the list is released node by node.
`held` are the blocks taken from the allocator, named by what they hold; `logged`
tells whether an error message was written, which is all a decoder does when it
gives up. `Blocks` says which blocks an item of the module consists of, both for the
decoders, which take them, and for `module_free`. `decode_func_section` is written
with its early returns: the count check, the loop over the imports that gives up
(`GivesUp`), the assertion on the `uint8_t` count of local variables. A pointer that
is followed although it was never set ends the call in "crash".

`Driver` is `main`. `deepvm x.wat` is the reader, the assembler and the file;
`deepvm x.wasm` reads the file (cut off at `FileSize`), loads it, builds the
environment, runs, releases in the order of the code, and checks for leaks. `at`
is where it is, or the result. `ServedPages` and `ServedSlots` say for how large a
linear memory and a function table the pool has room: a memory that cannot be had
is NULL and main goes on, a table that cannot be had is NULL and written to at once
("crash"), and a table without slots is no block. The interpreter's run is one step,
of which only the outcome counts: main is missing, cannot be called, comes back,
exits, or crashes by what its code does ("trap": a division, a missing local
variable or frame, all of which `Interp` has); that it gives back all its blocks is
`ObjectsAccounted` of `Interp`.

`CrashIsAnnounced` speaks of the other crashes, in the loader, in `call_main` and in
`module_free`: they come only after an error that a decoder logged and did not pass
on. That is so for modules that are `Founded`, and each part of `Founded` is a case
in which main goes down silently: no code section, sections in another order than
that of their numbers, a type that is none, a function of a type or a start function
or `main` export with a number that there is not, no room for the linear memory or
the table. The assembler writes such modules too, if a start function or an export
is given as a number.

The texts of `WatText` end at the parser's result: a text has no forms the model
knows, so that it is refused unless it is an empty module. What forms say is given
as a program instead.

### Checking modules

`MCPool`, `MCDeepMem`, `MCBlockScan`, `MCBlockScanFloats` and `MCLebStream` only
give constants their values. `MCInterp` assembles modules from function bodies;
conditions come from an `i32.load`, whose result is any word, so both ways of a
branch are taken. `MCInterpValid` adds to it the places of each module (`Walk`, by a
walk through its code) that `ValidCodeProofs` speaks of, so that runs control_flow
and values_and_calls also evaluate whether their modules are valid. `MCDriver` has
the texts, programs (with `MCForms`, the expressions in them) and files: bodies
written folded and flat side by side, every subset of the kinds of section, what the
assembler refuses, and files as other tools write them or cut short.

Operators whose name extends another's (`HandOutStale` beside `HandOut`,
`PopFrameTwice` beside `PopFrame`) are plausible mistakes in that piece of code.
Nothing uses them; put in the other's place they show that a property notices.

## 4. Runs

Runs that pass:

| Run | Configuration | Shows | Bounds |
|---|---|---|---|
| allocator_words | MCDeepMem.cfg | heads, bins, accounting and client data survive every sequence of calls, but for the damage named in the properties; the word level implements `Pool` | 152 bytes (three sorted blocks), two list levels; requests 0, 8, 16, 17: both block classes, two bins, rounding, refusal, a carve that fits exactly, list writes into client data, a merge over a fast block |
| allocator_blocks | MCPool.cfg | no byte is handed out twice but the four of a carve that fits exactly; `Heap` is implemented until then | the code's own sizes, a pool of 376 bytes; requests 0, 8, 40, 80, which can leave a remainder of exactly a block |
| block_scan | MCBlockScan.cfg | the scan keeps to instruction boundaries and stops at the end | blocks of up to five instructions |
| control_flow | MCInterp.cfg | unwinding implements structured control flow; frames, operands, heap in order; main's result is read where it was left | about 3900 modules: constructs nested three deep with every branch depth, pairs in sequence, calls from inside blocks, start functions, recursion to the limit, exits of main from up to two constructs deep |
| values_and_calls | MCInterpValues.cfg | the same for values of both widths, local variables, built-in functions; nothing is lost when an allocation fails or the operand stack overflows; every run of a module without loops ends | words of two values; one or two opcodes per family and every division; nine heap blocks, constructs nested until any number of them is left, then calls of functions with and without local variables; an operand stack of twelve words |
| number_codec | MCLebStream.cfg | numbers are read as written, one behind the other; one that does not end stops the reader for good | 5 bits in groups of 2, at most 3 bytes; every pair of numbers |
| assemble_and_run | MCDriver.cfg | the reader, the assembler, the loader and main agree; nothing leaks or is freed twice; every call ends | 1158 texts, 684 programs, 73 files (below) |

Why the bounds are enough: the allocator's hazards need a full or empty
remainder, a bin with blocks in it, two neighbouring free blocks and a block that
is reused; all occur with three or four blocks, and the pool holds that many.
The interpreter's need a jump across two constructs of different kinds and
across a call; the modules contain every such pair. A word of two values tells
zero from non-zero and has a smallest number and a -1, which is all that the
control flow and the division traps look at.

Numbers of 5 bits in groups of 2 have what those of 32 and 64 bits in groups of 7
have: a highest group that holds less of the number than the others (one bit, as
with 64 bits), negative and positive values of every length, and room for padding.
The texts of assemble_and_run are all sequences of three pieces (parentheses, a
word, a blank, both comments, nested and with quotes in them, strings with
parentheses, comments and escaped quotes in them, one of which may be cut off by the
end of the text) and all of five parentheses and words; a string has room for three
characters. The programs hold every instruction the assembler treats in a way of its
own, constructs nested three deep with equal and different labels and branches from
the innermost, each folded and flat; all 512 choices of the nine optional kinds of
form; 20 programs that must be refused; and two with a start function or a main
export whose number no function has. The files are a module cut off after each of
its bytes, custom sections, 255 and 256 local variables, every kind of import,
tables and memories with and without maximum, overlapping elements, a duplicate
section, sections out of order, differing counts, a type that is no function's and a
type index that is no type's, tables of no slot and of 20000, with and without room
for them, and a file longer than the buffer. That is enough to tell a label pushed
too often or not popped, a wrong first index, or a decoder one byte off, since
everything behind it is then read differently.

Deadlock is checked in the runs of the interpreter, the scanner and the driver.
It is not in the allocator's: behind the call with which `status` leaves "ok" (or
`ok` turns FALSE) no further one is followed; nor in number_codec, whose stream ends.

Fairness: `Interp` and `BlockScan` assume weak fairness of the whole next-state
relation, since a single thread that never waits keeps taking steps. `AlwaysEnds` is
checked only for modules without loops and recursion; `AlwaysAnswers` for every
scan. `Driver` assumes the same of its one thread, with the ENABLED of WF_vars(Next)
spelled out because TLC evaluates it slowly: the thread goes on until its call has
ended, or goes round without a change in one of two loops (`Spinning`), which
`EveryCallEnds` names and excepts. The fairness of `LebStream` is that of its
reader; no property there depends on it. The allocator's calls are one step each and
need none; that a call itself may not end is the status "hang".

Runs that show a disagreement of the code with what it or its documents say:

| Run | Statement | What happens |
|---|---|---|
| merge_engulfs | deep_mem.c:229-231 | a merge below an empty remainder runs into the fast blocks |
| scan_floats | flow_control.md:17 | a byte of a float constant is taken for an end |
| lone_if | flow_control.md:10 | an if without else swallows the code behind it |
| table_default | deep_interp.h:98 | the default of br_table is read behind the table |
| other_imports | README.md:19 "what is written is sure to run" | a table, memory or global import behind a function import costs the module its own functions |

The passing properties are stated for what the code does do: `ControlFlow` takes
an if without else as the format defines it, and the modules of run control_flow
therefore have ifs with both branches and tables that never take
their default: each has two labels besides it, and words are 0 and 1 there. The
other cases are the violation runs above. The allocator's
violation run uses one list level and 144 bytes, enough for it to happen.
`LoadsAsWritten` and the other properties of assemble_and_run are checked over
programs that import functions only; the programs of other_imports are those with
one other import. Float constants stand outside of constructs there, since
`read_block` does not step over them (scan_floats).

Further disagreements that the models reproduce and no run is spent on:

- A carve from a remainder that fits exactly takes four bytes below it
  (deep_mem.c:222-226, status "torn"), although the comment above it says it grabs
  at the end of the remainder: the new block's head lies over the last word of the
  sorted block below, whose client holds it. `LiveBlocksApart` and
  `LiveBlocksIntact` say that this is all that is ever handed out twice. The
  remainder's size is then -4, as an unsigned number: later carves go on down over
  the blocks in use and a later split crashes, which the models do not follow.
- A merge clears the node of a block that is still listed, or the list reaches a
  block that has since become part of another (`ListStale`). Later list
  operations store offsets there, which may be data of a client (status "stray"), or
  read them there and follow them (status "wild"). Two listed blocks may link to each
  other, and a walk then never ends (deep_mem.c:524 and 537, status "hang").
- A merge changes the size of a listed block and clears its node, so the list
  is not ascending (deep_mem.h:55), and a block split off the remainder may
  still be listed (deep_mem.c:482).
- The search for a block of the same or a larger size always fails
  (deep_mem.c:582-584, `FindBySize`), and no merge touches `free_memory`
  (deep_mem.c:450-451).
- `read_block` exits on f64.add to f64.copysign, which `exec_instructions`
  executes (verdict "unknown").
- The arguments of a call stay under its result, as flow_control.md:7 notes.
- The 101st frame is written past the control stack (status "ctlOverflow"; the
  check is a TODO of deep_interp.h:65).
- An operand stack overflow returns false like a branch (deep_interp.c:461).
- The frame of an if is typed as a function's (`opcode == IF_FRAME`,
  deep_interp.c:574).

- A file of a single section makes the search for the code section endless: its
  node is linked to itself (deep_loader.c:186-195). The assembler writes such a
  file for a module without functions. A file without a code section but with
  others follows NULL (603-606).
- A file that has a section twice leaks the first one's blocks, and main reports
  it (`NothingLost` excepts it); a linear memory of two pages or more cannot be
  had, and its NULL is not tested (deep_main.c:111).
- Data segments are decoded and never copied into linear memory. A global whose
  value is another global is 0. An elem offset that is not an i32.const leaves its
  immediate to be taken for the end. A type form other than 0x60 leaves a hole.
- `call_main` takes the last export named main, a function's or not. Neither the
  assembler (deep_wat.c:458-460) nor `call_main` and `call_start`
  (deep_interp.c:1939, 1964) looks whether there is a function of a number given as
  such: main goes down with no message.
- A function table the pool has no room for is NULL and is filled all the same
  (deep_main.c:126-128).
- A division tests its divisor for zero only (deep_interp.c:45-48): the smallest
  number by -1 ends the process.
- A second declaration of a signature under another name takes the number of the
  first and its name away, so that the types after it are numbered otherwise than
  written; an unknown type in a function is the signature it spells out, or the
  empty one (deep_wat.c:983-1025). Parameters that only the type names are not
  counted when local names are resolved (1425-1437). Programs of the passing run
  therefore declare each signature once and spell parameters out.
- An imported table's minimum is read only where no name stands before it
  (deep_wat.c:1190).
- The label of a folded if is in scope in its condition, which is emitted before
  the if: a branch from there is one construct off (deep_wat.c:611-613). No
  condition of the passing run branches.
- A semicolon that begins no comment makes `tokenize` endless (deep_wat.c:247);
  a backslash as the last character of a text is read past its end (192); lists
  that are not closed are accepted, and so is anything behind the first expression.

## 5. Proofs

| Module | Theorem | States, for every instance |
|---|---|---|
| PoolProofs | TypeCorrect, Safety, LayoutKept, Refinement | `TypeOK`, `LiveBlocksApart`, `Layout`, `KeepsPromise` of `Pool` |
| LoaderProofs | ListIsReleased | `ListReleased`, the first part of `FreedOnce` |
| DriverProofs | FreedOnceAlways, NothingLostAlways | `FreedOnce`, `NothingLost` |
| DriverProofs | NamesResolveAlways, LabelsInStepAlways | `NamesResolve`; `LabelsInStep`, for bodies without the cases named below |
| InterpProofs | FramesAgreeAlways, ControlStackEmptiedAlways, CallersLocalsKeptAlways, ObjectsAccountedAlways | the properties of these names |
| ValidCodeProofs | TypeCorrect, JumpStaysInFunctionAlways, Refinement | `TypeOK`, `JumpStaysInFunction` and `ImplementsControlFlow` of `Interp`, for valid code |
| BlockScanProofs | InStepAlways, StopsAtTheEndAlways | `InStep`, `StopsAtTheEnd` |
| LebProofs | ReadsWhatWasWrittenAlways, StopsAtOverlongAlways, AlwaysFitsAlways | the properties of these names |

### What they share

`Foundations` has induction over the natural numbers with a set in the place of
the predicate (`SetInduction`, `InductionUpTo`; the library's own theorems take an
operator as a parameter, which the provers cannot instantiate), what Append,
SubSeq, `\o` and EXCEPT do to a sequence of whatever elements, and recursive
functions: sums (`IsSum`), that a recursion over 0..n has a value (`Recursion`),
and that two functions which start and go on alike are equal (`Agree`). With these,
operators that are defined by a recursive function (`Leb!Left`, `Leb!Bits`,
`LebValue`, `HeldBy`, `Depth`) can be reasoned about.

### Pool

From `PoolAssumption` alone (natural sizes, a pool that is not empty of address
space). `Whole` is the pool before any damage: types, `Regions`, blocks in use that
share nothing (`NoOverlap`), `BinsApart`. No part of it is inductive alone: that a
carved block overlaps nothing needs the regions, that a block returned to the
remainder leaves the regions in order needs that nothing lies between it and the
remainder (`TopmostSorted`), and that a block taken from a bin is apart from all
others needs `BinsApart`. `StepWhole` goes through the actions one by one and shows
that a call which leaves the pool undamaged leaves it whole. `CarveTears` is about the
one call that damages the pool and hands something out: from a whole pool, a carve
that fits exactly begins four bytes below the remainder, so that it lies over at most
the last four bytes of a sorted block and over nothing of a fast one. The inductive
invariant `IInv` is `TypeOK`, `LiveBlocksApart` and `ok => Whole`; every other damaging
call only takes back (`StepInvariant`).

`Safety` is therefore what the code does keep: blocks in use share no byte as long as
the pool is undamaged, and with the call that damages it no more than that word. That
no byte is ever handed out twice is false of the code. For `Refinement`, initial
states map to initial states; each allocation is an `Alloc` (its apartness is the
invariant's), each release a `Release`, a call that damages the pool a `BreakDown`,
which may hand out or take back, every other step stutters. Together with run
allocator_words (`ImplementsPool`, on its small pool) this carries the promise down to
the words.

### Loader and driver

`LoaderProofs` is about `Loader` for every content of the buffer; `LoadSpec` is
the loader alone, from any buffer and with anything but a node held. `LInv` says
how the nodes are linked (`Chained`: each to the next, the last to none, a single
one to itself) and which are held at each point (`Where`). A file of one section
never gets to the release: its node is its own successor, which is why that loop
needs no case for it.

For the other blocks, `HInv` relates what is held to what the module names at
each point of `deep_load`: every block named is held, and unless a section is
repeated (`Twice`) nothing else is. What makes it inductive is `Passed`: an array
that is filled names the node it was decoded from, which lies before the current
one, so that a decoder meets its array empty unless the section comes twice.
`DriverProofs` uses both through `Ld == INSTANCE LoaderProofs`: main's steps are
the loader's while `at` is "load", and between building and releasing the
environment `AllHeld` says that exactly the module's and the environment's blocks
are held. `DriverSizes` is the only assumption.

### Assembler

The second half of `DriverProofs` is about the emission of bodies, for every
program over any S-expressions (`WrittenInForms` is the only assumption). That
`emit_seq`, `emit_folded` and `emit_expr` share a label stack and an output, each
leaving half-done work to its callers, is what makes `LabelsInStep` hard; the
invariant `AsmInv` therefore relates four things.

- What is left to do and the labels. An item that closes a construct takes a label
  away; `Heights` gives every item of `work` how many labels there are when its
  turn comes, and `Stack` says that the labels there now are those of the first.
- The labels and the output. `Outline` lists the constructs the emitted code has
  open, in order, by counting from each of them what opens and what ends behind
  it. `Match` says that they are the labels but the function's own, with their names
  as notes, except for ifs whose condition is being emitted: their label is there
  and their opening is still an item (`Awaited`).
- The output by itself. Every name a branch was given leads over constructs of
  other names to one of that name (`AllResolving`), every other name to the first
  entry of its table (`CodeOK`). What stands before an instruction does not depend
  on what is appended behind it.
- The items. Each is one of those the actions put there, over forms of the program
  (`AllOK`).

Every action of `EmitBody` has a lemma (`FlatEndsKeeps`, `FoldedIfKeeps`,
`PutTableKeeps`, ...), which only says which items it takes and puts and whether a
label goes with them; the counting is done once for each kind of exchange
(`BodyPlain`, `BodyOpen`, `BodyIf`, `BodyEnd` and their like). The parameter `ok` of
`AsmInv` leaves the second and third part away: `NamesResolve` needs neither
of them, and holds for every program.

`LabelsInStepAlways` is `Spec /\ []WellWritten => []LabelsInStep`. `WellWritten`
excludes two things. A branch in the condition of a folded if is numbered wrongly:
the label of the if is in scope too early (deep_wat.c:611, see above), and the same
condition written flat gets another number. And an operand without parentheses
that is a construct, a branch or `end`, or a list that begins with `end`, is not
something the text format has; `emit_expr` and `emit_folded` write its opcode all
the same and leave the label stack alone. TLC finds `WellWritten` invariant for the
programs of run assemble_and_run, all that the assembler refuses among them.

### Interpreter

`InterpProofs` needs nothing of the code it runs: no validity, no nesting, no
bound but `Parameters`. Every step is of one of five kinds (`StepKind`): it
`Stays` in its activation, `Opens` one, `Closes` one, `Ends` main or `Stops` the
program, and a lemma per action shows which. The invariant `RunInv` says that
there is one frame per activation, that the local variables a frame names are
those of the innermost function at its depth (`Owner`), that a function's frame
names the one below it as its predecessor, and that main, or main and the start
function, are at the bottom. `prev` has to be in it because `LeaveFunction`
restores the local variables from it; `Owner` for all depths because `LeaveBlock`
restores them from whatever frame comes up. `FramesAgree`, `ControlStackEmptied`
and the action property `CallersLocalsKept` follow; `ObjectsAccounted` is a second
invariant on top of it, a sum over the frames that every kind of step changes at
its end only.

`ValidCodeProofs` assumes what validation of a module's code ensures without
counting operands (`Valid`): that the locals, globals, functions and labels an
instruction names exist, also the label `br_table` reads behind its table, that
the numbers in it end, and that main and the start function are the module's own.
It says so of the `Places` where the interpreter may be: function, address, labels
around it, end of its construct. They may be any set that contains where functions
begin and is closed under what instructions do next, so that nothing is assumed
about how they are found. Where a construct ends is left to `read_block`, also
where that is not where the format ends it. The invariant `VInv` is `FInv` and
`ObjectsAccounted` with three more parts: `Typed`; `Placed`, that each activation
stands at a place of its function and depth, begins again at one and gives way to
one of the activation below, and that a pending jump leaves no more activations
than the function has labels (`JumpBounded`); and `Counted`. A jump has to be
bounded while it unwinds, since the label it was checked against is that of an
activation already left, and the places of the waiting activations are what is
known of those that then go on. There is a lemma per action, on top of one each
for a step that stays (`GoesOnKeeps`), opens (`OpenedKeeps`) or closes an
activation (`ClosedKeeps`).

For `Refinement` more has to be known of the code, `Meant`: at each place the
bounds `read_block` finds are those of the construct (what `BlockScanProofs` shows
of blocks without float constants); an if has an else, and something in its then
branch; an else is the last instruction of its then branch, and neither a function
nor another construct ends behind one; a table's byte that is read is one of its
labels. The runs lone_if and table_default are what happens without, and TLC
evaluates `Meant` for the modules of control_flow and values_and_calls. `NestedInv`
is what then holds of the activations: only a then branch ends behind an else and
goes on past it, none of the waiting ones stands there, and one that has ended by
itself stands at its end. TLC finds it invariant in both runs.

The mapping makes one label of each activation that is not being left and one
address of where the interpreter has arrived, or where a pending jump leads. A
branch therefore is one step of `ControlFlow`, taken when `jump_depth` is set, and
the unwinding behind it (`Unwind`, `FallOff`, `Repeat` and the leaving of the
constructs passed) stutters; leaving a construct that ended by itself is a `Leave`,
and what stops the program a `Trap`. There is a lemma per action again
(`PlainRefines` to `LeaveFunctionRefines`).

The theorem is conditional, `Spec /\ []Ample => ImplementsControlFlow`.
`ControlFlow` knows no operand stack that overflows, where `exec_instructions`
returns as at an end (and a loop begins again), and no heap that cannot take a
call's frame, where `call_function` returns and the call is skipped. `Ample` says
that neither is met: TLC finds it invariant in run control_flow, and violated in
values_and_calls, whose heap of nine blocks is small for that reason.

### Block scanner

`BlockScanProofs` assumes of the blocks (`InFormat`) that they are made of
instructions as the binary format has them, with any immediates, of any length
up to `MaxLength` instructions, which may be any number, and (`Shallow`) that no
construct lies 256 deep, where the `uint8_t` bracket count wraps. Float constants
are excluded, since for them the statement is false (run scan_floats, which is
why that run's module does not extend the proofs). TLC evaluates both assumptions
for the blocks of run block_scan. The invariant (`ScanInv`) is that the scan
stands at the address of some instruction with the bracket count of the nesting
there; its step is that each arm of `read_block`'s table of immediates moves from
an instruction to the next, for which the arms have to be disjoint (`Kinds`) and
a LEB number has to end where the format ends it.

### Numbers

`LebProofs` assumes `LebSizes`: the bytes a reader looks at are just enough for
the width. A number is what is left after k rounds times `Base`^k and the groups
put so far (`Groupwise`), and a reader sums up exactly the lowest bits (`BitsAre`).
That a signed number comes back is a case distinction on whether its last group
ends below the width, where the sign is extended, or reaches it, where the bits
beyond are shifted out (`Signed`); a number filled up with its sign is the number
cut into more groups (`PaddedEncodes`), and the loop of a writer stops at the
latest after `Groups` rounds (`Enough`). The invariant of the stream says where
each number lies (`Numbers`) and that the reader stands at the next one or, for
good, at the first that is damaged (`Reading`).

### Only model-checked

- Everything about `DeepMem`: its invariants and `ImplementsPool` hold on the
  checked pool, up to and with the first call that damages it.
- Of `Interp`: `OuterOperandsKept` and `ReturnsOne`, which need how high the operand
  stack is at each place.
- Of `Driver`: `CrashIsAnnounced`, `LocalsCovered`, `TableFilled` and
  `LoadsAsWritten`, which depend on what the decoders read of a given file.
- Of the assembler: `ReadsTheText` and `ScannerAgrees`, which compare two readers of
  the same characters or bytes, and `FoldedAsFlat`, a recursion over expressions.
- Liveness (`AlwaysEnds`, `AlwaysAnswers`, `EveryCallEnds`), which is out of the
  prover's reach, and `ReadBlock`, the scan as one function.

## 6. Not modelled

- The results of arithmetic, comparisons, conversions and loads (any word), and
  the bytes of linear memory: control flow and frames do not depend on how they
  are computed. The division traps are kept.
- Allocation failures in the loader, whose own blocks for a file of 1024 bytes are a
  small part of the pool, and in main except for the linear memory and the function
  table. How large a table is served is one number (`ServedSlots`), where in the
  code it depends on what the module already takes; the files ask for tables far on
  either side of it. Vectors that run on behind the end of a file. Modules of
  `Interp` are given, well-formed, as the loader delivers them.
- A block that decoders and `module_free` both forgot: `Loader` has one definition of
  the blocks of an item for both sides (`Blocks`), so that the properties see a kind
  of item, a section or an order forgotten by one side, not a block inside an item.
- Offsets of data segments that are negative: the assembler writes them as signed
  numbers and the loader reads them as unsigned ones, and the programs here have none.
- What an allocator does behind the call that damaged it.
- The reading of main's arguments, and files that cannot be opened or written.
- Of deep_wat.c: the named and numeric escapes in strings, the spellings of number
  literals (a numeral stands for its value), how the S-expression of a form is
  taken apart, and the memory of the assembler, which is released on some of its
  paths and otherwise left to the end of the process.
- Logging, version and opcode names: output only.
- deep_free of a block that is already free: no caller does it.
- The unsequenced `ip += read_leb_u32(&ip) + 1` of read_block (deep_interp.c:258)
  is taken as the build in use evaluates it, with the advanced `ip`.
