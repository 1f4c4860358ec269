# TLA+ specification of neo-recomp

neo-recomp translates Neo Geo 68000 program ROMs into C (`recompiler/`), and
runs the result over a small Neo Geo runtime (`runtime/`) inside host programs
(`tools/`). These modules specify the parts of it where steps of several parts
meet, check them with TLC on small instances, and prove the main invariants
with TLAPS for every instance.

## 1. The system

| Component | State | Operations | Works with |
|---|---|---|---|
| ROM image, `recompiler/src/p_rom.c`, `neogeo_map.c` | bytes, fixed and switchable bank windows | load, add bank, translate, read | everything in the recompiler |
| Decoder, validator, cycle table, `m68k_decode.c`, `m68k_validate.c`, `m68k_cycles.c` | none | opcode to instruction record, accept or reject, base cycles | discovery, emitter |
| Analyzer, `m68k_analyze.c` | none | direct targets, jump tables of one function | discovery |
| Function discovery, `function_discovery.c` | candidate list with bank and flags, limit, table marks | seed, add, scan a candidate, close the work list | ROM, analyzer, audit, emitter |
| Dispatch audit, `dispatch_audit.c` | list of sites, counts, gap flag | scan, record, build | discovery |
| Game configuration, `game_config.c` | parsed settings and address lists | parse, validate | main, discovery |
| C emitter, `c_emitter.c` | none; the emitted code has dispatch state, registers and status | function bodies, C of each instruction, exception helpers, dispatch tables, shards | runtime (through the generated-code ABI) |
| Runtime, `runtime/src/neogeo_runtime.c` | 68000 registers, memories, interrupt lines, LSPC timer, watchdog, clocks, latches, sound command queue | bus reads and writes, advance clocks, take interrupt or reset, save, load | generated code, host |
| Sound CPU, `neogeo_audio.c`, `neogeo_ym2610.cpp` | Z80, command and reply latches, NMI, banks, YM2610 | command, advance cycles, ports, save, load | live host; Z80 and YM cores are vendored |
| Video, `neogeo_video.c` | none (reads VRAM) | sprite list, fix layer, frame | hosts |
| Smoke harness, `tools/generated_smoke_harness.c` | trampoline, dispatch budget, instruction yield, statistics | dispatch, cart/BIOS routing, hooks, save, load | generated code, live host |
| Live host, `tools/sdl_live_host.c` | audio pacing, input, save files, refresh loop | slices, audio sync, save, load, keys | harness, runtime, sound CPU, SDL |
| Off-line tools and scripts | none | render a snapshot, probe audio, mine traces | files |

Everything runs on one thread. What is hard is not parallelism but *order*:
the generated code calls into the runtime at every instruction boundary, the
runtime advances three clocks that raise interrupts, the interrupt code
redirects the generated code, and the host's cycle observer runs in the middle
of it and drains a queue that bus writes fill. The behaviours that tests hardly
reach are an instruction whose cycles cross several scanlines, a timer that
expires several times in one, counters that wrap, a queue at its capacity,
several commands in one instruction while Z80 time is on loan, a traced
instruction that traps, a register that both operands of one instruction step,
a device register reached through half a word or half a long, and save and load
between any two instructions.

What makes each part correct:

* clocks: cycles, scanlines and frames never drift apart;
* interrupts: the stored line always shows the pending sources, none is lost,
  and none is taken below the mask;
* watchdog: a reset is pending exactly when the timeout has run out, and a
  program that stops kicking is reset;
* timer: the loop over its expiries does what one subtraction modulo the reload
  value would;
* bus: every access of every width, through every mirror and bank, does what
  the word cycles of the board do, a save brings all of it back, and the counts
  kept beside the palette stay true to it;
* sound queue: first in, first out, each once, oldest dropped on overflow;
* audio pacing: Z80 cycles and samples are conserved, and a command reaches the
  Z80 at the cycle it was written at;
* sound CPU: every command raises an NMI that reads it, and no interrupt enters
  a handler that nothing asked for;
* save files: a load that is accepted restores one save, whole, and never
  leaves the 68000 and the sound CPU at different moments;
* discovery: the candidate list is closed under the program's static flow,
  holds nothing else and names each place once;
* audit: its second walk over the code sees every call and jump once, and
  reports exactly the missing targets;
* instruction reading: the decoder knows the MC68000's instructions and no
  others, in the length they have, and the validator agrees with it;
* instructions: the C printed for each reads, steps and writes what the MC68000
  does, once each and in its order, computes its result and condition codes,
  and charges its time;
* generated code: the emitted functions and their dispatcher execute the
  program's instructions in an order a 68000 could, keep its two stacks through
  every exception, and give up only at a computed target that discovery could
  not know.

## 2. The modules

| Module | What it is | Code |
|---|---|---|
| `NeoRuntime` | operators: interrupt controller, LSPC timer, watchdog | `neogeo_runtime.c` (244-378, 770-792, 1003-1236, 1981-2021) |
| `NeoMachine` | the state machine of one instruction boundary after another | `neogeo_runtime.c`, `c_emitter.c` (poll and reset order), `generated_smoke_harness.c` (hook, yield) |
| `MCNeoMachine` | definitions of its instances | |
| `NeoMachineProofs` | theorems about it | |
| `NeoBoard` | abstract: the board behind a 16-bit bus, its memories, latch chip and registers | |
| `NeoBus`, `MCNeoBus` | the bus functions, extends `SoundQueue`; `ImplementsBoard` | `neogeo_runtime.c` (244-325, 495-821, 1030-1122, 1669-1917) |
| `NeoBusProofs` | theorems: the ring implements the queue, and the bus drives the ring | |
| `SoundFifo` | abstract: a bounded queue that drops its oldest | |
| `SoundQueue` | the ring of sound command events, `ImplementsFifo` | `neogeo_runtime.c` |
| `LiveAudio` | cycle observer, drain, borrowed Z80 time, samples, save and load | `sdl_live_host.c`, `neogeo_audio.c` (advance) |
| `LiveAudioProofs` | theorems about it | |
| `SoundCpu` | command latch, NMI gate, YM2610 interrupt | `neogeo_audio.c` |
| `SoundCpuProofs` | theorems about it | |
| `SaveFile`, `MCSaveFile` | the chunked save file and its loaders | `generated_smoke_harness.c`, `sdl_live_host.c`, `neogeo_audio.c`, `neogeo_runtime.c` |
| `SaveFileProofs` | theorems about it | |
| `ProgramRom` | the program as discovery reads it: windows, banks, instructions | `p_rom.c`, `neogeo_map.c`, decoder results |
| `FunctionDiscovery`, `MCDiscovery` | candidate list, work list, scanning, script pass | `function_discovery.c` |
| `DispatchAudit` | the audit that walks a finished list, extends `FunctionDiscovery` | `dispatch_audit.c` |
| `DiscoveryProofs` | theorems about discovery and the audit | |
| `M68kDecode` | operators: one per case of the decoder, in its order | `m68k_decode.c` |
| `M68kValidate` | operators: one per validator | `m68k_validate.c` |
| `M68kOpcodeMap` | reference: the MC68000's opcode map as a table of encodings | |
| `M68kEmit` | operators: what the C printed for an instruction reads, steps and writes | `c_emitter.c` (`emit_instr`) |
| `M68kOperands` | reference: operands as the manual has them, one rule for all instructions | |
| `M68kCycles` | operators: the cycle table | `m68k_cycles.c` |
| `M68kTiming` | reference: execution times as sums of the manual's parts | |
| `InstructionReader`, `MCReader` | one instruction: decode, validate, accept or refuse, emit | `function_discovery.c`, `c_emitter.c` |
| `M68kAlu`, `M68kShift` | operators: arithmetic, logic, shifts, bits, decimal, multiply, divide in the printed C | `c_emitter.c` |
| `ArithmeticUnit` | instructions one behind the other on registers, and their reference | `c_emitter.c` |
| `M68kAluProofs` | theorems about the sums and compares, and about `ArithmeticUnit`, at every width | |
| `M68kStatus` | operators: mode, tracing, stacked words | `c_emitter.c` (prelude) |
| `M68kFlow` | abstract: the order in which a 68000 executes a program, with modes, traces, exceptions and two stacks | |
| `GeneratedCode`, `MCGenerated` | function bodies, dispatch cases, shards, dispatch loop, exceptions, trace, stack pointers | `c_emitter.c`, `generated_smoke_harness.c` |
| `GeneratedProofs` | theorems about the generated code, extends `DiscoveryProofs` | |

`NeoMachine` and `NeoBus` are two views of the same runtime: the first has the
clocks and interrupts, the second the memories, registers and the sound queue
that a write fills; a write that reaches the clocks leaves `NeoBus` as a signal.
`LiveAudio` composes the queue with the clock and with the host that drains it.
`GeneratedCode` and `DispatchAudit` extend `FunctionDiscovery`, so that they work
on a list that discovery really built; `GeneratedCode` instantiates `M68kFlow`
with the program.

### How state and actions correspond to the code

* `NeoMachine`. `irq`, `timer`, `dog` are the file-scope records of the runtime;
  `scanline`, `frame_count`, `cpu_cycles`, `scanline_cycle`, `active`, `polls`
  are its counters of the same names; `latches`, `mask`, `stop` are the 68000
  state the boundary reads. `phase` is the place in the code: a boundary
  (`take_interrupt` not yet called), the timer loop inside a scanline, the tail
  of the poll, the acceptance of an interrupt, the cycle loop of the hook, and
  the instruction itself. A step of the timer loop is an action, so the
  interleaving of timer, scanline and vertical blank is in the model and not in
  an operator. `Embedder` stands for three calls, which can come at any
  boundary: `ng_m68k_set_interrupt_level`, `ng_neogeo_request_reset_interrupt`
  and a yield. `ng_neogeo_advance_frame` and the other calls that move the
  clocks directly are made by tests only and are no actions.
* `SoundQueue`. `slots`, `head`, `tail`, `count`, `overflows` and their saved
  copies are the ring's C variables. The refinement maps the slots from `head`,
  taken `count` times modulo the capacity, to the abstract sequence.
* `NeoBus`. `bus` has the runtime's variables by their names; memories are
  functions on the offsets a program uses, addresses are the real ones with all
  their mirrors. `signals` is what the last call sends to the clocks and the
  queue. A 32-bit access is two steps, `rest` the second. A byte that is read is
  tagged with its source (ROM offset, memory, input port). `NeoBoard` has
  instead one word memory, the eight outputs of the latch chip and a register
  file, decodes by address lines, and counts the palette from its contents.
* `LiveAudio`. `cpu_cycles` is the runtime's 68000 clock, `fifo` the queue of
  `SoundFifo`, `host` the record `NgLiveAudio` (its clock, remainder, Z80 time
  lent to a command's service, samples made), `z80` the Z80's own time, `sending`
  the event that was popped and not yet delivered. One action per call: an
  instruction with or without a sound write, the observer's sync, the host's
  sync at the end of a slice, the diagnostic command, save, load. `session` is
  how far `main` has got: samples are made at `NG_LIVE_AUDIO_SAMPLE_RATE` during
  the fast-forward and when the host stays silent, at the device's own rate once
  `OpenDevice` has opened it, and a `NewSession` may load what an earlier one
  saved at the other rate. `host.hosted` is a history: how much of the time
  reached was made into samples at the first rate.
* `SoundCpu`. What the Z80 core does with its interrupt inputs and with DI, EI,
  RETN and RETI is translated from `third_party/superzazu/z80.c`. The latch holds a command or not, `pending` (`nmi_pending`) is the
  board's request, `cpu.nmi` the Z80 core's. `frames` is the stack of handlers the Z80
  program is in; the program may do in them whatever the ports allow.
* `SaveFile`. A file is a sequence of chunks with a tag, a length and the moment
  its block was taken; a machine is a record of the moment of each part. Writing
  is one action per `fwrite`, so a failure or a crash can leave any prefix;
  reading is one action per block that is assigned.
* `FunctionDiscovery`. `list` is the candidate array in its order, `cursor` the
  work-list index, `scan` the loop of the scan of one candidate, `todo` the
  calls to `ng_function_discovery_add` still to be made by the step that is
  running. An instruction's `pointers` hold an address for each bank: a dispatch
  through a register that was loaded from a pointer is followed in the bank of
  the scan, and in every configured bank, in the order of the C loop, when the
  scan started in the fixed region (`BankEntries`). Three JMPs of one length in a
  row are a table of JMPs (`RepeatedDirect`), whose members are all entries. A
  pointer that lies in the fixed region itself is followed in the bank of the scan
  only, and is one of the instruction's table. A known target in the fixed region
  is added once in the code and once per bank in the model, where the repetitions
  change nothing.
* `DispatchAudit`. `audit` is the C record, `seen` its list of places, `walk` the
  loop of `audit_scan_from`. The first of three JMPs in a row is recorded as a
  table, as in the code: its members are looked up, its own target is not.
  Whether a computed transfer is recognised as a table or allowed by the
  configuration is a free choice.
* `InstructionReader`. `word` is the opcode, `room` the bytes mapped from its
  address on, `instr` the record, `verdict` how far the calls have got, `code`
  the steps of the printed C (reads, register steps, writes, as terms over the
  registers and memory before the instruction), `cycles` what its hook is given.
  A field that is filled from an extension word holds the offset the word was
  read at instead of its value, so that a record says *where* everything came
  from. Cases of the decoder that repeat an earlier one (1064-1088, 1415-1515,
  1573-1581, 1823-1874) cannot be reached and are left out.
* `ArithmeticUnit`. Registers of 4 * `ByteBits` bits, condition codes, and the
  trap that a division or CHK takes; an action per instruction, at each size.
  The operators work at any width, given by the sign bit's weight.
* `GeneratedCode`. `exec` is where the C code is: in a function body at an
  instruction, in the dispatcher with a target, stopped, with the host, or out.
  `m68k` is `g_ng_m68k` with the memory of the two stacks: `a7`, `usp`, `ssp`,
  mode and trace bits, and words that say what was pushed. Bodies, labels and
  cases are operators over the finished list, as the emitter's functions compute
  them. TRAPV, CHK, DIVU and DIVS are one kind of instruction, `check`, that
  traps or goes on, through one vector. An RTS takes what a call or an exception
  pushed: a dispatch by pushing an address and returning to it is outside the
  model.

## 3. The runs

| Run | Shows | Instance |
|---|---|---|
| `clocks` | cycles, scanlines and frames agree; the timer loop equals its closed form; every hook returns (`BoundaryRecurs`) | 5 pixels and 4 cycles a line, 2 lines a frame; instructions of 3, 4 and 9 cycles: short of a line, exactly one, over two; reload values on both sides of a line; scanlines by poll until cycle timing starts; 17 cycles, 3 frames |
| `watchdog` | line = pending sources, reset pending = timeout over, no interrupt lost, none nested below the mask; the watchdog bites while its clock runs, and a vertical blank is delivered unless the host holds the line by hand | timeouts of 3 polls and 4 cycles, poll counter modulo 5, so that it wraps with the timeout pending; instructions of 0, 2 and 7 cycles; host levels 0, 2, 7 |
| `bus` | `NeoBus` implements `NeoBoard`; the ring is consistent and refines the queue | bytes of 2 values, 4 words of VRAM, queue of 3 commands; 12 programs of up to 6 accesses, each with the ports of one device, mirrors of them and the latches that matter to it; saves, loads and resets between any two |
| `live_audio` | conservation of Z80 time and samples, order and exactness of stamps, catching up | 2 samples to 5 cycles before the device opens and 3 after; capacity 2, overshoot 1, 6 cycles, 3 commands; sessions that open the device, stay silent, or load an earlier one's file |
| `sound_cpu` | a command is owed an NMI until it is read, it is heard, nothing spurious | three nested handlers |
| `second_write` | *violation*: a second NMI before the first read | the same |
| `save_file` | accepted loads are one save, the complete file restores, the sound CPU is in step | 4 builds with different blocks, 2 saves, 2 moments |
| `discovery` | closed with its entries marked, nothing invented, nothing twice, terminates; the audit is exact | all 11^4 programs of four instructions; programs with 2 fixed and 2 window addresses in 2 banks, with calls out of the ROM, pointers into either bank and rows of JMPs (at most 3 are followed); scan limit 2, at most 5 candidates |
| `reader` | every opcode has its MC68000 meaning, known and complete instructions are accepted and no others, extension words are read once each, a record with one wrong field is refused, the printed C handles the operands as the manual does and charges its time | all 65536 opcodes, 2 or 10 bytes left in the ROM, register lists with and without the address register |
| `arithmetic` | results, condition codes and traps of every data instruction; compare and branch | all operands of bytes of 2 bits, words of 4 and the long pairs of chained ADDX, SUBX, ABCD and the like; shift counts 0 to 66 around the widths; decimal bytes at the edges; only V of SUBX and NEGX on the greatest signed number with X set is excepted |
| `generated` | the emitted code follows `M68kFlow`, misses only computed targets, shards agree | 4 instructions and 2 handlers, 1 user and 4 supervisor words of stack, 2 functions a shard; programs with code of two banks at one address |
| `long_body` | *violation*: a body longer than the limit | ten instructions in a row, limit 3 |

### Why these bounds are enough

Every loop of the runtime is exercised zero, one and several times in one step:
an instruction of 9 cycles crosses two 4-cycle scanlines, a timer of 5 pixels a
line expires several times in one, the poll counter wraps with the timeout
pending, the ring wraps with every fill level, a save is taken at every fill
level and loaded over every other. On the bus, devices do not read each other's
state apart from the latches that each program includes, so one device at a time
and a bound of a few accesses reach every pair of them; the addresses are chosen
on both sides of every comparison of the decoder. The counters do not otherwise influence what
happens, which the theorems of section 5 make precise by proving the invariants
for every value. In discovery the interesting cases are the relation of two
addresses (behind or ahead of the cursor, inside or outside a body, in one or
another bank) and four addresses suffice for all of them; the scan limit is
smaller than the program so that continuation roots occur. A save file has one
chunk of each kind, and two moments are enough to tell a mixed machine from a
restored one. The decoder looks at the opcode only, apart from copying extension
words, and the run has all opcodes; no instruction is longer than 10 bytes. The
arithmetic is the same text at each width, and at two bits every combination of
sign, carry and overflow occurs; section 5 has sums and compares for all widths.

### Fairness

The program is one thread. `NeoMachine` assumes weak fairness of the program
and the runtime together (`Instruction \/ Runtime \/ Yield`): the generated
code never waits for anything, so the process that runs it makes a step as long
as one exists. Nothing is assumed of the embedder. `LiveAudio` assumes that the
observer, which is called from the cycle hook of every instruction, runs
(`WF(Sync)`), that the program or the host goes on, and that `main`, which does
not wait for anyone before it opens the device, gets there. Discovery is a loop, weak
fairness of its next step says only that the process is scheduled. `SoundCpu`
needs strong fairness, of the sound *program*: it opens its NMI gate again and
again and its handlers read the latch and return, which is the contract of a
Neo Geo sound driver and not something this code could enforce.
The other modules are checked for safety only.

## 4. Findings

* **Bodies at the emission limit** (`long_body`). `emit_function_body` stops
  after `NG_EMIT_MAX_INSTRUCTIONS` and does not dispatch to the next address.
  What follows in the C text is the first out-of-block label, so that the branch
  is taken that was not, or `ng_log_dispatch_miss`. Discovery recorded a
  continuation root for that address and `docs/recompiler_discovery_passes_plan.md`
  line 103 says that it is used. The `generated` run is stated for bodies within
  the limit.
* **Second sound command** (`second_write`). `tests/test_neogeo_audio.c` line
  258 says that a second write before the Z80 reads the latch still produces
  one NMI. That holds when both writes precede the NMI, which is what the test
  does; between the NMI and the read, the second write makes a second NMI
  nested in the first, and the same command is read twice.

Other observations, which no property contradicts because the code says the
same, or because the reference leaves them open:

* Save files: a file is opened with `"wb"`, so the previous save is gone before
  the new one is written; F8 goes on running after a refused load, with the parts
  loaded so far (`MachineInStep` says exactly how mixed it can be), while
  `--load-state` exits; a missing host or audio chunk is accepted.
* Dispatch is by address only: of two banks' functions at one address the first
  found is run. `generated` has such programs with the selected bank found
  first; found second, it would never run. The plan document names dispatch by
  bank register as future work.
* Bus: a long write to `$320000` queues two commands, its two words. A watchdog
  reset clears the vector and backup latches only, and gives the vectors to the
  cartridge, where the board clears the whole latch chip and gives them to the
  BIOS; `NeoBoard` follows the code. `ng_service_reset` in user mode does not
  save A7 to USP, where the 68000 keeps both stack pointers; `M68kFlow`'s `Reset`
  lets a program in user mode lose its own.
* Operands: `ANDI.B #,d16(An)` and its like take their flags from a second read
  of memory; MOVE of an address register that its destination steps sets N and Z
  from the stepped register; LINK A7 pushes A7 before it is stepped; CLR, Scc and
  MOVE SR to memory do without the hardware's read. `InstructionReader` names the
  first three as exceptions (`Departs`, `CodesDepart`); the last are what
  `M68kOperands` expects, as no result depends on that read.
* Exceptions: ILLEGAL and the lines A and F stack the next address, which
  `tests/test_generated_exec.c` line 2979 expects, and the 68000 does not; `M68kFlow` follows the code.
* Arithmetic: V of SUBX and NEGX is computed from the operand with X added in,
  and is wrong where X is set and that operand is the greatest signed number: 0 -
  $7F - 1 as a byte sets it. The test's oracle (line 1918) has the same formula.
  `OverflowSlips` is exactly this case and `Defined` excepts V there and nowhere
  else; `ArithmeticExact` compares every other code of every other operand.
* The audit does not ask for the target of the first of three JMPs in a row, so
  that `--fail-on-dispatch-gaps` passes when only that one is missing;
  `AuditExact` says so.
* MOVEP: the bytes of one read are joined in one C expression
  (`c_emitter.c` 926, 929), whose order the compiler chooses; `M68kEmit` has them
  ascending.
* Times: RESET has a row of 0 cycles and is charged the default 4, 132 in the
  manual; ADDQ.W to an address register 4 and SUBQ.W 8 (`ChargedShort`); what a shift, MOVEM,
  multiply or divide takes beyond its base is never charged.

## 5. The proofs

All theorems hold for every value of the constants that the named `ASSUME`s
allow, which are the ranges of the C definitions and no more.

* `NeoMachineProofs`. `TypeCorrect` first, which no run repeats. `WatchdogExact`
  is not inductive: in the middle of the cycle loop the clock has advanced and
  the watchdog has not been asked yet. `WatchdogInv` adds what is true there (no
  reset pending yet, or the timeout over), per phase. `LineCorrect` needs that
  only `Refresh` and the embedder write the line. `ClockCorrect` proves
  `cpu_cycles` = whole scanlines plus `scanline_cycle` from the start of cycle
  timing, through the split of an instruction over scanlines. `TimerCorrect`: the
  loop's invariant `TimerInv` says that the ticks consumed since the last reload
  plus those left are the ticks past the first zero, *modulo the period*; the
  closed form is that equation when none are left. `InterruptsKept` and
  `FramesDoNotNest` are about single steps: the first needs types only, the
  second that the level between `take_interrupt` and the frame is above the mask
  or a used-up edge (`TakenInv`), as nothing touches mask or line in between.
* `NeoBusProofs`. `RingCorrect`: `head` = (`tail` + `count`) modulo the
  capacity, for the ring and its saved copy. `RingImplementsFifo`: every step of
  the ring is a step of `SoundFifo` under the mapping; the lemmas are about
  indices modulo the capacity and the sequence of the occupied slots.
  `BusDrivesQueue`: every step of the bus, for every program, memory and byte
  size, is a step or a stutter of `SoundQueue`; the lemmas split the accesses
  into those that write, read, or do both halves of a word. The ring's two
  theorems then hold behind the bus (`BusRing`, `BusFifo`).
* `M68kAluProofs`. For every width: ADD and SUB leave the sum and difference cut
  to the width with C and V as the unsigned and signed results require, ADDX the
  same with X added and Z only cleared, and after a compare every condition of
  `ng_condition_expr` holds exactly for the relation it is named for. The step is
  from the sign-bit formulas of the C to inequalities between numbers
  (`SumExact`, `DifferenceExact`). `ExtendedDifferenceOverflow` and
  `ExtendedNegationOverflow` show that V of SUBX and NEGX is right too, except
  exactly in the case of `OverflowSlips`.
  `ArithmeticIsExact` and `BranchesOrder` are `ArithmeticExact` and
  `ConditionsOrder` of `ArithmeticUnit` for every `ByteBits`, shift count and
  operand; `Digits` may be any set of packed decimal bytes. The inductive
  invariant `Exactly` is where the program stands (`Place`: before the first
  instruction registers and codes are those of the start), what the first
  instruction left (`After`: the manual's value, codes and trap, and no other
  register changed), and `WideExact`. `After` is what makes the pairs provable:
  the high part's sum is exact only for the X and Z that the low part left.
  There is one lemma per action (`ArithmeticStep` to `CheckStep`), and one per
  kind of pair (`LongSum`, `LongShift`, `LongDecimal`, over `TwoParts`). The
  widths are symbolic, so 2^n is too: that it doubles is shown by counting
  subsets (`PowerCounts`), the rest by `DivMod` and its uniqueness. A shift's loop
  has a closed form per operation (`LeftShifts`, `RightArithmetic`,
  `RotatesThroughX`...), proved with `RoundsReach`, an induction written as the
  least round that leaves a set; beyond the operand's width `LeastRounds` says
  that more rounds change nothing. A logical result is the number with the
  joined bits because bits determine a number (`BitsDetermine`).
* `LiveAudioProofs`. One inductive invariant, `AudioInv` = types, `Timely`
  (stamps in order and not in the future, the advance bounded, the saved state
  taken at a boundary, the audio caught up) and `Conserved`. Conservation alone
  is not inductive: a command's loan is bounded only because stamps are ordered,
  and stamps survive a load only because the saved clock was at a boundary. The
  samples are those of two rates: frames and remainder make up `hosted` cycles
  at the host's rate and the others at the device's, in the running host and in
  the file, so that a session which goes on from a file at another rate starts
  exact.

* `SoundCpuProofs`. `CommandInv` = types and the two properties. `CommandOwed` is
  kept by the Z80's own steps only because a handler that returns has either
  read the latch or left its request; `NoSpuriousInterrupt` because the request
  is withdrawn with the flag. Both hold for every depth of nested handlers.
* `SaveFileProofs`. `SaveInv` has one part per actor. `FileInv`: the file is a
  prefix of what its save would write. `StepInv`: the running machine and the one
  that was saved are coherent as far as their history allows. `LoadInv`:
  what the loader has assigned so far, block by block, is the file's.
  `LoadedInv` and `RefusedInv` say how a load can end. `LoadsAreWhole` and
  `CompleteRestores` follow by comparing the chunks the loader demands with the
  prefixes there are: a file without its `SMOKE` block is never accepted.
* `DiscoveryProofs`. `DiscoveryCloses` rests on `DiscoveryInv`. Closure holds only
  at the end; `WorkInv` says where the rest is meanwhile: what a candidate leads
  to is listed, or among the additions still to make, or on the path of the scan
  in progress, or behind a root that is not scanned, or behind a row that the
  script pass has added. The hard case is a scan that stops at a candidate it
  meets, which may be a label in the path of another scan and no root.
  `DiscoveryInventsNothing` uses `ReachInv`: every set that contains the
  seeds and is closed under the instructions contains the list. That `Closure`,
  a recursive function that adds successors once per place, is such a set needs
  its fixed point, by the least counterexample (`LeastNat`) and the
  cardinality of the finite address space.
  `AuditIsExact` uses `LabelInv`, that every row lies on the path of a root within
  the scan limit, so that a walk from the roots meets them all; `WalkInv` says
  that the rows walked so far are seen, `ReportInv` that a site is recorded
  once and with the verdict of the finished list, and `AuditInv` that the counts
  are those of the sites. `AuditKeepsDiscovery` shows that the audit does not
  disturb what discovery established.

  `ProgramRom` and `FunctionDiscovery` state what these need of their constants:
  finite regions of natural addresses, instructions of length at least one, seeds
  in a bank there is (the parsers' results), and that the fixed region and the
  window do not touch. The last is a property of the configuration:
  `set_address_map` would take any two ranges, and every file under `games/` has
  the Neo Geo's, `$000000` and `$200000`.
* `GeneratedProofs`. `ShardsNameTheSameFunctions` needs no hypothesis: routes
  are counted into place (`RoutesSorted`), the invariant of the binary search is
  that everything below the window is smaller and everything above is not
  (`SearchFinds`), and no two routes share an address because only the first
  candidate of an address gets a case.

  The other two theorems are stated under `[]Translatable`, what the code takes
  for granted of a program it translates: once discovery is over, no body ends at
  the emission limit; the case of an address that control can be handed to is the
  one of the selected bank; vectors, static targets, instructions behind a call
  and return addresses decode. Without the first the statement is false
  (`long_body`), without the second the function of another bank runs (section
  4), and without the third the recompiler emits a dispatch to an address it has
  no function for. Every program of `MCGenerated` satisfies it in every state:
  TLC has checked `Translatable` and `FlowInv` as invariants of the run.

  `FlowInv` is the inductive invariant: while the program runs, the list is
  finished, the stack pointers are in their stacks, the C is inside a body of the
  selected bank at an instruction discovery listed, or has handed over to a
  listed address or one out of a computed transfer's table (`PlaceInv`); and
  every return address on a stack is listed, except in the frame of a traced
  computed transfer, below its status word, where only an RTE can take it off
  (`WordInv`). That exception is what makes the invariant hard: an RTS that could
  reach such a word would miss, and does not because the user's stack never holds
  a frame and a frame's status word lies above. `OnlyComputedTransfersMiss` then
  follows from `PlaceInv`. For `GeneratedCodeFollowsProgram`, the lemmas
  `MachinePush`, `MachineFrame`, `MachinePop` and `MachineSetSr` say what the
  helpers of the prelude, with their two saved stack pointers and one A7, do to
  the sequences of words of `M68kFlow`; `RetireFlow` ends an instruction, traced
  or not; `FlowStep` has one step per action.

Left to TLC, with the reason:

* `BoundaryRecurs`, `WatchdogBites`, `VblankDelivered`, `QueueDrained`,
  `Terminates`, `CommandHeard`: liveness under fairness, which the prover does
  not do.
* `ImplementsBoard`: its tally is a fold over the palette, its maps go between
  words and bytes; planned.
* `OpcodeMap`, `AcceptedIffKnown`, `WordsReadOnce`, `SlipsRefused`,
  `OperandsExact`, `TimesExact`: they range over 65536 opcode words, which TLC
  has exhausted.

## 6. Plan

Next, in this order:

1. The analyzer's two-instruction patterns and the table scanners of discovery
   (`m68k_analyze.c`, `function_discovery.c` 390-3200), which, but for rows of
   JMPs, are a free choice in `FunctionDiscovery` and `DispatchAudit` now.
2. The host's slices and the harness's routing of BIOS and cartridge code.
3. The sound CPU's banks and reply latch.
4. Theorems: `ImplementsBoard`, first for the registers and the memories that
   are no palette.

## 7. What is not modelled

Video: a pure function from memory to pixels, which a golden frame tests better
than a state machine. The off-line tools and scripts: they read files, print and
exit. The parsing of configurations: its results are constants of discovery. The
vendored YM2610 core, and the Z80's apart from how it takes interrupts: seen
through their interrupt lines and their clock. The values of extension words in the decoder (sign extension, the bits of
an index word), and its text formatter. Bank switching at run time, which the
runtime does not have. The functions that write one game's settings into work
and backup RAM, and the peak of the palette's count, which may show the state
between two bytes of one word. Counters and traces kept only for diagnosis.
