------------------------------- MODULE NeoBus -------------------------------
(***************************************************************************)
(* The 68000's bus in runtime/src/neogeo_runtime.c: ng68k_read8/16/32 and  *)
(* ng68k_write8/16/32 with the memories, latches and LSPC registers behind *)
(* them, composed with the sound command queue that a write may fill, and  *)
(* with save, load and the two resets.  Addresses are the real ones.       *)
(*                                                                         *)
(* What a write does to the timer, the watchdog and the interrupt lines is *)
(* NeoMachine's; here it is the signal the write sends there.  A byte that *)
(* is read is tagged with where it comes from: the contents of the ROMs    *)
(* and the inputs are not told apart.                                      *)
(***************************************************************************)
EXTENDS SoundQueue, TLC

CONSTANTS
  ByteSize,       \* 256, or less
  WorkOffsets, PaletteOffsets, BackupOffsets,  \* bytes in use of the memories
  PromSize, BiosSize,
  ReloadOnWrite,  \* NG_NEO_LSPCMODE_TIMER_RELOAD_ON_WRITE
  Programs        \* [ports, ops, limit]: the addresses a program uses, the widths of
                  \* its accesses and a bound on their number

ASSUME BusAssumption ==
  /\ ByteSize \in Nat \ {0, 1} /\ Events = 0..(ByteSize - 1)
  /\ ReloadOnWrite \in Nat \ {0} /\ PromSize \in Nat /\ BiosSize \in Nat

VARIABLES
  cycle,      \* history: the last event on the bus, [op, addr, d]
  bus,        \* the file-scope variables of the runtime, and the signals
  data,       \* the bytes of the last read, tagged
  rest,       \* the second half of a 32-bit access, if it is still to come
  saved_bus,  \* the bus in the save state
  program,    \* the program that runs
  accesses    \* its accesses so far

busVars == <<cycle, bus, data, rest, saved_bus, program, accesses>>
allVars == <<vars, busVars>>

Bytes == 0..(ByteSize - 1)
VramWords == ByteSize * ByteSize
Number(w) == w[1] * ByteSize + w[2]

\* ng_neogeo_reset_runtime
Fresh ==
  [work |-> [o \in WorkOffsets |-> 0],
   palette |-> [o \in PaletteOffsets \cup {o + \h2000 : o \in PaletteOffsets} |-> 0],
   backup |-> [o \in BackupOffsets |-> 0],
   vram |-> [a \in 0..(VramWords - 1) |-> <<0, 0>>],
   vram_addr |-> 0, vram_mod |-> <<0, 0>>, lspc_mode |-> <<0, 0>>,
   timer_high |-> <<0, 0>>, timer_low |-> <<0, 0>>, timer_stop |-> <<0, 0>>,
   shadow_enabled |-> 0, bios_vectors_enabled |-> 0, board_fix_enabled |-> 0,
   backup_ram_unlocked |-> 0, palette_bank |-> 0,
   nonzero_bytes |-> 0, checksum |-> 0,
   port_output |-> 0, sound_command |-> 0, status_a_reads |-> 0,
   signals |-> <<>>]

BusInit ==
  /\ Init
  /\ cycle = [op |-> "none", addr |-> 0, d |-> <<>>]
  /\ bus = Fresh /\ data = <<>> /\ rest = <<>> /\ saved_bus = Fresh
  /\ program \in Programs /\ accesses = 0

-----------------------------------------------------------------------------
(* The address decoder.  The masks keep address lines 17 to 23 and 0.      *)

Decodes(addr, reg) == addr \div \h20000 = reg \div \h20000 /\ addr % 2 = reg % 2

is_work_ram(addr) == addr \in \h100000..\h10FFFF
is_palette_addr(addr) == addr \in \h400000..\h7FFFFF
is_backup_ram_addr(addr) == addr \in \hD00000..\hDFFFFF
is_dipswitch_addr(addr) == Decodes(addr, \h300001) /\ (addr \div \h80) % 2 = 0
is_p1cnt_addr(addr) == Decodes(addr, \h300000)
is_p2cnt_addr(addr) == Decodes(addr, \h340000)
is_sound_addr(addr) == Decodes(addr, \h320000)
is_status_a_addr(addr) == Decodes(addr, \h320001)
is_status_b_addr(addr) == Decodes(addr, \h380000)
is_port_output_addr(addr) == Decodes(addr, \h380001)
is_system_latch_addr(addr) == Decodes(addr, \h3A0001)
is_lspc_addr(addr) == addr \in \h3C0000..\h3C000F
is_system_rom_addr(addr) == addr \in \hC00000..\hCFFFFF

palette_offset(b, addr) == b.palette_bank * \h2000 + (addr % \h2000)
Even(n) == n - (n % 2)

-----------------------------------------------------------------------------
(* Reading.                                                                *)

Idle == <<"open", 0>>
KeptByte(v) == <<"byte", v>>
hi_or_lo(word, addr) == KeptByte(IF addr % 2 = 1 THEN word[2] ELSE word[1])

program_rom(offset) == IF offset < PromSize THEN <<"prom", offset>> ELSE Idle
system_rom(offset) ==
  LET o == offset % \h20000 IN IF o < BiosSize THEN <<"bios", o>> ELSE Idle

ReadLspc(b, addr) ==
  LET reg == Even(addr) IN
  CASE reg \in {\h3C0000, \h3C0002} -> hi_or_lo(b.vram[b.vram_addr], addr)
    [] reg = \h3C0004 -> hi_or_lo(b.vram_mod, addr)
    [] reg = \h3C0006 -> hi_or_lo(b.lspc_mode, addr)
    [] reg = \h3C0008 -> hi_or_lo(b.timer_high, addr)
    [] reg = \h3C000A -> hi_or_lo(b.timer_low, addr)
    [] reg = \h3C000E -> hi_or_lo(b.timer_stop, addr)
    [] OTHER -> Idle

Overlaid(b, addr) == b.bios_vectors_enabled = 1 /\ addr <= \h7F

\* ng68k_read8, with status_a_reads already counted
ng68k_read8(b, addr) ==
  CASE Overlaid(b, addr) -> system_rom(addr)
    [] ~Overlaid(b, addr) /\ addr <= \h0FFFFF -> program_rom(addr)
    [] is_work_ram(addr) -> KeptByte(b.work[addr % \h10000])
    [] addr \in \h200000..\h2FFFFF -> program_rom(\h100000 + (addr - \h200000))
    [] is_palette_addr(addr) -> KeptByte(b.palette[palette_offset(b, addr)])
    [] is_backup_ram_addr(addr) -> KeptByte(b.backup[addr % \h10000])
    [] is_p1cnt_addr(addr) -> <<"p1cnt", 0>>
    [] is_dipswitch_addr(addr) -> <<"dipswitch", 0>>
    [] is_p2cnt_addr(addr) -> <<"p2cnt", 0>>
    [] is_sound_addr(addr) -> <<"sound_reply", 0>>
    [] is_status_a_addr(addr) -> <<"status_a", b.status_a_reads>>
    [] is_status_b_addr(addr) -> <<"status_b", 0>>
    [] is_port_output_addr(addr) -> <<"system", 0>>
    [] is_lspc_addr(addr) -> ReadLspc(b, addr)
    [] is_system_rom_addr(addr) -> system_rom(addr - \hC00000)
    [] OTHER -> Idle

\* The real-time clock's pulse is bit 0 of the number of reads.
CountRead(b, addr) ==
  IF is_status_a_addr(addr) THEN [b EXCEPT !.status_a_reads = (@ + 1) % 2] ELSE b

-----------------------------------------------------------------------------
(* Writing.                                                                *)

\* Mutation: a byte that is overwritten is not taken off the count.
PaletteByteAdds(b, offset, value) ==
  [b EXCEPT !.nonzero_bytes = @ + (IF value # 0 THEN 1 ELSE 0),
            !.checksum = (@ - b.palette[offset]) + value,
            !.palette[offset] = value]

\* The peak of the two counts, kept for reports, is left out.
write_palette_byte(b, offset, value) ==
  LET old == b.palette[offset]
      Set(v) == IF v # 0 THEN 1 ELSE 0
  IN  IF old = value THEN b
      ELSE [b EXCEPT !.nonzero_bytes = (@ - Set(old)) + Set(value),
                     !.checksum = (@ - old) + value,
                     !.palette[offset] = value]

write_palette_word(b, addr, word) ==
  LET offset == Even(palette_offset(b, addr))
  IN  write_palette_byte(write_palette_byte(b, offset, word[1]), offset + 1, word[2])

Switch == (1 :> <<"shadow_enabled", 0>>)       @@ (17 :> <<"shadow_enabled", 1>>)
       @@ (3 :> <<"bios_vectors_enabled", 1>>) @@ (19 :> <<"bios_vectors_enabled", 0>>)
       @@ (11 :> <<"board_fix_enabled", 1>>)   @@ (27 :> <<"board_fix_enabled", 0>>)
       @@ (13 :> <<"backup_ram_unlocked", 0>>) @@ (29 :> <<"backup_ram_unlocked", 1>>)
       @@ (15 :> <<"palette_bank", 1>>)        @@ (31 :> <<"palette_bank", 0>>)

Signal(b, name, value) == [b EXCEPT !.signals = Append(@, <<name, value>>)]

write_lspc_word(b, reg, word) ==
  CASE reg = \h3C0000 -> [b EXCEPT !.vram_addr = Number(word)]
    [] reg = \h3C0002 -> [b EXCEPT !.vram[b.vram_addr] = word,
                                   !.vram_addr = (@ + Number(b.vram_mod)) % VramWords]
    [] reg = \h3C0004 -> [b EXCEPT !.vram_mod = word]
    [] reg = \h3C0006 -> [b EXCEPT !.lspc_mode = word]
    [] reg = \h3C0008 -> [b EXCEPT !.timer_high = word]
    [] reg = \h3C000A ->
         LET c == [b EXCEPT !.timer_low = word]
         IN  IF (Number(b.lspc_mode) \div ReloadOnWrite) % 2 = 1
             THEN Signal(c, "reload", 0) ELSE c
    [] reg = \h3C000C -> Signal(b, "ack", Number(word))
    [] reg = \h3C000E -> [b EXCEPT !.timer_stop = word]

ng68k_write8(b, addr, value) ==
  CASE is_work_ram(addr) -> [b EXCEPT !.work[addr % \h10000] = value]
    [] is_palette_addr(addr) -> write_palette_word(b, addr, <<value, value>>)
    [] is_backup_ram_addr(addr) ->
         IF b.backup_ram_unlocked = 0 THEN b
         ELSE [b EXCEPT !.backup[addr % \h10000] = value]
    [] is_dipswitch_addr(addr) -> Signal(b, "kick", 0)
    [] is_port_output_addr(addr) -> [b EXCEPT !.port_output = value]
    [] is_sound_addr(addr) ->
         Signal([b EXCEPT !.sound_command = value], "sound", value)
    [] is_system_latch_addr(addr) ->
         IF addr % 32 \in DOMAIN Switch
         THEN [b EXCEPT ![Switch[addr % 32][1]] = Switch[addr % 32][2]] ELSE b
    [] is_lspc_addr(addr) -> write_lspc_word(b, Even(addr), <<value, value>>)
    [] OTHER -> b

ng68k_write16(b, addr, word) ==
  CASE is_palette_addr(addr) -> write_palette_word(b, addr, word)
    [] is_lspc_addr(addr) -> write_lspc_word(b, Even(addr), word)
    [] OTHER -> ng68k_write8(ng68k_write8(b, addr, word[1]), addr + 1, word[2])

-----------------------------------------------------------------------------
(* The program's accesses.                                                 *)

Quiet == [bus EXCEPT !.signals = <<>>]

\* A sound command among the signals goes into the ring.
Sent(b) == {e \in Events : \E i \in DOMAIN b.signals : b.signals[i] = <<"sound", e>>}

Deliver(b) == IF Sent(b) = {} THEN UNCHANGED vars ELSE \E e \in Sent(b) : Write(e)

Event(op, addr, d) == cycle' = [op |-> op, addr |-> addr, d |-> d]

Wrote(b) ==
  /\ bus' = b /\ Deliver(b)
  /\ UNCHANGED <<data, saved_bus, program>>

Got(b, bytes) ==
  /\ bus' = b /\ data' = bytes
  /\ UNCHANGED <<vars, saved_bus, program>>

\* One call of ng68k_read8, ng68k_read16, ng68k_write8 or ng68k_write16.
ReadByte(addr) ==
  LET b == CountRead(Quiet, addr)
  IN  Event("read8", addr, <<>>) /\ Got(b, <<ng68k_read8(b, addr)>>)
ReadWord(addr) ==
  LET hi == CountRead(Quiet, addr)
      lo == CountRead(hi, addr + 1)
  IN  /\ Event("read16", addr, <<>>)
      /\ Got(lo, <<ng68k_read8(hi, addr), ng68k_read8(lo, addr + 1)>>)
WriteByte(addr, v) ==
  Event("write8", addr, <<v>>) /\ Wrote(ng68k_write8(Quiet, addr, v))
WriteWord(addr, word) ==
  Event("write16", addr, word) /\ Wrote(ng68k_write16(Quiet, addr, word))

\* Words and longs are at even addresses.
Access(addr, op) ==
  /\ rest = <<>> /\ accesses < program.limit
  /\ addr \in program.ports /\ op \in program.ops
  /\ op \in {"read8", "write8"} \/ addr % 2 = 0
  /\ accesses' = accesses + 1

Read8(addr) == Access(addr, "read8") /\ ReadByte(addr) /\ UNCHANGED rest
Read16(addr) == Access(addr, "read16") /\ ReadWord(addr) /\ UNCHANGED rest
Write8(addr, v) == Access(addr, "write8") /\ WriteByte(addr, v) /\ UNCHANGED rest
Write16(addr, word) == Access(addr, "write16") /\ WriteWord(addr, word) /\ UNCHANGED rest

\* ng68k_read32 and ng68k_write32: the upper word, then the lower.
Read32(addr) == Access(addr, "read32") /\ ReadWord(addr) /\ rest' = <<addr + 2, <<>>>>
Write32(addr, word, lower) ==
  Access(addr, "write32") /\ WriteWord(addr, word) /\ rest' = <<addr + 2, lower>>
LowerHalf ==
  /\ rest # <<>>
  /\ IF rest[2] = <<>> THEN ReadWord(rest[1]) ELSE WriteWord(rest[1], rest[2])
  /\ rest' = <<>> /\ UNCHANGED accesses

-----------------------------------------------------------------------------
(* The host and the watchdog.                                              *)

PopEvent == rest = <<>> /\ Pop /\ UNCHANGED busVars

\* ng_m68k_take_reset, where no reset vector was configured
TakeReset ==
  /\ rest = <<>> /\ Event("watchdog", 0, <<>>)
  /\ data' = [i \in 1..4 |-> ng68k_read8(bus, 3 + i)]
  /\ bus' = [Quiet EXCEPT !.bios_vectors_enabled = 0, !.backup_ram_unlocked = 0]
  /\ UNCHANGED <<vars, rest, saved_bus, program, accesses>>

ResetRuntime ==
  /\ rest = <<>> /\ Event("power", 0, <<>>)
  /\ Reset
  /\ bus' = Fresh
  /\ UNCHANGED <<data, rest, saved_bus, program, accesses>>

SaveState ==
  /\ rest = <<>> /\ Event("save", 0, <<>>)
  /\ Save
  /\ saved_bus' = Quiet /\ bus' = Quiet
  /\ UNCHANGED <<data, rest, program, accesses>>

LoadState ==
  /\ rest = <<>> /\ Event("load", 0, <<>>)
  /\ Load
  /\ bus' = saved_bus
  /\ UNCHANGED <<data, rest, saved_bus, program, accesses>>

BusNext ==
  \/ \E addr \in program.ports :
        \/ Read8(addr) \/ Read16(addr) \/ Read32(addr)
        \/ \E v \in Bytes : Write8(addr, v)
        \/ \E word \in Bytes \X Bytes :
              \/ Write16(addr, word)
              \/ \E lower \in Bytes \X Bytes : Write32(addr, word, lower)
  \/ LowerHalf \/ PopEvent \/ TakeReset \/ ResetRuntime \/ SaveState \/ LoadState

BusSpec == BusInit /\ [][BusNext]_allVars

-----------------------------------------------------------------------------
(* Properties.                                                             *)

\* The words of a memory that is kept in bytes.
InWords(memory) ==
  [o \in {a \in DOMAIN memory : a % 2 = 0} |-> <<memory[o], memory[o + 1]>>]

\* The board of a bus: words for bytes, and the outputs of one latch for the
\* flags of the runtime.
AsBoard(b) ==
  [ram |-> [work |-> InWords(b.work), palette |-> InWords(b.palette),
            backup |-> InWords(b.backup), vram |-> b.vram],
   latch |-> [i \in 0..7 |->
                CASE i = 0 -> b.shadow_enabled
                  [] i = 1 -> 1 - b.bios_vectors_enabled
                  [] i = 5 -> 1 - b.board_fix_enabled
                  [] i = 6 -> b.backup_ram_unlocked
                  [] i = 7 -> 1 - b.palette_bank
                  [] OTHER -> 0],
   address |-> b.vram_addr,
   regs |-> [r \in 2..7 |->
               CASE r = 2 -> b.vram_mod   [] r = 3 -> b.lspc_mode
                 [] r = 4 -> b.timer_high [] r = 5 -> b.timer_low
                 [] r = 7 -> b.timer_stop [] OTHER -> <<0, 0>>],
   port |-> b.port_output, sound |-> b.sound_command, ticks |-> b.status_a_reads]

Board == INSTANCE NeoBoard WITH
  board   <- AsBoard(bus),
  kept    <- AsBoard(saved_bus),
  tally   <- [nonzero |-> bus.nonzero_bytes, checksum |-> bus.checksum],
  signals <- bus.signals

\* The runtime is the board: every access of every width, through every
\* mirror, bank and latch, does to memory, registers and the other components
\* what the bus cycles of the board do, a save brings all of it back, and the
\* palette's running count and checksum never drift from its contents.
ImplementsBoard == Board!Spec

=============================================================================
