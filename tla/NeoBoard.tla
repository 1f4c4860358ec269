------------------------------ MODULE NeoBoard ------------------------------
(***************************************************************************)
(* What the 68000 sees of the board: a bus of 16-bit words.  A cycle names *)
(* a word and drives its upper lane, its lower lane or both; the word is   *)
(* in one of the memories, behind a register, or nowhere.  Memories are    *)
(* arrays of words, the switches are one eight-bit addressable latch that  *)
(* takes its bit from address line 4, and the palette's tally is always    *)
(* that of its contents.                                                   *)
(***************************************************************************)
EXTENDS Naturals, Sequences, FiniteSets, Functions

CONSTANTS
  ByteSize,       \* 256
  WorkOffsets, PaletteOffsets, BackupOffsets,  \* bytes in use of the memories
  PromSize, BiosSize,
  ReloadOnWrite   \* flag of LSPCMODE

VARIABLES
  cycle,   \* the last event on the bus: [op, addr, d], d the bytes written
  board,   \* [ram, latch, address, regs, port, sound, ticks]
  tally,   \* palette bytes that are not nought, and their sum
  data,    \* the bytes the last read cycle returned
  signals, \* what the last write cycle did to the other components
  kept     \* the board in the save state

vars == <<cycle, board, tally, data, signals, kept>>

Words == ByteSize * ByteSize
Number(w) == w[1] * ByteSize + w[2]

Evens(offsets) == {o \in offsets : o % 2 = 0}
BankSize == \h2000

Nought == <<0, 0>>

Blank(offsets) == [o \in offsets |-> Nought]

Off == [ram     |-> [work    |-> Blank(Evens(WorkOffsets)),
                     palette |-> Blank(Evens(PaletteOffsets)
                                       \cup {o + BankSize : o \in Evens(PaletteOffsets)}),
                     backup  |-> Blank(Evens(BackupOffsets)),
                     vram    |-> Blank(0..(Words - 1))],
        latch   |-> [i \in 0..7 |-> IF i \in {1, 5, 7} THEN 1 ELSE 0],
        address |-> 0,
        regs    |-> [r \in 2..7 |-> Nought],
        port    |-> 0,
        sound   |-> 0,
        ticks   |-> 0]

Shown(b) ==
  LET cells == (DOMAIN b.ram.palette) \X {1, 2}
      Cell(c) == b.ram.palette[c[1]][c[2]]
  IN  [nonzero  |-> Cardinality({c \in cells : Cell(c) # 0}),
       checksum |-> FoldFunction(+, 0, [c \in cells |-> Cell(c)])]

Quiet == [op |-> "none", addr |-> 0, d |-> <<>>]

Init ==
  /\ cycle = Quiet /\ board = Off /\ kept = Off
  /\ tally = [nonzero |-> 0, checksum |-> 0]
  /\ data = <<>> /\ signals = <<>>

-----------------------------------------------------------------------------
(* The memory map.                                                         *)

Map == { <<"prom",    \h000000, \h0FFFFF>>, <<"work",   \h100000, \h10FFFF>>,
         <<"bank",    \h200000, \h2FFFFF>>, <<"lspc",   \h3C0000, \h3C000F>>,
         <<"p1",      \h300000, \h31FFFF>>, <<"sound",  \h320000, \h33FFFF>>,
         <<"p2",      \h340000, \h35FFFF>>, <<"status", \h380000, \h39FFFF>>,
         <<"latch",   \h3A0000, \h3BFFFF>>, <<"palette", \h400000, \h7FFFFF>>,
         <<"bios",    \hC00000, \hCFFFFF>>, <<"backup", \hD00000, \hDFFFFF>> }

Region(addr) ==
  IF \E m \in Map : addr \in m[2]..m[3]
  THEN (CHOOSE m \in Map : addr \in m[2]..m[3])[1] ELSE "none"

\* The word of a memory that an address selects.
Offset(b, addr) ==
  LET even == addr - (addr % 2) IN
  IF Region(addr) = "palette" THEN (1 - b.latch[7]) * BankSize + (even % BankSize)
  ELSE even % \h10000

Register(addr) == (addr % 16) \div 2

-----------------------------------------------------------------------------
(* Reading.  A byte is tagged with what it was read from.                  *)

Open == <<"open", 0>>
Rom(name, size, offset) == IF offset < size THEN <<name, offset>> ELSE Open
Half(word, addr) == <<"byte", word[1 + (addr % 2)]>>
Lane(addr, upper, lower) == IF addr % 2 = 0 THEN upper ELSE lower

Read(b, addr) ==
  LET r == Region(addr) IN
  CASE r = "prom" /\ b.latch[1] = 0 /\ addr < \h80 -> Rom("bios", BiosSize, addr)
    [] r = "prom" /\ ~(b.latch[1] = 0 /\ addr < \h80) -> Rom("prom", PromSize, addr)
    [] r = "bank"   -> Rom("prom", PromSize, addr - \h100000)
    [] r = "bios"   -> Rom("bios", BiosSize, addr % \h20000)
    [] r \in {"work", "palette", "backup"} -> Half(b.ram[r][Offset(b, addr)], addr)
    [] r = "lspc" /\ Register(addr) \in {0, 1} -> Half(b.ram.vram[b.address], addr)
    [] r = "lspc" /\ Register(addr) \in (2..7) \ {6} -> Half(b.regs[Register(addr)], addr)
    [] r = "p1"     -> Lane(addr, <<"p1cnt", 0>>,
                            IF (addr \div \h80) % 2 = 0 THEN <<"dipswitch", 0>> ELSE Open)
    [] r = "sound"  -> Lane(addr, <<"sound_reply", 0>>, <<"status_a", 1 - b.ticks>>)
    [] r = "p2"     -> Lane(addr, <<"p2cnt", 0>>, Open)
    [] r = "status" -> Lane(addr, <<"status_b", 0>>, <<"system", 0>>)
    [] OTHER        -> Open

Addresses(addr, n) == {addr + i : i \in 0..(n - 1)}

ReadCycle(addr, n) ==
  /\ data' = [i \in 1..n |-> Read(board, addr + i - 1)]
  /\ board' = IF \E a \in Addresses(addr, n) : Region(a) = "sound" /\ a % 2 = 1
              THEN [board EXCEPT !.ticks = 1 - @] ELSE board
  /\ signals' = <<>>
  /\ UNCHANGED <<tally, kept>>

-----------------------------------------------------------------------------
(* Writing d, a word or a byte.                                            *)

\* The lanes that are driven, and what they carry.
Upper(addr, d) == IF addr % 2 = 0 THEN {d[1]} ELSE {}
Lower(addr, d) == IF Len(d) = 2 THEN {d[2]} ELSE IF addr % 2 = 1 THEN {d[1]} ELSE {}

\* Work and backup RAM are written lane by lane.  Palette and LSPC take whole
\* words, and a byte is on both lanes.
ByLane(old, addr, d) ==
  <<IF Upper(addr, d) = {} THEN old[1] ELSE d[1],
    IF Lower(addr, d) = {} THEN old[2] ELSE d[Len(d)]>>
Whole(d) == <<d[1], d[Len(d)]>>

WriteRam(addr, d) ==
  LET r == Region(addr) IN
  \/ /\ r = "work" \/ (r = "backup" /\ board.latch[6] = 1)
     /\ board' = [board EXCEPT !.ram[r][Offset(board, addr)] = ByLane(@, addr, d)]
  \/ r = "backup" /\ board.latch[6] = 0 /\ UNCHANGED board
  \/ r = "palette" /\ board' = [board EXCEPT !.ram[r][Offset(board, addr)] = Whole(d)]

WriteLspc(addr, d) ==
  /\ Region(addr) = "lspc"
  /\ board' =
       CASE Register(addr) = 0 -> [board EXCEPT !.address = Number(Whole(d))]
         [] Register(addr) = 1 ->
              [board EXCEPT !.ram.vram[board.address] = Whole(d),
                            !.address = (@ + Number(board.regs[2])) % Words]
         [] Register(addr) = 6 -> board
         [] OTHER -> [board EXCEPT !.regs[Register(addr)] = Whole(d)]
  /\ signals' =
       CASE Register(addr) = 6 -> <<<<"ack", Number(Whole(d))>>>>
         [] Register(addr) = 5 /\ (Number(board.regs[3]) \div ReloadOnWrite) % 2 = 1 ->
              <<<<"reload", 0>>>>
         [] OTHER -> <<>>

WriteLanes(addr, d) ==
  \/ /\ Region(addr) = "latch" /\ Lower(addr, d) # {}
     /\ LET i == (addr \div 2) % 8
            bit == (addr \div 16) % 2
        IN  board' = IF i \in {2, 3, 4} THEN board
                     ELSE [board EXCEPT !.latch[i] = bit]
     /\ signals' = <<>>
  \/ /\ Region(addr) = "status"
     /\ board' = IF Lower(addr, d) = {} THEN board
                 ELSE [board EXCEPT !.port = d[Len(d)]]
     /\ signals' = <<>>
  \/ /\ Region(addr) = "sound"
     /\ board' = IF Upper(addr, d) = {} THEN board ELSE [board EXCEPT !.sound = d[1]]
     /\ signals' = IF Upper(addr, d) = {} THEN <<>> ELSE <<<<"sound", d[1]>>>>
  \/ /\ Region(addr) = "p1"
     /\ signals' = IF Lower(addr, d) # {} /\ (addr \div \h80) % 2 = 0
                   THEN <<<<"kick", 0>>>> ELSE <<>>
     /\ UNCHANGED board
  \/ /\ \/ Region(addr) \in {"prom", "bank", "bios", "p2", "none"}
        \/ Region(addr) = "latch" /\ Lower(addr, d) = {}
     /\ signals' = <<>>
     /\ UNCHANGED board

WriteCycle(addr, d) ==
  /\ \/ WriteRam(addr, d) /\ signals' = <<>>
     \/ WriteLspc(addr, d)
     \/ WriteLanes(addr, d)
  /\ tally' = Shown(board')
  /\ UNCHANGED <<data, kept>>

-----------------------------------------------------------------------------
\* A watchdog reset locks the backup RAM and gives the vectors back to the
\* cartridge; where it starts is read before that.
WatchdogReset ==
  /\ data' = [i \in 1..4 |-> Read(board, 3 + i)]
  /\ board' = [board EXCEPT !.latch[1] = 1, !.latch[6] = 0]
  /\ signals' = <<>>
  /\ UNCHANGED <<tally, kept>>

PowerOn ==
  /\ board' = Off /\ tally' = Shown(Off)
  /\ signals' = <<>> /\ UNCHANGED <<data, kept>>

Save == kept' = board /\ signals' = <<>> /\ UNCHANGED <<board, tally, data>>

Load == /\ board' = kept /\ tally' = Shown(kept) /\ signals' = <<>>
        /\ UNCHANGED <<data, kept>>

Bytes == 0..(ByteSize - 1)

\* One event on the bus.
Next ==
  LET op == cycle'.op
      addr == cycle'.addr
  IN  \/ op = "read8" /\ ReadCycle(addr, 1)
      \/ op = "read16" /\ addr % 2 = 0 /\ ReadCycle(addr, 2)
      \/ op = "write8" /\ cycle'.d \in [{1} -> Bytes] /\ WriteCycle(addr, cycle'.d)
      \/ /\ op = "write16" /\ addr % 2 = 0
         /\ cycle'.d \in Bytes \X Bytes /\ WriteCycle(addr, cycle'.d)
      \/ op = "watchdog" /\ WatchdogReset
      \/ op = "power" /\ PowerOn
      \/ op = "save" /\ Save
      \/ op = "load" /\ Load

Spec == Init /\ [][Next]_vars
=============================================================================
