-------------------------- MODULE InstructionReader --------------------------
(***************************************************************************)
(* How every pass of the recompiler reads an instruction: decode the word  *)
(* at an address of the ROM, then validate the record before relying on it *)
(* (is_probable_function_target, emit_function_body); the emitter then     *)
(* prints the C of it.  A behaviour reads one word, with room bytes left   *)
(* in the ROM from its address on.                                         *)
(***************************************************************************)
EXTENDS M68kValidate, M68kOpcodeMap, M68kOperands, M68kCycles, M68kTiming

CONSTANTS Words,  \* the opcodes that are read
          Rooms,  \* the bytes that may be left, at least the opcode's two
          Lists   \* the register lists of a MOVEM, as the bits that are set

ASSUME WordAssumption ==
    /\ Words \subseteq 0..65535 /\ Rooms \subseteq Nat \ {0, 1}
    /\ Lists \subseteq SUBSET (0..15)

VARIABLES word, room, instr, verdict,
          list,   \* the register list
          code,   \* what the printed C does
          cycles  \* the cycles its hook is given

vars == <<word, room, instr, verdict, list, code, cycles>>

Init ==
    /\ word \in Words /\ room \in Rooms
    /\ instr = Unknown(word) /\ verdict = "unread"
    /\ list = {} /\ code = Untouched /\ cycles = 0

\* ng_m68k_decode
Decode ==
    /\ verdict = "unread"
    /\ instr' = Finish(Decoded(word), room)
    /\ verdict' = "decoded"
    /\ UNCHANGED <<word, room, list, code, cycles>>

Accept ==
    /\ verdict = "decoded" /\ ng_m68k_validate(instr)
    /\ verdict' = "accepted"
    /\ UNCHANGED <<word, room, instr, list, code, cycles>>

Refuse ==
    /\ verdict = "decoded" /\ ~ng_m68k_validate(instr)
    /\ verdict' = "refused"
    /\ UNCHANGED <<word, room, instr, list, code, cycles>>

\* emit_function_body prints the hooks, and goes on to emit_instr
Emit ==
    /\ verdict = "accepted"
    /\ list' \in IF instr.name = "MOVEM" THEN Lists ELSE {{}}
    /\ code' = emit_instr(instr, list')
    /\ cycles' = ng_m68k_base_cycles_for_opcode(instr.opcode)
    /\ verdict' = "emitted"
    /\ UNCHANGED <<word, room, instr>>

Next == Decode \/ Accept \/ Refuse \/ Emit

Spec == Init /\ [][Next]_vars

-----------------------------------------------------------------------------
(* Properties.                                                             *)

WasRead == verdict # "unread"

\* ng_m68k_decode gives each opcode of the MC68000 the instruction it stands
\* for, which is one, and no other opcode any: no case of the decoder hides a
\* later one, and each takes exactly the operands its instruction has.
OpcodeMap ==
    WasRead /\ instr.name # "INVALID"
      => IF instr.name = "UNKNOWN" THEN Meaning(word) = {}
         ELSE Meaning(word) = {instr.name}

\* An instruction is turned down by ng_m68k_validate exactly when the decoder
\* did not know it or the ROM ends in it: what the decoder writes into the
\* fields of a record is what the validator expects of them, and discovery and
\* emitter lose no code between the two.
AcceptedIffKnown ==
    /\ verdict = "accepted" => Meaning(word) # {} /\ instr.len <= room
    /\ verdict = "refused" => Meaning(word) = {} \/ Decoded(word).len > room

\* The bytes at which the decoder read the record's values.
Bytes(at, n) == IF at < 2 THEN {} ELSE at .. at + n - 1

EaBytes(ea, size) ==
    CASE ea.mode = "imm" -> {Bytes(ea.imm.at, EaLength(ea, size))}
      [] ea.mode \in AbsModes -> {Bytes(ea.abs[1], EaLength(ea, size))}
      [] OTHER -> {Bytes(ea.disp, 2)}

Extensions(i) ==
    EaBytes(i.src, i.size) \cup EaBytes(i.dst, i.size)
      \cup {Bytes(i.imm.at, IF i.imm.width = 4 THEN 4 ELSE 2), Bytes(i.disp, 2)}

\* The extension words of an instruction lie one behind the other: what
\* decode_ea and the cases around it read covers the bytes behind the opcode,
\* up to the length the record gives, and no two values share a byte.  The
\* next instruction would otherwise be read from the middle of this one.
WordsReadOnce ==
    WasRead /\ instr.name \notin {"UNKNOWN", "INVALID"}
      => /\ UNION Extensions(instr) = 2..(instr.len - 1)
         /\ \A a, b \in Extensions(instr) : a = b \/ a \cap b = {}

\* Records that differ from instr in the one field that a slip in a decoder
\* would get wrong.
Flip(op, k) == IF Bits(op, k, 1) = 1 THEN op - 2^k ELSE op + 2^k

Slips(i) ==
    {[i EXCEPT !.opcode = Flip(i.opcode, k)] : k \in 0..15}
      \cup {[i EXCEPT !.len = n] : n \in {2, 4, 6, 8, 10}}
      \cup {[i EXCEPT !.size = n] : n \in {0, 1, 2, 4}}
      \cup {[i EXCEPT !.reg = (i.reg + 1) % 8],
            [i EXCEPT !.src_reg = (i.src_reg + 1) % 8],
            [i EXCEPT !.form = IF @ = "none" THEN "dreg" ELSE "none"],
            [i EXCEPT !.dst.reg = (@ + 1) % 8],
            [i EXCEPT !.src.reg = (@ + 1) % 8],
            [i EXCEPT !.cond = (@ + 1) % 16]}

\* A record with one wrong field is turned down by ng_m68k_validate, unless it
\* is what its opcode decodes to: the validator would catch a decoder that got
\* one bit of the opcode, the length, the size or a register wrong.
SlipsRefused ==
    WasRead /\ instr.name \notin {"UNKNOWN", "INVALID"}
      => \A i \in Slips(instr) : ng_m68k_validate(i) => i = Decoded(i.opcode)

\* Where the printed C is known to do otherwise: the byte at d16(An) that ANDI
\* reads back for its codes, and the frame pointer that LINK pushes when it is
\* the stack pointer; and, of the codes alone, a MOVE of the address register
\* that its own destination steps.
Departs(i) ==
    \/ i.name = "ANDI" /\ i.dst.mode = "adisp" /\ i.size = 1
    \/ i.name = "LINK" /\ i.reg = 7
CodesDepart(i) ==
    /\ i.name = "MOVE" /\ i.src.mode = "areg" /\ i.dst.mode \in {"apost", "apre"}
    /\ i.src.reg = i.dst.reg

\* Every instruction the validator lets through has C printed for it, and the
\* C takes each operand as the processor does: read once, written once, the
\* source before the destination, address registers stepped between, by two
\* for a byte on the stack, the register list in its order, the rest of a data
\* register kept, the privilege tested first.  A device register that is read
\* once too often, or an address taken before a step, breaks a game far away
\* from the instruction.
OperandsExact ==
    verdict = "emitted" /\ ~Departs(instr)
      => LET manual == Expected(instr, list)
         IN code = IF CodesDepart(instr) THEN [manual EXCEPT !.sr = code.sr] ELSE manual

\* Where the table is known to say otherwise: RESET has a row of nought, which
\* is charged as four, and ADDQ of a word to an address register is charged
\* four, where SUBQ is charged eight.
ChargedShort(i) ==
    i.name = "RESET" \/ (i.name = "ADDQ" /\ i.dst.mode = "areg" /\ i.size = 2)

\* Every instruction has its row in the cycle table, and the row the time of
\* the manual: none falls to the default, and none is charged for another's
\* mode or size.  The scanline, the timer and the sound run on these numbers.
TimesExact ==
    verdict = "emitted"
      => IF ChargedShort(instr) THEN cycles = 4 ELSE cycles \in Timing(instr)

=============================================================================
