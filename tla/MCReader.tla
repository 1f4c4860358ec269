------------------------------ MODULE MCReader ------------------------------
(* Every opcode, with the ROM ending behind it or far behind it.           *)
EXTENDS InstructionReader

AllWords == 0..65535

\* Nothing, one register, a pair of which one is often the one stepped, both
\* ends of both banks, and all of them.
SomeLists == {{}, {12}, {3, 11}, {0, 7, 8, 15}, 0..15}

=============================================================================
