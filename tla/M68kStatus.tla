------------------------------ MODULE M68kStatus ------------------------------
(***************************************************************************)
(* The bits of the 68000's status register that decide where control goes  *)
(* and which stack it uses: S (NG_SR_S) counts 2 and T (NG_SR_T) counts 1. *)
(* The interrupt mask is NeoMachine's, the condition codes are M68kAlu's.  *)
(***************************************************************************)
EXTENDS Naturals

StatusWords == 0..3

Supervisor(sr) == sr \div 2 = 1
Tracing(sr) == (sr % 2) = 1

\* (sr | NG_SR_S) & ~NG_SR_T
Handling == 2

\* Words on a stack say what was pushed: an address or a status word.
PcWord(addr) == <<"pc", addr>>
SrWord(sr) == <<"sr", sr>>

=============================================================================
