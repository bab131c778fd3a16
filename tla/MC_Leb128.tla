------------------------------- MODULE MC_Leb128 -------------------------------
(***************************************************************************)
(* Byte strings of up to six bytes over an alphabet with a byte of every   *)
(* kind the decoders tell apart: a final byte that is positive, one with   *)
(* the sign bit (0x40) set, one past the top group of a 32-bit value       *)
(* (0x7F), and continuation bytes with zero and with full groups.          *)
(* Calls: the widths the tools use below 64 bits (u32, s32, s33).          *)
(***************************************************************************)
EXTENDS Leb128, SequencesExt

MC_Inputs == BoundedSeq({0, 15, 64, 127, 128, 255}, 6)

\* longest encodings of small negative numbers: continuation bytes with zero
\* groups and a last byte of all ones
MC_SignInputs == BoundedSeq({127, 128}, 5)

MC_Calls == {[kind |-> "uleb", max_bits |-> 32],
             [kind |-> "sleb", max_bits |-> 32],
             [kind |-> "sleb", max_bits |-> 33],
             [kind |-> "init_expr", max_bits |-> 0],
             [kind |-> "limits", max_bits |-> 0]}

\* payloads for the skippers: the end opcode 0x0B (also an immediate byte),
\* the four consts 0x41-0x44 (also negative final LEB128 bytes), global.get
\* 0x23, the limits flags 0x00 and 0x01, a continuation byte
MC_SkipInputs == BoundedSeq({0, 1, 11, 35, 65, 66, 67, 68, 128}, 6)

MC_SignedCalls == {c \in MC_Calls : c.kind = "sleb"}

MC_NoSkipInputs == {}
=============================================================================
