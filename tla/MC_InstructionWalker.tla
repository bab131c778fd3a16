------------------------- MODULE MC_InstructionWalker -------------------------
(***************************************************************************)
(* A catalogue of instruction encodings covering every immediate shape of  *)
(* decode_and_skip_immediates: a block type, a padded (two-byte) index,    *)
(* br_table, call_indirect, select.t, a memarg, memory.size, two-byte     *)
(* negative i32.const and i64.const, f32.const, f64.const, ref.null, two  *)
(* 0xFC subops, and one SIMD and one atomics instruction.  The atomics    *)
(* encoding (i32.atomic.load with offset 0x43) reads, when misparsed, as   *)
(* call 2 then f32.const, so it runs past the body's end unless a long     *)
(* instruction follows it.                                                 *)
(***************************************************************************)
EXTENDS InstructionWalker

I(bytes, op, sub, ok) == [bytes |-> bytes, mnem |-> <<op, sub>>, supported |-> ok]

Catalogue ==
  { I(<<1>>, 1, -1, TRUE),                  \* nop
    I(<<11>>, 11, -1, TRUE),                \* end
    I(<<2, 64>>, 2, -1, TRUE),              \* block (empty type)
    I(<<13, 128, 0>>, 13, -1, TRUE),        \* br_if 0, padded
    I(<<14, 1, 0, 0>>, 14, -1, TRUE),       \* br_table [0] 0
    I(<<17, 0, 0>>, 17, -1, TRUE),          \* call_indirect
    I(<<28, 1, 127>>, 28, -1, TRUE),        \* select (result i32)
    I(<<40, 2, 0>>, 40, -1, TRUE),          \* i32.load
    I(<<63, 0>>, 63, -1, TRUE),             \* memory.size
    I(<<65, 255, 127>>, 65, -1, TRUE),      \* i32.const -1, padded
    I(<<67, 0, 0, 0, 0>>, 67, -1, TRUE),    \* f32.const
    I(<<66, 128, 127>>, 66, -1, TRUE),      \* i64.const -128, padded
    I(<<68, 0, 0, 0, 0, 0, 0, 0, 0>>, 68, -1, TRUE), \* f64.const
    I(<<208, 112>>, 208, -1, TRUE),         \* ref.null func
    I(<<252, 10, 0, 0>>, 252, 10, TRUE),    \* memory.copy
    I(<<252, 0>>, 252, 0, TRUE),            \* i32.trunc_sat_f32_s
    I(<<253, 15>>, 253, 15, FALSE),         \* i8x16.splat (SIMD)
    I(<<254, 16, 2, 67>>, 254, 16, FALSE) } \* i32.atomic.load (atomics)

LocalDecls == {<<0>>, <<1, 2, 127>>}   \* none; two i32 locals

\* the locals are read before the first opcode and never after it: both
\* declarations are combined with bodies of one instruction, the empty one
\* with bodies of two
OneBody == {<<[locals |-> l, instrs |-> is]>> :
              l \in LocalDecls, is \in BoundedSeq(Catalogue, 1)}
           \cup {<<[locals |-> <<0>>, instrs |-> is]>> :
                   is \in BoundedSeq(Catalogue, 2)}

TwoBodies == {<<[locals |-> <<0>>, instrs |-> <<x>>],
                [locals |-> <<0>>, instrs |-> <<y>>]>> : x, y \in Catalogue}

\* an empty body: the locals count itself is missing
EmptyBody == <<[locals |-> <<>>, instrs |-> <<>>]>>

MC_Programs == OneBody \cup TwoBodies \cup {EmptyBody}

\* decode_and_skip_immediates at every position of every body, computed once
DecodeTable ==
  [b \in UNION {{Body(p[f]) : f \in DOMAIN p} : p \in MC_Programs} |->
     [i \in 2..Len(b) + 1 |-> Decode(b, i)]]

MC_DecodeAt(b, i) == DecodeTable[b][i]

MC_Targets == {<<11, -1>>, <<252, 10>>}
=============================================================================
