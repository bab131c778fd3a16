------------------------------- MODULE Leb128 -------------------------------
(***************************************************************************)
(* ByteReader.read_uleb and ByteReader.read_sleb, one loop iteration per   *)
(* step, over a byte string chosen from Inputs, against the LEB128 grammar *)
(* of the WebAssembly binary format (section 5.2.2) as the reference.      *)
(*                                                                         *)
(* TLC integers are 32 bits wide and a 5- or 6-byte LEB128 value is wider, *)
(* so `result` is kept as the sequence of its 7-bit groups: the code's     *)
(* `result |= g << shift` with shift = 7 * (groups so far) appends g.      *)
(* `neg` records the sign extension `result |= -(1 << shift)`; the value   *)
(* is  Sum(result[i] * 128^(i-1)) - (IF neg THEN 2^shift ELSE 0).          *)
(*                                                                         *)
(* The same reader is driven by the payload skippers of the module parser, *)
(* _skip_init_expr and _parse_limits: a call of kind "init_expr" or        *)
(* "limits" reads its opcodes and flags byte by byte and queues, in        *)
(* `todo`, the reads of their immediates, which the same LEB128 steps and  *)
(* read_bytes then perform at the position the previous read left.        *)
(***************************************************************************)
EXTENDS Integers, Sequences, Bitwise

CONSTANTS
  Inputs,      \* byte strings the LEB128 reads are positioned at
  SkipInputs,  \* byte strings the payload skippers are positioned at
  Calls        \* [kind, max_bits] of the calls made: "uleb" and "sleb"
               \* reads, and the skippers "init_expr" and "limits"

VARIABLES data, call, pos, result, shift, neg, status, err, todo

vars == <<data, call, pos, result, shift, neg, status, err, todo>>

LebKinds == {"uleb", "sleb"}

U32 == [kind |-> "uleb", max_bits |-> 32]

\* the loop's guard: `if shift >= max_bits + 7: raise ...too large`
ShiftPastWidth(s, max_bits) == s + 7 > max_bits

TooLarge(s, max_bits) == s >= max_bits + 7

\* `b & 0x7F`, the group a byte contributes
GroupUnmasked(b) == b

Group(b) == b & 127

Init ==
  /\ call \in Calls
  /\ data \in IF call.kind \in LebKinds THEN Inputs ELSE SkipInputs
  /\ pos = 0 /\ result = <<>> /\ shift = 0 /\ neg = FALSE
  /\ status = "reading" /\ err = "none"
  /\ todo = IF call.kind \in LebKinds THEN <<call>> ELSE <<>>

Raise(e) ==
  /\ status' = "raised" /\ err' = e
  /\ UNCHANGED <<data, call, pos, result, shift, neg, todo>>

\* the read at the head of todo is under way
ReadingAs(kind) == status = "reading" /\ todo /= <<>> /\ Head(todo).kind = kind

\* a LEB128 read returns with groups r, shift s and sign n: to the caller
\* of a plain read, or to a skipper, which drops the value (`_ = ...`) and
\* whose next read starts again from result = 0, shift = 0
LebReturns(r, s, n) ==
  /\ todo' = Tail(todo)
  /\ IF call.kind \in LebKinds
     THEN status' = "returned" /\ result' = r /\ shift' = s /\ neg' = n
     ELSE /\ result' = <<>> /\ shift' = 0 /\ neg' = FALSE
          /\ UNCHANGED status

\* read_u8's check `pos + 1 > end`
AtEOF == pos + 1 > Len(data)

\* one iteration of read_uleb's loop
UlebStep ==
  /\ ReadingAs("uleb")
  /\ IF TooLarge(shift, Head(todo).max_bits) THEN Raise("uleb128 too large")
     ELSE IF AtEOF THEN Raise("unexpected EOF")
     ELSE LET b == data[pos + 1] IN
          /\ pos' = pos + 1
          /\ IF b & 128 = 0
             THEN LebReturns(Append(result, Group(b)), shift, neg)
             ELSE /\ result' = Append(result, Group(b))
                  /\ shift' = shift + 7
                  /\ UNCHANGED <<status, neg, todo>>
          /\ UNCHANGED <<data, call, err>>

\* one iteration of read_sleb's loop; the last one also runs the sign
\* extension after the loop: `if shift < size and (byte & 0x40) != 0`
SlebStep ==
  /\ ReadingAs("sleb")
  /\ IF TooLarge(shift, Head(todo).max_bits) THEN Raise("sleb128 too large")
     ELSE IF AtEOF THEN Raise("unexpected EOF")
     ELSE LET b == data[pos + 1] IN
          /\ pos' = pos + 1
          /\ IF b & 128 = 0
             THEN LebReturns(Append(result, Group(b)), shift + 7,
                             shift + 7 < Head(todo).max_bits /\ b & 64 /= 0)
             ELSE /\ result' = Append(result, Group(b))
                  /\ shift' = shift + 7
                  /\ UNCHANGED <<status, neg, todo>>
          /\ UNCHANGED <<data, call, err>>

\* read_bytes(n) for an immediate of n fixed bytes (f32.const, f64.const)
BytesStep ==
  /\ ReadingAs("bytes")
  /\ IF pos + Head(todo).max_bits > Len(data) THEN Raise("unexpected EOF")
     ELSE /\ pos' = pos + Head(todo).max_bits
          /\ todo' = Tail(todo)
          /\ UNCHANGED <<data, call, result, shift, neg, status, err>>

\* mutant: f32.const skipped as eight bytes, like f64.const
InitExprImmWide ==
  [op \in {65, 66, 67, 68, 35} |->
     CASE op = 65 -> [kind |-> "sleb", max_bits |-> 32]
       [] op = 66 -> [kind |-> "sleb", max_bits |-> 64]
       [] op \in {67, 68} -> [kind |-> "bytes", max_bits |-> 8]
       [] op = 35 -> U32]

\* the immediate each MVP init-expr opcode is followed by: i32.const,
\* i64.const, f32.const, f64.const, global.get ("bytes" counts bytes)
InitExprImm ==
  [op \in {65, 66, 67, 68, 35} |->
     CASE op = 65 -> [kind |-> "sleb", max_bits |-> 32]
       [] op = 66 -> [kind |-> "sleb", max_bits |-> 64]
       [] op = 67 -> [kind |-> "bytes", max_bits |-> 4]
       [] op = 68 -> [kind |-> "bytes", max_bits |-> 8]
       [] op = 35 -> U32]

\* one iteration of _skip_init_expr's loop, once the previous immediate
\* is skipped: the at_end check, read_u8, then end, an immediate or error
InitExprOp ==
  /\ status = "reading" /\ call.kind = "init_expr" /\ todo = <<>>
  /\ IF pos >= Len(data) THEN Raise("EOF in init_expr")
     ELSE LET op == data[pos + 1] IN
          CASE op = 11 -> /\ pos' = pos + 1 /\ status' = "returned"
                          /\ UNCHANGED <<data, call, result, shift, neg, err, todo>>
            [] op \in DOMAIN InitExprImm ->
                  /\ pos' = pos + 1 /\ todo' = <<InitExprImm[op]>>
                  /\ UNCHANGED <<data, call, result, shift, neg, status, err>>
            [] OTHER -> Raise("non-MVP init_expr opcode")

\* _parse_limits: the flags byte, then min, then max when flags & 0x01
LimitsFlags ==
  /\ status = "reading" /\ call.kind = "limits" /\ pos = 0
  /\ IF AtEOF THEN Raise("unexpected EOF")
     ELSE /\ pos' = 1
          /\ todo' = IF data[1] & 1 /= 0 THEN <<U32, U32>> ELSE <<U32>>
          /\ UNCHANGED <<data, call, result, shift, neg, status, err>>

\* _parse_limits returns once its last LEB128 read has
LimitsReturn ==
  /\ status = "reading" /\ call.kind = "limits" /\ pos > 0 /\ todo = <<>>
  /\ status' = "returned"
  /\ UNCHANGED <<data, call, pos, result, shift, neg, err, todo>>

Terminated == status \in {"returned", "raised"} /\ UNCHANGED vars

Next ==
  \/ UlebStep \/ SlebStep \/ BytesStep
  \/ InitExprOp \/ LimitsFlags \/ LimitsReturn
  \/ Terminated

Spec == Init /\ [][Next]_vars

-----------------------------------------------------------------------------
(***************************************************************************)
(* Reference: the WebAssembly LEB128 grammar, byte i onwards, for an       *)
(* integer of N bits.  [ok, len, neg]: whether bytes i.. start a valid     *)
(* encoding, the index of its last byte, and whether it is negative.       *)
(*   uN ::= n            if n < 2^7 /\ n < 2^N                             *)
(*        | n m:u(N-7)   if n >= 2^7 /\ N > 7                              *)
(*   sN ::= n            if n < 2^6 /\ n < 2^(N-1)                         *)
(*        | n            if 2^6 <= n < 2^7 /\ n >= 2^7 - 2^(N-1)           *)
(*        | n m:s(N-7)   if n >= 2^7 /\ N > 7                              *)
(* (N > 7 is tested first so that 2^N is never evaluated past 31 bits.)    *)
(***************************************************************************)
Invalid == [ok |-> FALSE, len |-> 0, neg |-> FALSE]

RECURSIVE RefUnsigned(_, _, _)
RefUnsigned(bytes, i, N) ==
  IF i > Len(bytes) THEN Invalid
  ELSE LET n == bytes[i] IN
       IF n < 128 THEN [ok |-> N > 7 \/ n < 2^N, len |-> i, neg |-> FALSE]
       ELSE IF N > 7 THEN RefUnsigned(bytes, i + 1, N - 7)
       ELSE Invalid

RECURSIVE RefSigned(_, _, _)
RefSigned(bytes, i, N) ==
  IF i > Len(bytes) THEN Invalid
  ELSE LET n == bytes[i] IN
       IF n < 64 THEN [ok |-> N > 7 \/ n < 2^(N - 1), len |-> i, neg |-> FALSE]
       ELSE IF n < 128
       THEN [ok |-> N > 7 \/ n >= 128 - 2^(N - 1), len |-> i, neg |-> TRUE]
       ELSE IF N > 7 THEN RefSigned(bytes, i + 1, N - 7)
       ELSE Invalid

Ref == IF call.kind = "uleb" THEN RefUnsigned(data, 1, call.max_bits)
       ELSE RefSigned(data, 1, call.max_bits)

(***************************************************************************)
(* Reference: the payloads the skippers are given, as the binary format's *)
(* grammar has them, from byte i: [ok, len] with len the last byte.        *)
(*   expr   ::= instr* 0x0B, instr one of 0x41 s32 | 0x42 s64 | 0x43 b^4   *)
(*              | 0x44 b^8 | 0x23 u32 (the constant instructions)          *)
(*   limits ::= 0x00 u32 | 0x01 u32 u32                                    *)
(***************************************************************************)
RECURSIVE RefExpr(_, _)
RefExpr(bytes, i) ==
  LET After(r) == IF r.ok THEN RefExpr(bytes, r.len + 1) ELSE Invalid
      Fixed(n) == IF i + n <= Len(bytes) THEN RefExpr(bytes, i + n + 1)
                  ELSE Invalid
  IN IF i > Len(bytes) THEN Invalid
     ELSE CASE bytes[i] = 11 -> [ok |-> TRUE, len |-> i, neg |-> FALSE]
            [] bytes[i] = 65 -> After(RefSigned(bytes, i + 1, 32))
            [] bytes[i] = 66 -> After(RefSigned(bytes, i + 1, 64))
            [] bytes[i] = 67 -> Fixed(4)
            [] bytes[i] = 68 -> Fixed(8)
            [] bytes[i] = 35 -> After(RefUnsigned(bytes, i + 1, 32))
            [] OTHER -> Invalid

RefLimits(bytes) ==
  IF bytes = <<>> \/ bytes[1] \notin {0, 1} THEN Invalid
  ELSE LET min == RefUnsigned(bytes, 2, 32) IN
       IF bytes[1] = 0 \/ ~min.ok THEN min
       ELSE RefUnsigned(bytes, min.len + 1, 32)

RefSkip == IF call.kind = "init_expr" THEN RefExpr(data, 1) ELSE RefLimits(data)

\* the 7-bit groups of the reference value (n, or n - 2^7 for a byte that
\* continues; a negative last group is offset by neg)
RefGroups == [i \in 1..Ref.len |-> data[i] % 128]

-----------------------------------------------------------------------------
\* the reader's state: groups are 7-bit, shift counts them
TypeOK ==
  /\ status \in {"reading", "returned", "raised"}
  /\ pos \in 0..Len(data)
  /\ result \in Seq(0..127) /\ Len(result) <= pos
  /\ neg \in BOOLEAN
  /\ todo \in Seq([kind : LebKinds \cup {"bytes"}, max_bits : Nat])

(***************************************************************************)
(* Every encoding the WebAssembly grammar accepts is read to its last byte *)
(* and no further, and its 7-bit groups are the value's: the bound check   *)
(* of the loop, the EOF check of read_u8, the mask and the continuation    *)
(* test together.  Every immediate the tools skip (i32.const, memarg,      *)
(* indices) relies on the reader stopping exactly there; a bound check    *)
(* that fires one group early rejects the longest valid encodings only.   *)
(***************************************************************************)
ValidEncodingsRead ==
  (call.kind \in LebKinds /\ status /= "reading" /\ Ref.ok) =>
     /\ status = "returned"
     /\ pos = Ref.len
     /\ result = RefGroups

(***************************************************************************)
(* Spec 4.1: "every integer immediate declares its maximum bit-width ...   *)
(* and the reader enforces it": a read returns only an encoding of an      *)
(* integer of max_bits bits, and returns the value that encoding denotes,  *)
(* sign-extended exactly when it is negative (the `shift < size` test).    *)
(***************************************************************************)
ReturnsEncodedValue ==
  (call.kind \in LebKinds /\ status = "returned") => Ref.ok /\ neg = Ref.neg

(***************************************************************************)
(* _skip_init_expr and _parse_limits leave the reader exactly after every *)
(* payload the grammar accepts, so the next entry of a global, data or    *)
(* element segment, import or memory section starts where it should.  It *)
(* takes the opcode loop, the immediate each opcode selects and the       *)
(* reader's own loops together: a 0x0B byte inside an i32.const or the    *)
(* four bytes of an f32.const must not end the expression, and a flags    *)
(* byte of 0x01 must make _parse_limits read the max.                     *)
(***************************************************************************)
PayloadsSkippedExactly ==
  (call.kind \notin LebKinds /\ status /= "reading" /\ RefSkip.ok) =>
     status = "returned" /\ pos = RefSkip.len
=============================================================================
