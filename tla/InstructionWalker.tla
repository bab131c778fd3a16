-------------------------- MODULE InstructionWalker --------------------------
(***************************************************************************)
(* The opcode census of opcode_counter.py at byte level: the locals        *)
(* declaration, decode_and_skip_immediates and the two drivers,            *)
(* count_opcodes_in_code (the full census) and                             *)
(* count_single_mnemonic_in_code (one mnemonic), run on the same code     *)
(* bodies with the same exclude_structural flag, the full census first.   *)
(*                                                                         *)
(* A code body is a program: a locals declaration and a sequence of        *)
(* instructions, each given by its encoding and the mnemonic the spec's    *)
(* tables assign it; the body the tools read is the concatenated bytes.    *)
(* OPCODE_NAME and FC_SUBOP_NAME name every opcode and subop differently  *)
(* (and "opcode_0x<hh>" names the rest), so a mnemonic is abstracted to   *)
(* the pair <<opcode, subop>> (subop -1 outside the 0xFC prefix).          *)
(***************************************************************************)
EXTENDS Integers, Sequences, SequencesExt, Bags, Bitwise

CONSTANTS
  Programs,   \* sets of code bodies: sequences of [locals, instrs]
  Targets,    \* mnemonics asked for in the single-mnemonic mode
  ValueCap    \* LEB128 values are kept up to ValueCap, above any body length

VARIABLES
  prog, exclude, target,
  cfn, cpos, cphase, counts, emitted,  \* count_opcodes_in_code
  sfn, spos, sphase, scount            \* count_single_mnemonic_in_code

census_vars == <<cfn, cpos, cphase, counts, emitted>>
single_vars == <<sfn, spos, sphase, scount>>
vars == <<prog, exclude, target, census_vars, single_vars>>

Body(p) == p.locals \o FlattenSeq([i \in DOMAIN p.instrs |-> p.instrs[i].bytes])

STRUCTURAL == {2, 3, 4, 5, 11}

Mnemonic(op, sub) == <<op, sub>>

Fail(e) == [ok |-> FALSE, next |-> 0, val |-> 0, err |-> e]

\* read_uleb / read_sleb as the skipping code sees them: where the value
\* ends and, for counts, its value (capped at ValueCap)
RECURSIVE LebFrom(_, _, _, _)
LebFrom(b, i, shift, max_bits) ==
  IF shift >= max_bits + 7 THEN Fail("leb-overflow")
  ELSE IF i > Len(b) THEN Fail("EOF")
  ELSE IF b[i] & 128 = 0
  THEN [ok |-> TRUE, next |-> i + 1, val |-> b[i], err |-> "none"]
  ELSE LET r == LebFrom(b, i + 1, shift + 7, max_bits)
           v == (b[i] & 127) + 128 * r.val
       IN IF r.ok THEN [r EXCEPT !.val = IF v > ValueCap THEN ValueCap ELSE v]
          ELSE r

\* mutant: read_bytes without its end-of-data check
ReadBytesUnchecked(b, i, n) ==
  [ok |-> TRUE, next |-> i + n, val |-> 0, err |-> "none"]

\* read_u8 / read_bytes(n): n bytes or EOF
ReadBytes(b, i, n) ==
  IF i + n > Len(b) + 1 THEN Fail("EOF")
  ELSE [ok |-> TRUE, next |-> i + n, val |-> 0, err |-> "none"]

RECURSIVE ReadImm(_, _, _), Skip(_, _, _)

\* one immediate: a LEB128 of a width, fixed bytes, _skip_vec_valtype,
\* _skip_br_table
ReadImm(b, i, k) ==
  CASE k = "u32" -> LebFrom(b, i, 0, 32)
    [] k = "s32" -> LebFrom(b, i, 0, 32)
    [] k = "s33" -> LebFrom(b, i, 0, 33)
    [] k = "s64" -> LebFrom(b, i, 0, 64)
    [] k = "u8"  -> ReadBytes(b, i, 1)
    [] k = "b4"  -> ReadBytes(b, i, 4)
    [] k = "b8"  -> ReadBytes(b, i, 8)
    [] k = "vec" -> LET n == LebFrom(b, i, 0, 32) IN
                    IF n.ok THEN ReadBytes(b, n.next, n.val) ELSE n
    [] k = "br_table" ->
         LET n == LebFrom(b, i, 0, 32) IN
         IF n.ok THEN Skip(b, n.next, [j \in 1..n.val + 1 |-> "u32"]) ELSE n

\* a sequence of immediates, in order
Skip(b, i, ks) ==
  IF ks = <<>> THEN [ok |-> TRUE, next |-> i, val |-> 0, err |-> "none"]
  ELSE LET r == ReadImm(b, i, Head(ks)) IN
       IF r.ok THEN Skip(b, r.next, Tail(ks)) ELSE r

\* mutant: br_if left out of the opcodes with one u32 index
OneIndexOpsNoBrIf == {12, 16, 32, 33, 34, 35, 36, 210, 37, 38, 63, 64}

\* br, br_if, call, local.*, global.*, ref.func, table.get/set,
\* memory.size/grow
OneIndexOps == {12, 13, 16, 32, 33, 34, 35, 36, 210, 37, 38, 63, 64}

\* the immediates decode_and_skip_immediates skips for a one-byte opcode
Shapes(op) ==
  CASE op \in {2, 3, 4} -> <<"s33">>
    [] op \in OneIndexOps -> <<"u32">>
    [] op = 14 -> <<"br_table">>
    [] op = 17 -> <<"u32", "u32">>
    [] op = 28 -> <<"vec">>
    [] op \in 40..62 -> <<"u32", "u32">>
    [] op = 65 -> <<"s32">>  [] op = 66 -> <<"s64">>
    [] op = 67 -> <<"b4">>   [] op = 68 -> <<"b8">>
    [] op = 208 -> <<"s33">>
    [] OTHER -> <<>>

\* the immediates of a 0xFC subop
FcShapes(sub) ==
  CASE sub \in 0..7              -> <<>>
    [] sub \in {8, 10, 12, 14}    -> <<"u32", "u32">>
    [] sub \in {9, 11, 13, 15, 16, 17} -> <<"u32">>

\* decode_and_skip_immediates for the opcode byte at i - 1:
\* [ok, next, err, mnem]
Decode(b, i) ==
  LET op == b[i - 1] IN
  IF op /= 252
  THEN LET r == Skip(b, i, Shapes(op)) IN
       [ok |-> r.ok, next |-> r.next, err |-> r.err, mnem |-> Mnemonic(op, -1)]
  ELSE LET s == LebFrom(b, i, 0, 32) IN
       IF ~s.ok THEN [ok |-> FALSE, next |-> 0, err |-> s.err, mnem |-> <<>>]
       ELSE IF s.val > 17
       THEN [ok |-> FALSE, next |-> 0, err |-> "unsupported-0xFC-subop",
             mnem |-> <<>>]
       ELSE LET r == Skip(b, s.next, FcShapes(s.val)) IN
            [ok |-> r.ok, next |-> r.next, err |-> r.err,
             mnem |-> Mnemonic(252, s.val)]

\* the locals declaration: a count, then that many (uleb32 count, valtype)
LocalsEnd(b) ==
  LET n == LebFrom(b, 1, 0, 32) IN
  IF n.ok THEN Skip(b, n.next, [j \in 1..2 * n.val |->
                                  IF j % 2 = 1 THEN "u32" ELSE "u8"])
  ELSE n

\* `opcode = r.read_u8(); decode_and_skip_immediates(opcode, r)` at byte
\* i - 1 of body b, as the drivers call it (a model may tabulate it)
DecodeAt(b, i) == Decode(b, i)

Init ==
  /\ prog \in Programs /\ exclude \in BOOLEAN /\ target \in Targets
  /\ cfn = 1 /\ cpos = 0 /\ cphase = "start" /\ counts = EmptyBag
  /\ emitted = <<>>
  /\ sfn = 1 /\ spos = 0 /\ sphase = "start" /\ scount = 0

\* `if exclude_structural and opcode in STRUCTURAL: continue`
Counted(op) == ~(exclude /\ op \in STRUCTURAL)

Done(phase) == phase \in {"returned", "raised"}

-----------------------------------------------------------------------------
(* count_opcodes_in_code *)

\* the locals declaration of body cfn
CensusStartBody ==
  /\ cphase = "start" /\ cfn <= Len(prog)
  /\ LET l == LocalsEnd(Body(prog[cfn])) IN
     IF l.ok THEN cphase' = "walk" /\ cpos' = l.next
     ELSE cphase' = "raised" /\ UNCHANGED cpos
  /\ UNCHANGED <<prog, exclude, target, cfn, counts, emitted, single_vars>>

\* mutant: the structural filter tests a peeked opcode and `continue`s
\* before the opcode is consumed
CensusStepPeek ==
  /\ cphase = "walk" /\ cpos <= Len(Body(prog[cfn]))
  /\ LET b  == Body(prog[cfn])
         op == b[cpos]
         d  == DecodeAt(b, cpos + 1)
     IN IF ~Counted(op) THEN UNCHANGED <<cpos, counts, emitted, cphase>>
        ELSE IF ~d.ok THEN cphase' = "raised" /\ UNCHANGED <<cpos, counts, emitted>>
        ELSE /\ cpos' = d.next
             /\ emitted' = Append(emitted, d.mnem)
             /\ counts' = counts (+) SetToBag({d.mnem})
             /\ cphase' = IF op = 253 THEN "raised" ELSE "walk"
  /\ UNCHANGED <<prog, exclude, target, cfn, single_vars>>

\* one iteration of the opcode loop: read, decode, filter, add, the 0xFD check
CensusStep ==
  /\ cphase = "walk" /\ cpos <= Len(Body(prog[cfn]))
  /\ LET b  == Body(prog[cfn])
         op == b[cpos]
         d  == DecodeAt(b, cpos + 1)
     IN IF ~d.ok THEN cphase' = "raised" /\ UNCHANGED <<cpos, counts, emitted>>
        ELSE /\ cpos' = d.next
             /\ emitted' = Append(emitted, d.mnem)
             /\ IF ~Counted(op) THEN UNCHANGED <<counts, cphase>>
                ELSE /\ counts' = counts (+) SetToBag({d.mnem})
                     /\ cphase' = IF op = 253 THEN "raised" ELSE "walk"
  /\ UNCHANGED <<prog, exclude, target, cfn, single_vars>>

CensusEndBody ==
  /\ cphase = "walk" /\ cpos > Len(Body(prog[cfn]))
  /\ cfn' = cfn + 1 /\ cphase' = "start"
  /\ UNCHANGED <<prog, exclude, target, cpos, counts, emitted, single_vars>>

CensusReturn ==
  /\ cphase = "start" /\ cfn > Len(prog)
  /\ cphase' = "returned"
  /\ UNCHANGED <<prog, exclude, target, cfn, cpos, counts, emitted, single_vars>>

-----------------------------------------------------------------------------
(* count_single_mnemonic_in_code, run once the census has finished *)

\* mutant: the structural filter left out of the single-mnemonic loop
SingleCountsUnfiltered(op, m) == m = target

SingleCounts(op, m) == Counted(op) /\ m = target

SingleStartBody ==
  /\ Done(cphase) /\ sphase = "start" /\ sfn <= Len(prog)
  /\ LET l == LocalsEnd(Body(prog[sfn])) IN
     IF l.ok THEN sphase' = "walk" /\ spos' = l.next
     ELSE sphase' = "raised" /\ UNCHANGED spos
  /\ UNCHANGED <<prog, exclude, target, census_vars, sfn, scount>>

\* one iteration: read, decode, filter, compare with the mnemonic asked for
SingleStep ==
  /\ sphase = "walk" /\ spos <= Len(Body(prog[sfn]))
  /\ LET b == Body(prog[sfn])
         d == DecodeAt(b, spos + 1)
     IN IF ~d.ok THEN sphase' = "raised" /\ UNCHANGED <<spos, scount>>
        ELSE /\ spos' = d.next
             /\ scount' = scount + (IF SingleCounts(b[spos], d.mnem) THEN 1 ELSE 0)
             /\ UNCHANGED sphase
  /\ UNCHANGED <<prog, exclude, target, census_vars, sfn>>

SingleEndBody ==
  /\ sphase = "walk" /\ spos > Len(Body(prog[sfn]))
  /\ sfn' = sfn + 1 /\ sphase' = "start"
  /\ UNCHANGED <<prog, exclude, target, census_vars, spos, scount>>

SingleReturn ==
  /\ Done(cphase) /\ sphase = "start" /\ sfn > Len(prog)
  /\ sphase' = "returned"
  /\ UNCHANGED <<prog, exclude, target, census_vars, sfn, spos, scount>>

Terminated == Done(cphase) /\ Done(sphase) /\ UNCHANGED vars

Next ==
  \/ CensusStartBody \/ CensusStep \/ CensusEndBody \/ CensusReturn
  \/ SingleStartBody \/ SingleStep \/ SingleEndBody \/ SingleReturn
  \/ Terminated

Spec == Init /\ [][Next]_vars

\* both drivers are plain sequential loops with nothing to wait for: the
\* interpreter takes the next step while there is one
FairSpec == Spec /\ WF_vars(Next)

-----------------------------------------------------------------------------
Instrs == FlattenSeq([f \in DOMAIN prog |-> prog[f].instrs])

\* the mnemonics of the instructions the bodies encode, in order
Expected == [i \in DOMAIN Instrs |-> Instrs[i].mnem]

AllSupported == \A i \in DOMAIN Instrs : Instrs[i].supported

\* every body declares its locals and uses supported instructions only
WellFormedBodies ==
  AllSupported /\ \A f \in DOMAIN prog : prog[f].locals /= <<>>

\* the readers stay inside their body; counts only hold decoded mnemonics
TypeOK ==
  /\ cphase \in {"start", "walk", "returned", "raised"}
  /\ sphase \in {"start", "walk", "returned", "raised"}
  /\ cfn \in 1..Len(prog) + 1 /\ sfn \in 1..Len(prog) + 1
  /\ cphase = "walk" => cpos \in 1..Len(Body(prog[cfn])) + 1
  /\ sphase = "walk" => spos \in 1..Len(Body(prog[sfn])) + 1
  /\ IsABag(counts) /\ scount \in Nat

(***************************************************************************)
(* Spec 8.1, reader alignment: on bodies of supported instructions the    *)
(* census decodes exactly the instructions the bytes encode, in order, and *)
(* returns.  Every opcode must advance the reader past exactly its         *)
(* immediates (LEB128s of several widths, padded encodings, br_table and  *)
(* select.t vectors, fixed-width constants, 0xFC subops); one opcode that *)
(* skips one byte too few or too many turns all later bytes of the body   *)
(* into wrong opcodes.                                                    *)
(***************************************************************************)
WalkerAligned ==
  (Done(cphase) /\ WellFormedBodies) => cphase = "returned" /\ emitted = Expected

(***************************************************************************)
(* Spec 8.3: the single-mnemonic mode counts what the full census counts  *)
(* for that mnemonic, with the same exclude_structural flag.  The two     *)
(* loops are separate copies of the walk.                                 *)
(***************************************************************************)
SingleMnemonicIsProjection ==
  (cphase = "returned" /\ sphase = "returned") => scount = CopiesIn(target, counts)

(***************************************************************************)
(* Spec 6: SIMD (0xFD) and atomics (0xFE) are not supported and trigger a  *)
(* parse error: neither the census nor the single-mnemonic mode returns   *)
(* an answer for a body using them.  The census checks 0xFD after the     *)
(* structural filter and the count; the single-mnemonic loop does not     *)
(* check it; neither has a branch for 0xFE.                               *)
(***************************************************************************)
UnsupportedPrefixesRejected ==
  \A phase \in {cphase, sphase} : phase = "returned" => AllSupported

(***************************************************************************)
(* Both modes finish: under the interpreter's weak fairness the census     *)
(* and the single-mnemonic count each return or raise on every program.   *)
(* It fails if an iteration of `while not r.at_end()` can leave the reader *)
(* where it was without changing anything else, so the loop spins.        *)
(***************************************************************************)
BothModesFinish == <>(Done(cphase) /\ Done(sphase))
=============================================================================
