---------------------------- MODULE StackTracer ----------------------------
(***************************************************************************)
(* The operand-stack tracer of                                             *)
(* src/tools/wasm_operand_stack_stats/stack_stats.py:                      *)
(* trace_operand_stack_stats walks every code body of a parsed module,    *)
(* keeps an operand-stack height, a polymorphic flag and a stack of        *)
(* control frames, and records the height after each opcode.               *)
(*                                                                         *)
(* A body is not given as bytes: each step reads one opcode whose class    *)
(* and immediates are chosen from small sets, and after each opcode the    *)
(* body either goes on or is at its end (sec.at_end()).  The statistics    *)
(* of several (threshold, include_structural) configurations are kept side *)
(* by side: they only differ in `record`, never in the control state.     *)
(***************************************************************************)
EXTENDS Integers, Sequences, FiniteSets, SequencesExt

CONSTANTS
  Modules,        \* WasmModule values: [types, fti, nbodies]
  Configs,        \* [threshold, include] configurations recorded side by side
  MaxInstr,       \* bound on the opcodes read from one body
  BlockTypes,     \* s33 block-type immediates offered to block/loop/if
  Labels,         \* label immediates offered to br and br_if
  BrTables,       \* [targets, default] immediates offered to br_table
  FuncIdxs,       \* funcidx immediates offered to call
  TypeIdxs,       \* typeidx immediates offered to call_indirect
  Opcodes,        \* the other opcodes (and 0xFC subops) offered to a body
  MemIdxs         \* memidx bytes offered to memory.size / memory.grow

VARIABLES
  module,          \* the parsed WasmModule (fixed)
  status,          \* "prepass" | "start" | "running" | "returned" | "raised"
  err,             \* the exception raised: [kind, opcode]
  fn,              \* local_idx of the body being traced (0-based)
  ctrl,            \* ctrl_stack: sequence of CtrlFrame records
  stack_h,         \* operand stack height
  is_polymorphic,  \* polymorphic-stack flag
  pc,              \* opcodes read from the current body
  more,            \* ~sec.at_end(): the body has more bytes
  fstats,          \* per-config FunctionStats of the current body
  total            \* per-config FunctionStats summed over finished bodies

vars == <<module, status, err, fn, ctrl, stack_h, is_polymorphic, pc, more,
          fstats, total>>

FuncType == [params : Nat, results : Nat]

ASSUME /\ \A m \in Modules : /\ m.types \in Seq(FuncType)
                             /\ m.fti \in Seq(Nat)
                             /\ m.nbodies \in Nat
       /\ \A c \in Configs : c.threshold \in Nat /\ c.include \in BOOLEAN
       /\ MaxInstr \in Nat \ {0}

NoError == [kind |-> "none", opcode |-> "none"]

(***************************************************************************)
(* Stack effect of the opcodes whose branch is a fixed _pop / _push pair   *)
(* (lines 489-628): <<pops, pushes>>.  The opcodes of one class share the  *)
(* branch shape; their immediates are abstracted away.  An opcode outside *)
(* DOMAIN Effect has no branch of its own and reaches the final else.     *)
(***************************************************************************)
Effect ==
  [ drop |-> <<1, 0>>, select |-> <<3, 1>>,
    local_get |-> <<0, 1>>, local_set |-> <<1, 0>>, local_tee |-> <<1, 1>>,
    global_get |-> <<0, 1>>, global_set |-> <<1, 0>>,
    load |-> <<1, 1>>, store |-> <<2, 0>>, const |-> <<0, 1>>,
    testop |-> <<1, 1>>, relop |-> <<2, 1>>, unop |-> <<1, 1>>,
    binop |-> <<2, 1>>, cvtop |-> <<1, 1>>,
    trunc_sat |-> <<1, 1>>, bulk3 |-> <<3, 0>>, seg_drop |-> <<0, 0>>,
    table_grow |-> <<2, 1>>, table_size |-> <<0, 1>> ]

EmptyStats == [instructions_counted |-> 0, above_threshold |-> 0,
               at_or_below_threshold |-> 0, max_stack_height |-> 0]

(***************************************************************************)
(* Module-level values computed once (lines 327-339).                     *)
(***************************************************************************)
imported_func_count ==
  IF Len(module.fti) - module.nbodies < 0 THEN 0
  ELSE Len(module.fti) - module.nbodies

func_sigs == [i \in 1..Len(module.fti) |-> module.types[module.fti[i] + 1]]

\* func_type of local body fn: FuncType(0, 0) when the index is past func_sigs
FuncTypeOf(f) ==
  IF imported_func_count + f < Len(module.fti)
  THEN func_sigs[imported_func_count + f + 1]
  ELSE [params |-> 0, results |-> 0]

FunctionFrame(ft) ==
  [base |-> 0, label_arity |-> ft.results, end_arity |-> ft.results,
   kind |-> "function", polymorphic_base |-> FALSE,
   then_polymorphic_end |-> FALSE]

Top == ctrl[Len(ctrl)]
frame_base == Top.base

\* ctrl_stack[-1 - label]
Target(label) == ctrl[Len(ctrl) - label]

\* mutant: a polymorphic pop that forgets the clamp at the frame base
PopOneUnclamped(r, n) ==
  IF ~r.ok \/ n <= 0 THEN r
  ELSE IF ~is_polymorphic
       THEN IF r.h < n THEN [ok |-> FALSE, h |-> r.h]
            ELSE [ok |-> TRUE, h |-> r.h - n]
       ELSE [ok |-> TRUE, h |-> r.h - n]

(***************************************************************************)
(* _pop applied to a height that may already have underflowed:            *)
(* r.ok is FALSE once a non-polymorphic pop finds fewer than n values.    *)
(***************************************************************************)
PopOne(r, n) ==
  IF ~r.ok \/ n <= 0 THEN r
  ELSE IF ~is_polymorphic
       THEN IF r.h < n THEN [ok |-> FALSE, h |-> r.h]
            ELSE [ok |-> TRUE, h |-> r.h - n]
       ELSE [ok |-> TRUE, h |-> Max({frame_base, r.h - n})]

\* the successive _pop calls of one opcode branch, in their order
Pops(ns) == FoldLeft(PopOne, [ok |-> TRUE, h |-> stack_h], ns)

\* _push
Push(h, n) == IF n <= 0 THEN h ELSE h + n

LabelArityOf(opcode, ar) == IF opcode = "loop" THEN ar.params ELSE ar.results

\* _block_arity (lines 261-272): [ok, params, results]
BlockArity(bt) ==
  CASE bt = -64             -> [ok |-> TRUE, params |-> 0, results |-> 0]
    [] bt \in {-1, -2, -3, -4} -> [ok |-> TRUE, params |-> 0, results |-> 1]
    [] bt >= 0 /\ bt < Len(module.types) ->
         [ok |-> TRUE, params |-> module.types[bt + 1].params,
                       results |-> module.types[bt + 1].results]
    [] OTHER                -> [ok |-> FALSE, params |-> 0, results |-> 0]

(***************************************************************************)
(* record (lines 344-352), for every configuration at once.               *)
(***************************************************************************)
Record(st, h, structural) ==
  [c \in Configs |->
     IF ~c.include /\ structural THEN st[c]
     ELSE [instructions_counted |-> st[c].instructions_counted + 1,
           max_stack_height |-> Max({st[c].max_stack_height, h}),
           above_threshold |-> st[c].above_threshold
                                 + (IF h > c.threshold THEN 1 ELSE 0),
           at_or_below_threshold |-> st[c].at_or_below_threshold
                                 + (IF h > c.threshold THEN 0 ELSE 1)]]

\* whether the body goes on after the opcode now being read
NextMore == IF pc + 1 < MaxInstr THEN BOOLEAN ELSE {FALSE}

\* an opcode branch raises WasmParseError (or another exception)
Raise(kind, opcode) ==
  /\ status' = "raised"
  /\ err' = [kind |-> kind, opcode |-> opcode]
  /\ UNCHANGED <<module, fn, ctrl, stack_h, is_polymorphic, pc, more,
                 fstats, total>>

\* an opcode branch completes: its stack update, then record(...)
Continue(h, poly, frames, opcode, m) ==
  /\ stack_h' = h
  /\ is_polymorphic' = poly
  /\ ctrl' = frames
  /\ fstats' = Record(fstats, h, opcode \in {"block", "loop", "if", "else", "end"})
  /\ pc' = pc + 1
  /\ more' = m
  /\ UNCHANGED <<module, status, err, fn, total>>

\* the loop body of line 377 is entered: an opcode is read
Reading == status = "running" /\ more /\ ctrl /= <<>>

\* ordinary completion of an opcode whose pops are ns and pushes k
PopPush(opcode, ns, k) ==
  LET r == Pops(ns) IN
  IF ~r.ok THEN Raise("operand stack underflow", opcode)
  ELSE \E m \in NextMore :
         Continue(Push(r.h, k), is_polymorphic, ctrl, opcode, m)
-----------------------------------------------------------------------------
(***************************************************************************)
(* Initial state and the driver loop (lines 324-375, 636-644).            *)
(***************************************************************************)
Init ==
  /\ module \in Modules
  /\ status = "prepass"
  /\ err = NoError
  /\ fn = 0
  /\ ctrl = <<>>
  /\ stack_h = 0
  /\ is_polymorphic = FALSE
  /\ pc = 0
  /\ more = FALSE
  /\ fstats = [c \in Configs |-> EmptyStats]
  /\ total = [c \in Configs |-> EmptyStats]

\* func_sigs is built before any body is traced; a bad typeidx aborts
Prepass ==
  /\ status = "prepass"
  /\ IF \E i \in 1..Len(module.fti) : module.fti[i] >= Len(module.types)
     THEN Raise("function typeidx out of range", "none")
     ELSE /\ status' = "start"
          /\ UNCHANGED <<module, err, fn, ctrl, stack_h, is_polymorphic, pc,
                         more, fstats, total>>

\* mutant: the loop over the bodies runs one index too far
HasBodyInclusive == fn <= module.nbodies

\* the for loop over module.code_bodies has a body left
HasBody == fn < module.nbodies

\* a new body: locals declaration read, function frame pushed
StartBody ==
  /\ status = "start"
  /\ HasBody
  /\ status' = "running"
  /\ ctrl' = <<FunctionFrame(FuncTypeOf(fn))>>
  /\ stack_h' = 0
  /\ is_polymorphic' = FALSE
  /\ pc' = 0
  /\ more' \in BOOLEAN
  /\ fstats' = [c \in Configs |-> EmptyStats]
  /\ UNCHANGED <<module, err, fn, total>>

\* the body ends inside its locals declaration (read_uleb / read_u8)
LocalsTruncated ==
  /\ status = "start"
  /\ HasBody
  /\ Raise("unexpected EOF", "locals")

\* the while loop ends at the end of the body, whatever frames are open
FinishBody ==
  /\ status = "running"
  /\ ~more
  /\ status' = "start"
  /\ fn' = fn + 1
  /\ total' = [c \in Configs |->
                [instructions_counted |-> total[c].instructions_counted
                                          + fstats[c].instructions_counted,
                 above_threshold |-> total[c].above_threshold
                                     + fstats[c].above_threshold,
                 at_or_below_threshold |-> total[c].at_or_below_threshold
                                           + fstats[c].at_or_below_threshold,
                 max_stack_height |-> Max({total[c].max_stack_height,
                                           fstats[c].max_stack_height})]]
  /\ UNCHANGED <<module, err, ctrl, stack_h, is_polymorphic, pc, more, fstats>>

ReturnTotals ==
  /\ status = "start"
  /\ ~HasBody
  /\ status' = "returned"
  /\ UNCHANGED <<module, err, fn, ctrl, stack_h, is_polymorphic, pc, more,
                 fstats, total>>

\* the body ends inside the immediates of an opcode
TruncatedImmediate ==
  /\ Reading
  /\ Raise("unexpected EOF", "immediate")

-----------------------------------------------------------------------------
(***************************************************************************)
(* One action per opcode branch of lines 382-632.                          *)
(***************************************************************************)
Unreachable ==
  /\ Reading
  /\ \E m \in NextMore : Continue(stack_h, TRUE, ctrl, "unreachable", m)

Nop ==
  /\ Reading
  /\ \E m \in NextMore : Continue(stack_h, is_polymorphic, ctrl, "nop", m)

\* block / loop / if: pop the condition (if) and the params, push a frame
BlockStart(opcode, bt) ==
  /\ Reading
  /\ LET ar == BlockArity(bt)
         r  == Pops(IF opcode = "if" THEN <<1, ar.params>> ELSE <<ar.params>>)
         frame == [base |-> r.h,
                   label_arity |-> LabelArityOf(opcode, ar),
                   end_arity |-> ar.results, kind |-> opcode,
                   polymorphic_base |-> is_polymorphic,
                   then_polymorphic_end |-> FALSE]
     IN CASE ~ar.ok -> Raise("block type", opcode)
          [] ~r.ok  -> Raise("operand stack underflow", opcode)
          [] OTHER  -> \E m \in NextMore :
                         Continue(r.h, is_polymorphic, Append(ctrl, frame),
                                  opcode, m)

Else ==
  /\ Reading
  /\ IF Top.kind /= "if" THEN Raise("else outside if", "else")
     ELSE \E m \in NextMore :
            Continue(Top.base, Top.polymorphic_base,
                     [ctrl EXCEPT ![Len(ctrl)] =
                        [@ EXCEPT !.then_polymorphic_end = is_polymorphic,
                                  !.kind = "else"]],
                     "else", m)

\* bytes remain after the end of the function frame
TrailingBytes(frame, m) == frame.kind = "function" /\ m

\* end: check the results unless polymorphic, keep only the declared
\* results, merge the polymorphic flag, reject bytes after the function end
\* after an end the loop of line 377 goes round again while bytes remain,
\* and line 380 reads ctrl_stack[-1]: of an empty stack, an IndexError
AfterEnd(h, poly, frames, m) ==
  IF frames = <<>> /\ m THEN Raise("IndexError", "end")
  ELSE Continue(h, poly, frames, "end", m)

End ==
  /\ Reading
  /\ LET frame == Top
         want  == frame.base + frame.end_arity
         poly  == IF frame.kind = "else"
                  THEN frame.polymorphic_base
                       \/ (frame.then_polymorphic_end /\ is_polymorphic)
                  ELSE frame.polymorphic_base
     IN CASE ~is_polymorphic /\ stack_h < want ->
               Raise("end result underflow", "end")
          [] ~is_polymorphic /\ stack_h /= want ->
               Raise("end result mismatch", "end")
          [] OTHER ->
               \E m \in NextMore :
                 IF TrailingBytes(frame, m)
                 THEN Raise("trailing bytes after function end", "end")
                 ELSE AfterEnd(want, poly, Front(ctrl), m)

Br(label) ==
  /\ Reading
  /\ IF label >= Len(ctrl) THEN Raise("illegal label index", "br")
     ELSE LET r == Pops(<<Target(label).label_arity>>) IN
          IF ~r.ok THEN Raise("operand stack underflow", "br")
          ELSE \E m \in NextMore : Continue(frame_base, TRUE, ctrl, "br", m)

BrIf(label) ==
  /\ Reading
  /\ IF label >= Len(ctrl) THEN Raise("illegal label index", "br_if")
     ELSE PopPush("br_if", <<1>>, 0)

BrTable(tbl) ==
  /\ Reading
  /\ IF \/ tbl.default >= Len(ctrl)
        \/ \E i \in DOMAIN tbl.targets : tbl.targets[i] >= Len(ctrl)
     THEN Raise("illegal label index", "br_table")
     ELSE LET r == Pops(<<1, Target(tbl.default).label_arity>>) IN
          IF ~r.ok THEN Raise("operand stack underflow", "br_table")
          ELSE \E m \in NextMore :
                 Continue(frame_base, TRUE, ctrl, "br_table", m)

Return ==
  /\ Reading
  /\ LET r == Pops(<<ctrl[1].end_arity>>) IN
     IF ~r.ok THEN Raise("operand stack underflow", "return")
     ELSE \E m \in NextMore : Continue(frame_base, TRUE, ctrl, "return", m)

Call(funcidx) ==
  /\ Reading
  /\ IF funcidx >= Len(func_sigs) THEN Raise("call funcidx out of range", "call")
     ELSE PopPush("call", <<func_sigs[funcidx + 1].params>>,
                  func_sigs[funcidx + 1].results)

CallIndirect(typeidx) ==
  /\ Reading
  /\ IF typeidx >= Len(module.types)
     THEN Raise("call_indirect typeidx out of range", "call_indirect")
     ELSE PopPush("call_indirect", <<1, module.types[typeidx + 1].params>>,
                  module.types[typeidx + 1].results)

\* the branches that are a fixed pop / push pair
Simple(opcode) ==
  /\ Reading
  /\ opcode \in DOMAIN Effect
  /\ PopPush(opcode, <<Effect[opcode][1]>>, Effect[opcode][2])

\* memory.size / memory.grow read their memidx with read_u8
MemoryOp(opcode, memidx) ==
  /\ Reading
  /\ IF memidx /= 0 THEN Raise("non-zero memidx", opcode)
     ELSE IF opcode = "memory.size" THEN PopPush(opcode, <<>>, 1)
     ELSE PopPush(opcode, <<1>>, 1)

\* an opcode or 0xFC subop no branch of the elif chain takes
Unsupported(opcode) ==
  /\ Reading
  /\ opcode \notin DOMAIN Effect
  /\ Raise("unsupported opcode", opcode)

\* the program has returned or raised: nothing more happens
Terminated ==
  /\ status \in {"returned", "raised"}
  /\ UNCHANGED vars

Next ==
  \/ Prepass \/ StartBody \/ LocalsTruncated \/ FinishBody \/ ReturnTotals
  \/ TruncatedImmediate
  \/ Unreachable \/ Nop \/ Else \/ End \/ Return
  \/ \E op \in {"block", "loop", "if"}, bt \in BlockTypes : BlockStart(op, bt)
  \/ \E l \in Labels : Br(l) \/ BrIf(l)
  \/ \E t \in BrTables : BrTable(t)
  \/ \E f \in FuncIdxs : Call(f)
  \/ \E t \in TypeIdxs : CallIndirect(t)
  \/ \E op \in Opcodes : Simple(op) \/ Unsupported(op)
  \/ \E op \in {"memory.size", "memory.grow"}, i \in MemIdxs : MemoryOp(op, i)
  \/ Terminated

Spec == Init /\ [][Next]_vars
-----------------------------------------------------------------------------
(***************************************************************************)
(* Properties.                                                             *)
(***************************************************************************)
Frame == [base : Nat, label_arity : Nat, end_arity : Nat,
          kind : {"function", "block", "loop", "if", "else"},
          polymorphic_base : BOOLEAN, then_polymorphic_end : BOOLEAN]

Stats == [instructions_counted : Nat, above_threshold : Nat,
          at_or_below_threshold : Nat, max_stack_height : Nat]

TypeOK ==
  /\ module \in Modules
  /\ status \in {"prepass", "start", "running", "returned", "raised"}
  /\ fn \in 0..module.nbodies
  /\ ctrl \in Seq(Frame)
  /\ stack_h \in Int
  /\ is_polymorphic \in BOOLEAN
  /\ pc \in 0..MaxInstr
  /\ more \in BOOLEAN
  /\ fstats \in [Configs -> Stats]
  /\ total \in [Configs -> Stats]

\* The operand-stack height is never negative, whatever mix of checked
\* pops (non-polymorphic _pop), clamped pops (polymorphic _pop), forced
\* heights (br, br_table, return, else, end) and frame bases a body
\* produces (spec section 8, property 4, first half).
StackHeightNonNegative == status = "running" => stack_h >= 0

\* Spec section 8, property 4, second half: outside polymorphic mode the
\* height never drops below the base of the innermost control frame.
FrameBaseFloor ==
  (status = "running" /\ ctrl /= <<>> /\ ~is_polymorphic)
     => stack_h >= Top.base

\* Spec section 8, property 9: toggling include_structural leaves
\* max_stack_height unchanged (compared for configs of equal threshold).
MaxIndependentOfStructural ==
  \A c, d \in Configs :
     c.threshold = d.threshold =>
       fstats[c].max_stack_height = fstats[d].max_stack_height
=============================================================================
