-------------------------- MODULE TracerValidation --------------------------
(***************************************************************************)
(* The stack tracer run in lock step with the reference validator          *)
(* (ArityValidator) over the same instruction stream: each tracer step is  *)
(* paired with the validator step of the same instruction, with the        *)
(* arities the tracer resolved from the module.  Malformed input (bad      *)
(* indices, truncated immediates, non-MVP prefixes, bytes after the       *)
(* function end, a function/code count mismatch) makes the validator      *)
(* reject the module, after which nothing is claimed.                     *)
(***************************************************************************)
EXTENDS StackTracer

VARIABLES vh, vctrl, vstate

V == INSTANCE ArityValidator

validator_vars == <<vh, vctrl, vstate>>

allvars == <<vars, validator_vars>>

\* a well-formed module: type indices in range, one body per own function
ModuleValid ==
  /\ \A i \in 1..Len(module.fti) : module.fti[i] < Len(module.types)
  /\ Len(module.fti) = module.nimports + module.nbodies

\* the results of the function a body belongs to, by the module's real
\* import count (none past the last declared function)
ValidResults(f) ==
  IF module.nimports + f < Len(module.fti)
  THEN module.types[module.fti[module.nimports + f + 1] + 1].results
  ELSE 0

\* the stack effects the specification gives the opcodes (section 4.4):
\* those of the tracer's branches, and select.t "behaves identically" to
\* select for heights
SpecEffect == [op \in DOMAIN Effect \cup {"select.t"} |->
                 IF op = "select.t" THEN Effect["select"] ELSE Effect[op]]

\* an end that finds bytes after the function's end: the body is malformed
\* whatever the tracer does; any other end is judged by the reference
TrailingEnd == err'.kind = "trailing bytes after function end"

PInit == Init /\ V!VInit

PNext ==
  \/ Prepass /\ IF ModuleValid THEN UNCHANGED validator_vars ELSE V!Invalid
  \/ StartBody /\ IF ModuleValid THEN V!VStart(ValidResults(fn), TRUE)
                  ELSE V!VStart(0, FALSE)
  \/ LocalsTruncated /\ V!Invalid
  \/ FinishBody /\ V!VFinish
  \/ ReturnTotals /\ UNCHANGED validator_vars
  \/ TruncatedImmediate /\ V!VReject
  \/ Unreachable /\ V!VUnreachable
  \/ Nop /\ V!VPopPush(<<>>, 0)
  \/ Else /\ V!VElse
  \/ End /\ IF TrailingEnd THEN V!VReject ELSE V!VEnd
  \/ Return /\ V!VReturn
  \/ \E op \in {"block", "loop", "if"}, bt \in BlockTypes :
       /\ BlockStart(op, bt)
       /\ IF BlockArity(bt).ok
          THEN V!VBlock(op, BlockArity(bt).params, BlockArity(bt).results)
          ELSE V!VReject
  \/ \E l \in Labels : (Br(l) /\ V!VBr(l)) \/ (BrIf(l) /\ V!VBrIf(l))
  \/ \E t \in BrTables : BrTable(t) /\ V!VBrTable(t.targets, t.default)
  \/ \E f \in FuncIdxs :
       /\ Call(f)
       /\ IF f >= Len(func_sigs) THEN V!VReject
          ELSE V!VPopPush(<<func_sigs[f + 1].params>>, func_sigs[f + 1].results)
  \/ \E t \in TypeIdxs :
       /\ CallIndirect(t)
       /\ IF t >= Len(module.types) THEN V!VReject
          ELSE V!VPopPush(<<1, module.types[t + 1].params>>,
                          module.types[t + 1].results)
  \/ \E op \in Opcodes :
       /\ Simple(op) \/ Unsupported(op)
       /\ IF op \in DOMAIN SpecEffect
          THEN V!VPopPush(<<SpecEffect[op][1]>>, SpecEffect[op][2])
          ELSE V!VReject
  \/ \E op \in {"memory.size", "memory.grow"}, i \in MemIdxs :
       /\ MemoryOp(op, i)
       /\ IF i /= 0 THEN V!VReject
          ELSE IF op = "memory.size" THEN V!VPopPush(<<>>, 1)
          ELSE V!VPopPush(<<1>>, 1)
  \/ Terminated /\ UNCHANGED validator_vars

PSpec == PInit /\ [][PNext]_allvars

(***************************************************************************)
(* Every body the WebAssembly validation algorithm accepts is traced       *)
(* without an exception, and wherever the tracer is not in polymorphic     *)
(* mode it reports exactly the operand-stack height of the reference.      *)
(* It takes several frames, branches and if/else arms to break: a wrong   *)
(* label arity, frame base, forced height or polymorphic restore at end   *)
(* shows up as a rejected valid body or a height off by some values.      *)
(***************************************************************************)
ValidBodiesTracedExactly ==
  /\ vstate /= "invalid" => status /= "raised"
  /\ (vstate = "open" /\ status = "running" /\ ~is_polymorphic)
        => stack_h = vh
=============================================================================
