--------------------------- MODULE ArityValidator ---------------------------
(***************************************************************************)
(* Reference definition of what the stack tracer is measured against: the  *)
(* validation algorithm of the WebAssembly specification (its appendix,    *)
(* "Validation Algorithm"), reduced to operand counts as the tracer is.   *)
(* Each control frame keeps the height of the operand stack at its entry  *)
(* (params excluded, pushed back inside the frame) and its own            *)
(* unreachable flag; a pop below the frame height is an error unless the  *)
(* frame is unreachable, in which case it yields an unknown value.        *)
(*                                                                         *)
(* The operations take arities, not bytes: the module that composes this   *)
(* one with a decoder passes the arities it resolved.                     *)
(***************************************************************************)
EXTENDS Integers, Sequences, SequencesExt

VARIABLES
  vh,      \* operand stack height
  vctrl,   \* control frames: [height, start, end, kind, unreachable]
  vstate   \* "open" (in a body) | "closed" (function end seen) | "invalid"

vvars == <<vh, vctrl, vstate>>

VTop == vctrl[Len(vctrl)]

\* label_types(frame): the params of a loop, the results of anything else
LabelArity(f) == IF f.kind = "loop" THEN f.start ELSE f.end

\* pop_vals(n) against the innermost frame: [ok, h]
VPop(h, n) ==
  IF h - VTop.height >= n THEN [ok |-> TRUE, h |-> h - n]
  ELSE IF VTop.unreachable THEN [ok |-> TRUE, h |-> VTop.height]
  ELSE [ok |-> FALSE, h |-> h]

\* successive pop_vals of one instruction
VPops(ns) == FoldLeft(LAMBDA r, n : IF r.ok THEN VPop(r.h, n) ELSE r,
                      [ok |-> TRUE, h |-> vh], ns)

Invalid == vstate' = "invalid" /\ UNCHANGED <<vh, vctrl>>

\* the step is checked only while a body is open and valid
Checking == vstate = "open"

\* every step after the body is invalid (or once it is closed: trailing)
Skip == IF vstate = "closed" THEN Invalid ELSE UNCHANGED vvars

VInit == vh = 0 /\ vctrl = <<>> /\ vstate = "closed"

\* a function body of `results` results begins; `ok` is FALSE when the
\* module is malformed (function and code section counts disagree)
VStart(results, ok) ==
  IF vstate = "invalid" \/ ~ok THEN Invalid
  ELSE /\ vh' = 0
       /\ vctrl' = <<[height |-> 0, start |-> 0, end |-> results,
                      kind |-> "function", unreachable |-> FALSE]>>
       /\ vstate' = "open"

\* the body ends: it must have been closed by the function's end
VFinish == IF vstate = "open" THEN Invalid ELSE UNCHANGED vvars

\* malformed or unsupported input
VReject == IF Checking THEN Invalid ELSE Skip

VUnreachable ==
  IF ~Checking THEN Skip
  ELSE /\ vh' = VTop.height
       /\ vctrl' = [vctrl EXCEPT ![Len(vctrl)].unreachable = TRUE]
       /\ UNCHANGED vstate

\* an instruction of fixed effect: pops ns, then pushes k
VPopPush(ns, k) ==
  IF ~Checking THEN Skip
  ELSE LET r == VPops(ns) IN
       IF ~r.ok THEN Invalid
       ELSE vh' = r.h + k /\ UNCHANGED <<vctrl, vstate>>

\* block / loop / if with block type params -> results
VBlock(kind, params, results) ==
  IF ~Checking THEN Skip
  ELSE LET r == VPops(IF kind = "if" THEN <<1, params>> ELSE <<params>>) IN
       IF ~r.ok THEN Invalid
       ELSE /\ vctrl' = Append(vctrl, [height |-> r.h, start |-> params,
                                       end |-> results, kind |-> kind,
                                       unreachable |-> FALSE])
            /\ vh' = r.h + params
            /\ UNCHANGED vstate

\* pop_ctrl: the frame's results must be exactly what is above its height
Closes == LET r == VPop(vh, VTop.end) IN r.ok /\ r.h = VTop.height

VElse ==
  IF ~Checking THEN Skip
  ELSE IF VTop.kind /= "if" \/ ~Closes THEN Invalid
  ELSE /\ vctrl' = [vctrl EXCEPT ![Len(vctrl)].kind = "else",
                                 ![Len(vctrl)].unreachable = FALSE]
       /\ vh' = VTop.height + VTop.start
       /\ UNCHANGED vstate

\* an if without else passes its params through as its results
VEnd ==
  IF ~Checking THEN Skip
  ELSE IF ~Closes \/ (VTop.kind = "if" /\ VTop.start /= VTop.end) THEN Invalid
  ELSE /\ vh' = VTop.height + VTop.end
       /\ vctrl' = Front(vctrl)
       /\ vstate' = IF Len(vctrl) = 1 THEN "closed" ELSE "open"

\* unconditional transfer after popping n values
Transfer(ns) ==
  LET r == VPops(ns) IN
  IF ~r.ok THEN Invalid
  ELSE /\ vh' = VTop.height
       /\ vctrl' = [vctrl EXCEPT ![Len(vctrl)].unreachable = TRUE]
       /\ UNCHANGED vstate

VBr(l) ==
  IF ~Checking THEN Skip
  ELSE IF l >= Len(vctrl) THEN Invalid
  ELSE Transfer(<<LabelArity(vctrl[Len(vctrl) - l])>>)

VBrIf(l) ==
  IF ~Checking THEN Skip
  ELSE IF l >= Len(vctrl) THEN Invalid
  ELSE VPopPush(<<1, LabelArity(vctrl[Len(vctrl) - l])>>,
                LabelArity(vctrl[Len(vctrl) - l]))

VBrTable(targets, default) ==
  IF ~Checking THEN Skip
  ELSE IF \/ default >= Len(vctrl)
          \/ \E i \in DOMAIN targets :
                \/ targets[i] >= Len(vctrl)
                \/ LabelArity(vctrl[Len(vctrl) - targets[i]])
                     /= LabelArity(vctrl[Len(vctrl) - default])
       THEN Invalid
  ELSE Transfer(<<1, LabelArity(vctrl[Len(vctrl) - default])>>)

VReturn ==
  IF ~Checking THEN Skip ELSE Transfer(<<vctrl[1].end>>)
=============================================================================
