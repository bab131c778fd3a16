------------------------- MODULE MC_TracerValidation -------------------------
(***************************************************************************)
(* Model values for TracerValidation.  The module has one imported         *)
(* function () -> i32 and one body (i32) -> i32; a second module has a     *)
(* function section longer than its code section, a third none at all (the *)
(* body falls back to () -> ()), a fourth a function whose type index is   *)
(* past the type section (the prepass raises).  MVP_BlockTypes are the    *)
(* block types of WebAssembly 1.0 plus a type index without params;        *)
(* MV_BlockTypes add a type index whose block takes one param.            *)
(***************************************************************************)
EXTENDS TracerValidation

T_v_v == [params |-> 0, results |-> 0]
T_v_i == [params |-> 0, results |-> 1]
T_i_i == [params |-> 1, results |-> 1]

ModImport == [types |-> <<T_v_v, T_v_i, T_i_i>>, fti |-> <<1, 2>>,
              nimports |-> 1, nbodies |-> 1]
ModLong   == [types |-> <<T_v_i, T_i_i>>, fti |-> <<0, 1>>,
              nimports |-> 0, nbodies |-> 1]

\* no function section: the body is traced as () -> ()
ModNoSig   == [types |-> <<T_v_i>>, fti |-> <<>>,
               nimports |-> 0, nbodies |-> 1]
\* a function section entry past the type section
ModBadType == [types |-> <<T_v_v>>, fti |-> <<1>>,
               nimports |-> 0, nbodies |-> 1]

MC_Modules == {ModImport, ModLong, ModNoSig, ModBadType}
MC_Configs == {[threshold |-> 1, include |-> TRUE]}

MVP_BlockTypes == {-64, -1, 1, 7}
MV_BlockTypes  == {-64, 2}
MC_BrTables == {[targets |-> <<0>>, default |-> 1],
                [targets |-> <<1>>, default |-> 0]}
\* a few classes of fixed effect and the SIMD prefix, which has no branch
MC_Opcodes == {"drop", "select", "const", "binop", "0xfd"}
\* select.t (0x1C) among the opcodes a body may hold
MC_SpecOpcodes == {"drop", "select", "const", "select.t"}
=============================================================================
