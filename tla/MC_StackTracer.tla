--------------------------- MODULE MC_StackTracer ---------------------------
(***************************************************************************)
(* Model values for StackTracer: three small modules and a handful of     *)
(* immediates chosen so that in-range and out-of-range indices, nested    *)
(* frames, loops with params, if/else and every error branch are reached. *)
(***************************************************************************)
EXTENDS StackTracer

\* function types as (params, results) arities
T_v_v   == [params |-> 0, results |-> 0]
T_v_i   == [params |-> 0, results |-> 1]
T_i_i   == [params |-> 1, results |-> 1]

\* one import of type () -> i32, one body of type (i32) -> i32
ModImport  == [types |-> <<T_v_v, T_v_i, T_i_i>>, fti |-> <<1, 2>>,
               nimports |-> 1, nbodies |-> 1]
\* two bodies but one declared function: the second falls back to () -> ()
ModShort   == [types |-> <<T_v_i>>, fti |-> <<0>>,
               nimports |-> 0, nbodies |-> 2]
\* a function section entry past the type section
ModBadType == [types |-> <<T_v_v>>, fti |-> <<1>>,
               nimports |-> 0, nbodies |-> 1]

MC_Modules == {ModImport, ModShort, ModBadType}

MC_Configs == {[threshold |-> 0, include |-> TRUE],
               [threshold |-> 0, include |-> FALSE],
               [threshold |-> 1, include |-> FALSE]}

MC_BlockTypes == {-64, -1, 2, 7}
MC_BrTables == {[targets |-> <<0>>, default |-> 1],
                [targets |-> <<4>>, default |-> 0]}
\* a few classes of fixed effect and the SIMD prefix, which has no branch
MC_Opcodes == {"drop", "select", "const", "binop", "0xfd"}
MC_OneConfig == {[threshold |-> 1, include |-> TRUE]}
MC_CoreModules == {ModImport}
MC_DriverModules == {ModShort, ModBadType}
MC_ToggleConfigs == {[threshold |-> 1, include |-> TRUE],
                     [threshold |-> 1, include |-> FALSE]}
=============================================================================
