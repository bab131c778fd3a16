--------------------------- MODULE MC_ModuleReader ---------------------------
(***************************************************************************)
(* Files of up to MaxSections sections drawn from a small catalogue of     *)
(* section shapes, each with a correct or a wrong preamble.  A cut-short   *)
(* envelope can only be the last section of a file.                        *)
(***************************************************************************)
EXTENDS ModuleReader

MaxSections == 3

Sec(id, size, len, items, bad, env) ==
  [id |-> id, size |-> size, len |-> len, items |-> items, bad |-> bad,
   env |-> env]

CustomExact   == Sec(0, 2, 2, <<>>, FALSE, "ok")
CustomData    == Sec(0, 5, 2, <<>>, FALSE, "ok")     \* name, then 3 data bytes
TypeSec       == Sec(1, 4, 4, <<[params |-> 0, results |-> 1]>>, FALSE, "ok")
TypeBadForm   == Sec(1, 4, 4, <<>>, TRUE, "ok")
ImportSec     == Sec(2, 6, 6, <<0>>, FALSE, "ok")
FunctionSec   == Sec(3, 2, 2, <<0>>, FALSE, "ok")
FunctionShort == Sec(3, 1, 2, <<0>>, FALSE, "ok")    \* count past its size
CodeSec       == Sec(10, 4, 4, <<"b1">>, FALSE, "ok")
CodeSlack     == Sec(10, 5, 4, <<"b2">>, FALSE, "ok") \* one byte left over
CodeOverrun   == Sec(10, 3, 4, <<"b3">>, FALSE, "ok") \* a body past its size
DataSec       == Sec(11, 5, 5, <<"d1">>, FALSE, "ok")
UnknownSec    == Sec(13, 3, 0, <<>>, FALSE, "ok")
UnknownEmpty  == Sec(13, 0, 0, <<>>, FALSE, "ok")
CodeOversize  == Sec(10, 9, 4, <<"b1">>, FALSE, "oversize")
HeaderEOF     == Sec(1, 0, 0, <<>>, FALSE, "eof")

Whole == {CustomExact, CustomData, TypeSec, TypeBadForm, ImportSec,
          FunctionSec, FunctionShort, CodeSec, CodeSlack, CodeOverrun, DataSec,
          UnknownSec, UnknownEmpty}
Cut == {CodeOversize, HeaderEOF}

MC_Files ==
  {[header |-> h, secs |-> ss] :
     h \in {"ok", "bad_magic"},
     ss \in BoundedSeq(Whole, MaxSections)
            \cup {s \o <<c>> : s \in BoundedSeq(Whole, MaxSections - 1), c \in Cut}}
=============================================================================
