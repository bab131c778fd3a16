---------------------------- MODULE ModuleReader ----------------------------
(***************************************************************************)
(* The two module readers over the same file:                              *)
(*  - parse_wasm_module (stack tracer, stack_stats.py), which parses every *)
(*    MVP section and requires each section's sub-reader to be fully       *)
(*    consumed;                                                            *)
(*  - parse_code_section_bodies (opcode census, opcode_counter.py), which  *)
(*    parses only the code section and seeks past everything else.         *)
(* A file is its preamble and a sequence of sections.  A section is        *)
(* abstracted to what the readers act on: its id, its declared size, the   *)
(* number of payload bytes the parser of that id reads (len), the entries  *)
(* it contributes (items: FuncTypes, type indices or bodies), whether the  *)
(* payload holds a value the parser rejects (bad: a type form other than   *)
(* 0x60, an unknown import kind, a non-MVP init-expr opcode, a bad UTF-8   *)
(* name) and whether its envelope is cut short (env: the file ends inside  *)
(* the id/size header, or the size runs past the end of the file).         *)
(***************************************************************************)
EXTENDS Integers, Sequences, SequencesExt

CONSTANTS Files

VARIABLES
  file,
  rsec, types, func_type_indices, code_bodies, rstatus, rerr, \* tracer's reader
  csec, ccode_bodies, cstatus, cerr                            \* census's reader

reader_vars == <<rsec, types, func_type_indices, code_bodies, rstatus, rerr>>
census_vars == <<csec, ccode_bodies, cstatus, cerr>>
vars == <<file, reader_vars, census_vars>>

\* section ids parse_wasm_module has a branch for
KnownIds == 0..11

\* both readers check the 8-byte preamble with two read_bytes(4)
PreambleError(f) ==
  CASE f.header = "short"       -> "EOF"
    [] f.header = "bad_magic"   -> "bad-magic"
    [] f.header = "bad_version" -> "bad-version"
    [] OTHER                    -> "none"

\* read_u8 (id), read_uleb(32) (size) and the sec_end > r.end check
EnvelopeError(s) ==
  CASE s.env = "eof"      -> "EOF"
    [] s.env = "oversize" -> "section-exceeds-file"
    [] OTHER              -> "none"

\* bytes the sub-reader advances over: the branch of the id reads len bytes,
\* the unknown-id branch reads nothing
PayloadRead(s) == IF s.id \in KnownIds THEN s.len ELSE 0

\* outcome of one iteration of parse_wasm_module's section loop
SectionError(s) ==
  CASE EnvelopeError(s) /= "none" -> EnvelopeError(s)
    [] s.bad                      -> "bad-content"
    [] PayloadRead(s) > s.size    -> "EOF"
    [] PayloadRead(s) < s.size    -> "section-not-consumed"
    [] OTHER                      -> "none"

\* mutant: the branch chosen by a range test instead of the exact id
AppendedFrom(s, ids) == IF \E i \in ids : s.id >= i THEN s.items ELSE <<>>

\* the entries a section of id in ids appends
Appended(s, ids) == IF s.id \in ids THEN s.items ELSE <<>>

\* mutant: a code-section test that also takes the later (data) section
IsCodeSectionFrom(id) == id >= 10

IsCodeSection(id) == id = 10

\* outcome of one iteration of parse_code_section_bodies's section loop
CodeSectionError(s) ==
  CASE EnvelopeError(s) /= "none"            -> EnvelopeError(s)
    [] IsCodeSection(s.id) /\ s.len > s.size -> "EOF"
    [] OTHER                                 -> "none"

Init ==
  /\ file \in Files
  /\ rsec = 1 /\ types = <<>> /\ func_type_indices = <<>> /\ code_bodies = <<>>
  /\ rstatus = "start" /\ rerr = "none"
  /\ csec = 1 /\ ccode_bodies = <<>> /\ cstatus = "start" /\ cerr = "none"

-----------------------------------------------------------------------------
(* parse_wasm_module *)

ReaderPreamble ==
  /\ rstatus = "start"
  /\ IF PreambleError(file) = "none"
     THEN rstatus' = "reading" /\ UNCHANGED rerr
     ELSE rstatus' = "raised" /\ rerr' = PreambleError(file)
  /\ UNCHANGED <<file, rsec, types, func_type_indices, code_bodies, census_vars>>

\* one section: envelope, the branch of its id, the consumed check, seek
ReaderSection ==
  /\ rstatus = "reading"
  /\ rsec <= Len(file.secs)
  /\ LET s == file.secs[rsec] IN
     IF SectionError(s) /= "none"
     THEN /\ rstatus' = "raised" /\ rerr' = SectionError(s)
          /\ UNCHANGED <<rsec, types, func_type_indices, code_bodies>>
     ELSE /\ types' = types \o Appended(s, {1})
          /\ func_type_indices' = func_type_indices \o Appended(s, {2, 3})
          /\ code_bodies' = code_bodies \o Appended(s, {10})
          /\ rsec' = rsec + 1
          /\ UNCHANGED <<rstatus, rerr>>
  /\ UNCHANGED <<file, census_vars>>

ReaderReturn ==
  /\ rstatus = "reading"
  /\ rsec > Len(file.secs)
  /\ rstatus' = "returned"
  /\ UNCHANGED <<file, rsec, types, func_type_indices, code_bodies, rerr,
                 census_vars>>

-----------------------------------------------------------------------------
(* parse_code_section_bodies *)

CensusPreamble ==
  /\ cstatus = "start"
  /\ IF PreambleError(file) = "none"
     THEN cstatus' = "reading" /\ UNCHANGED cerr
     ELSE cstatus' = "raised" /\ cerr' = PreambleError(file)
  /\ UNCHANGED <<file, csec, ccode_bodies, reader_vars>>

CensusSection ==
  /\ cstatus = "reading"
  /\ csec <= Len(file.secs)
  /\ LET s == file.secs[csec] IN
     IF CodeSectionError(s) /= "none"
     THEN /\ cstatus' = "raised" /\ cerr' = CodeSectionError(s)
          /\ UNCHANGED <<csec, ccode_bodies>>
     ELSE /\ ccode_bodies' = ccode_bodies
                             \o (IF IsCodeSection(s.id) THEN s.items ELSE <<>>)
          /\ csec' = csec + 1
          /\ UNCHANGED <<cstatus, cerr>>
  /\ UNCHANGED <<file, reader_vars>>

CensusReturn ==
  /\ cstatus = "reading"
  /\ csec > Len(file.secs)
  /\ cstatus' = "returned"
  /\ UNCHANGED <<file, csec, ccode_bodies, cerr, reader_vars>>

\* both readers have returned or raised
Terminated ==
  /\ rstatus \in {"returned", "raised"} /\ cstatus \in {"returned", "raised"}
  /\ UNCHANGED vars

Next ==
  \/ ReaderPreamble \/ ReaderSection \/ ReaderReturn
  \/ CensusPreamble \/ CensusSection \/ CensusReturn
  \/ Terminated

Spec == Init /\ [][Next]_vars

-----------------------------------------------------------------------------
Status == {"start", "reading", "returned", "raised"}

\* the readers' positions stay within the file's sections, and the tracer's
\* reader only ever returns bodies of the file's code sections
TypeOK ==
  /\ rstatus \in Status /\ cstatus \in Status
  /\ rsec \in 1..Len(file.secs) + 1 /\ csec \in 1..Len(file.secs) + 1
  /\ \A i \in DOMAIN code_bodies :
       \E s \in Range(file.secs) : s.id = 10 /\ code_bodies[i] \in Range(s.items)

(***************************************************************************)
(* The two tools see the same functions: whenever parse_wasm_module (the  *)
(* stack tracer's reader) accepts a file, parse_code_section_bodies (the  *)
(* census's reader) accepts it too and returns the same code bodies in    *)
(* the same order.  The readers share nothing but the section envelope    *)
(* loop; a branch of the census that takes a section other than id 10, a  *)
(* seek that loses a section or a bound check only one of them makes      *)
(* shows up as a file one tool counts and the other measures differently. *)
(***************************************************************************)
ReadersAgreeOnBodies ==
  rstatus = "returned" =>
     /\ cstatus /= "raised"
     /\ cstatus = "returned" => ccode_bodies = code_bodies

(***************************************************************************)
(* Spec 4.2: a custom section is read for its name and "the rest" is      *)
(* ignored, and "any other id is silently skipped"; a known section must  *)
(* be consumed exactly.  So parse_wasm_module raises only on a file that  *)
(* breaks one of those rules.                                             *)
(***************************************************************************)
SpecWellFormed(f) ==
  /\ PreambleError(f) = "none"
  /\ \A i \in DOMAIN f.secs :
       LET s == f.secs[i] IN
       /\ s.env = "ok" /\ ~s.bad
       /\ s.id = 0 => s.len <= s.size
       /\ s.id \in 1..11 => s.len = s.size

CustomAndUnknownSectionsSkipped ==
  rstatus = "raised" => ~SpecWellFormed(file)

=============================================================================
