# TLA+ models of the WebAssembly opcode and operand-stack tools

This directory holds TLA+ models of the two analysis tools under `src/tools/`:

- `wasm_opcode_counter/opcode_counter.py` is the opcode census.
- `wasm_operand_stack_stats/stack_stats.py` is the operand-stack tracer.

It also holds the TLC configurations that check the models. `spec.md` at the
repository root describes both tools.

## 1. Inventory

### Components

| Component | Source | State | Operations |
|---|---|---|---|
| L Byte reader | `ByteReader` in both tools | `data`, `pos`, `end` | `read_u8`, `read_bytes`, `read_uleb`, `read_sleb`, `read_name`, `seek`, `at_end` |
| M Module reader | `parse_wasm_module` (tracer), `parse_code_section_bodies` (census) | the outer reader plus one sub-reader per section; the output lists `types`, `func_type_indices` and `code_bodies` | the section loop, one branch per section id, `_skip_init_expr`, `_parse_limits` |
| I Instruction walker | `decode_and_skip_immediates`, `OPCODE_NAME`, `FC_SUBOP_NAME` | the body reader | read an opcode, skip its immediates, return a mnemonic |
| S Stack tracer | `trace_operand_stack_stats` | `ctrl_stack` (CtrlFrame records), `stack_h`, `is_polymorphic`, `FunctionStats` | one branch per opcode class, `_pop`, `_push`, `_block_arity`, `record` |
| C Counting drivers | `count_opcodes_in_code`, `count_single_mnemonic_in_code`, the body loop of `trace_operand_stack_stats` | `Counts`, `FunctionStats`, the totals and per-function maps | iterate over the bodies and aggregate |
| CLI | `main()` of each tool | none | argparse, read the file, print text or JSON |
| header patcher | `tools/ci/patch_llvm_libcxx_hash_memory.py` | the header file | insert one `#undef` line |

### How the components interact

The tools make plain synchronous calls: bytes go to M, which produces a list
of bodies, and the bodies go to I (census) or S (tracer). S uses M's `types`
and `func_type_indices` to resolve block types, `call` and `call_indirect`.
Nothing runs concurrently. The analysis tools persist nothing and retry
nothing. The header patcher is separate from them: it is a CI step that
rewrites one file, and CI may run it again on the same file. What is hard
about the analysis tools is the sequencing:

- A body is a long sequence of opcodes.
- The control-frame stack carries state across that sequence. Each frame keeps
  the entry height and the polymorphic flag it saw when it was opened, and an
  `if` frame also keeps the then-arm's flag captured at `else`.
- Each of these values is read back many opcodes later, at `end`.
- Byte-level decoding must stay aligned across about 180 opcodes and the LEB128
  width limits.

### What makes each component correct

- **S** has four correctness conditions:
  - The height is never negative.
  - Outside polymorphic mode, the height never drops below the innermost
    frame's base.
  - Every body that WebAssembly validation accepts is traced without error.
  - The heights on such a body are the real operand-stack heights.
  - The tracer must also fail only with `WasmParseError`.
  - On the recording side, `max_stack_height` must not depend on the
    structural filter, which is spec.md §8 property 9.
- **M** must consume every section exactly:
  - A custom section is skipped after its name.
  - An unknown section is skipped whole.
  - The body list is the code section, in order.
- **I** must keep the reader aligned: a known-good body is consumed exactly,
  and the census total equals the sum of per-mnemonic counts.
- **L**: a LEB128 read must stop at the encoding's last byte, must return
  the value the encoding denotes (sign-extended exactly when it is
  negative), and must reject encodings wider than the immediate.
- **Header patcher**: however often CI runs it, with or without `--check`,
  `hash.h` is written at most once. The `#undef` goes directly after the
  first `_LIBCPP_BEGIN_NAMESPACE_STD` line, and nothing else changes.
- **C**: the single-mnemonic count must be the census's count for that
  mnemonic, and both modes must reject SIMD and atomics (spec §6).

The hazards, each at the line where it bites, are listed in `PROJECT.json`
under `hazards`.

## 2. Plan

Modules are written in this order, most important first:

1. `StackTracer.tla` (done) is component S together with the stack driver of
   component C.
2. `ArityValidator.tla` (done) is a reference. It is the validation algorithm
   from the WebAssembly specification's appendix, reduced to operand counts.
   `TracerValidation.tla` (done) composes it with the tracer, which makes it
   the abstract statement of what the tracer promises on valid input.
3. `ModuleReader.tla` (done) covers component M: the section loop of
   `parse_wasm_module` and of `parse_code_section_bodies`, with abstract
   payloads. Its properties cover custom and unknown sections and the
   agreement between the two readers on the list of bodies.
4. `Leb128.tla` (done) covers `read_uleb` and `read_sleb` of component L,
   one loop iteration per step, checked over bounded byte strings against
   the LEB128 grammar as a RECURSIVE reference.
5. `InstructionWalker.tla` (done) covers component I and the census's half
   of component C at byte level. Its properties are reader alignment on
   encoded instruction sequences, the single-mnemonic count as a projection
   of the census, and the rejection of SIMD and atomics. Under weak
   fairness both modes terminate.
6. Still to come: a composition of InstructionWalker with StackTracer, to
   check that both tools see the same opcode stream. The `memory.size`
   memidx divergence would show there.
7. A composition of ModuleReader with StackTracer that checks which
   signature each body is traced with.
8. `HeaderPatcher.tla` (done) covers the libc++ header patcher. Each
   invocation of the script is one step, and runs are repeated as CI
   retries them.

## 3. Modules and how they match the code

### StackTracer.tla

The model's state maps onto `trace_operand_stack_stats` as follows:

| Model variable | What it holds in the code |
|---|---|
| `ctrl` | `ctrl_stack`: a sequence of records with the fields of `CtrlFrame` |
| `stack_h` | `stack_h` |
| `is_polymorphic` | `is_polymorphic` |
| `fstats`, `total` | the per-body and total `FunctionStats` |
| `fn` | `local_idx` |
| `more` | `not sec.at_end()` |
| `status`, `err` | whether the function is still running, has returned or has raised, and the exception it raised |
| `module` | the parsed module (`types`, `fti` = `func_type_indices`, `nbodies`), chosen in Init from `Modules` |

Each opcode branch at lines 382-632 is one action, and the action includes
the trailing `record()`:

- `BlockStart` is block, loop or if.
- `Else`, `End`, `Br`, `BrIf`, `BrTable`, `Return`, `Call` and
  `CallIndirect` each model their own branch.
- `MemoryOp` is `memory.size` and `memory.grow`.
- `Simple(op)` covers every branch that is a fixed `_pop` and `_push`. Their
  effects are in the `Effect` table. Opcodes with the same branch shape
  share one class.
- `Unsupported` is the final `else`. It takes every opcode of `Opcodes`
  (the input's opcodes without control flow or indices) that is not in
  `DOMAIN Effect`. So which opcodes the tracer rejects follows from the
  branches the elif chain has, not from the configuration.

The driver has its own actions:

- `Prepass` builds `func_sigs` and can raise.
- `StartBody` reads the locals and pushes the function frame.
- `LocalsTruncated` raises EOF while reading the locals.
- `FinishBody` adds the body's stats to the totals.
- `ReturnTotals` returns the result.
- `AfterEnd`, part of `End`, is the next loop iteration after an `end`.
  If bytes remain once the function frame is popped, line 380 reads
  `ctrl_stack[-1]` of an empty stack. The trailing check at line 440
  (`TrailingBytes`) raises first.
- `TruncatedImmediate` is an EOF inside an opcode's immediates.

`PopOne` is `_pop`. `Pops` chains the successive `_pop` calls of one
branch. `Record` is `record()`, applied to every configuration in `Configs`.
The configurations differ only in threshold and `include_structural`, which
affect nothing but `record`, so a single run compares them on the same body.

Abstraction: a body is not a byte string. Each step chooses an opcode and its
immediates from small sets, and chooses whether the body continues after it.
The set of continuations is bounded by `MaxInstr`. Immediates that the tracer
only skips (memarg, constants, locals) are omitted. The `per_function` output
map is omitted. It is a copy of each body's stats, keyed by index.

### ModuleReader.tla

Both module readers run over the same file: the tracer's `parse_wasm_module`
and the census's `parse_code_section_bodies`.

- `file` is the input. It has a preamble (`header`) and a sequence of
  sections, chosen in Init from `Files`.
- A section is a record with these fields:
  - `id` and the declared `size`.
  - `len`: the bytes the branch for that id reads.
  - `items`: what the branch appends. For id 1 these are FuncTypes, for
    ids 2 and 3 type indices, for id 10 bodies.
  - `bad`: the payload holds a value the branch rejects, such as a type form
    other than 0x60, an unknown import kind, a non-MVP init-expr opcode or a
    bad name.
  - `env`: the envelope is cut short, either inside the id/size header or by
    a size that runs past the file end.

The actions match the code as follows:

| Action | Code |
|---|---|
| `ReaderPreamble` | lines 140-144 |
| `ReaderSection` | one whole iteration of the loop at 150-246: envelope, branch by id, the consumed check, seek |
| `ReaderReturn` | line 248 |
| `CensusPreamble`, `CensusSection`, `CensusReturn` | `opcode_counter.py` lines 81-103, where only id 10 is parsed and there is no consumed check |

Two abstractions apply:

- Bytes are abstracted to lengths. The sub-reader's check
  `not sec.at_end()` becomes `PayloadRead(s) < s.size`, and a read past the
  section becomes `PayloadRead(s) > s.size`.
- `MC_ModuleReader` enumerates every file of up to 3 sections from 15 section
  shapes, each with a good or a bad preamble. The shapes are:
  - exact and data-carrying custom sections;
  - type sections, good and with a bad form;
  - import and function sections, including a function section that overruns
    its size;
  - exact code sections, code sections with slack, and a code section whose
    body runs past its size (`CodeOverrun`);
  - data sections;
  - unknown sections, empty and non-empty;
  - an oversize code section and an EOF header, only as the last section.

### Leb128.tla

The model is `ByteReader.read_uleb` and `read_sleb` (`stack_stats.py` lines
53-80). The census's copy of the reader in `opcode_counter.py` is the same
code.

- `data` is the byte string from `Inputs`, and `call` is the kind and
  `max_bits` from `Calls`.
- `pos`, `shift` and `status` are the loop's state.
- `UlebStep` and `SlebStep` are one loop iteration each: the width check, the
  `read_u8` EOF check (`AtEOF`), the mask (`Group`) and the continuation
  test. `SlebStep`'s last iteration includes the sign extension that follows
  the loop.
- TLC integers have 32 bits, and a 5-byte value does not fit. So `result` is
  the sequence of 7-bit groups, and `neg` records the sign extension.

`RefUnsigned` and `RefSigned` are the reference: the LEB128 grammar of the
WebAssembly binary format, as RECURSIVE operators. For the bytes from index
`i`, each gives the end of the encoding, whether it encodes an N-bit integer,
and whether that integer is negative.

The same module drives the reader from two of the module parser's payload
skippers, as the parser calls them (`stack_stats.py` lines 104-136):

- A call of kind `"init_expr"` is `_skip_init_expr`. `InitExprOp` is one
  iteration of its loop: the `at_end` check, `read_u8`, then either the end
  opcode, an immediate, or the non-MVP error. `InitExprImm` gives each
  constant opcode its immediate.
- A call of kind `"limits"` is `_parse_limits`. `LimitsFlags` reads the flags
  byte and queues the min, and the max when `flags & 0x01`. `LimitsReturn`
  is the return once the last read is done.
- `todo` holds the reads a skipper has queued. `UlebStep`, `SlebStep` and
  `BytesStep` (`read_bytes`) perform them from the position the previous
  read left. A skipper drops each value, and its next read starts again
  from `result = 0`, `shift = 0` (`LebReturns`).

`RefExpr` and `RefLimits` are the reference for these payloads: the binary
format's grammar of a constant expression (a sequence of constant
instructions and `0x0B`) and of limits. The skippers are given every byte
string of up to 6 bytes over `{0x00, 0x01, 0x0B, 0x23, 0x41, 0x43, 0x80}`.
These bytes are the end opcode, which is also a valid immediate byte;
`i32.const`, which is also a negative final LEB128 byte; `f32.const`, whose
4 bytes just fit; `global.get`; both limits flags; and a continuation byte.

### InstructionWalker.tla

The model is the census at byte level: `decode_and_skip_immediates`, the
`_skip_*` helpers and the two drivers `count_opcodes_in_code` and
`count_single_mnemonic_in_code` (`opcode_counter.py` lines 332-526).

- `prog` is a sequence of bodies. Each body is a locals declaration plus
  instructions, each given by its encoding. `Body` concatenates the bytes the
  tools read.
- `exclude` is `--exclude-structural`, and `target` is `--mnemonic`.
- `main` runs one mode per invocation. The model runs both modes on the same
  input, census first, so that one state relates their answers.
- A mnemonic is the pair (opcode, subop). `OPCODE_NAME` and `FC_SUBOP_NAME`
  give every opcode and subop a different name, so comparing names is
  comparing pairs.
- `counts` is the bag of `Counts.per_mnemonic`, and its size is
  `Counts.total`. `emitted` is the sequence of all decoded mnemonics,
  including those the filter skips.
- `LebFrom`, `ReadBytes`, `ReadImm` and `Skip` are the reads as the skipping
  code sees them: where a read ends, or EOF or overflow.
- `Shapes` and `FcShapes` give each opcode and 0xFC subop its immediate list,
  branch by branch. `Decode` is `decode_and_skip_immediates`.
- `CensusStartBody` (locals), `CensusStep` (one iteration of the opcode
  loop, in code order: decode, structural filter, add, 0xFD check),
  `CensusEndBody` and `CensusReturn` are the census.
- The `Single*` actions are the single-mnemonic loop.
- `DecodeAt` is the decode the two loops call at lines 476-477. It is a
  separate name so that the MC can substitute a precomputed table for it.
- `FairSpec` is `Spec /\ WF_vars(Next)`, used by `BothModesFinish`.

`MC_InstructionWalker` uses a catalogue of 18 encodings that covers every
immediate shape:
- a padded index, and padded negative i32.const (s32) and i64.const (s64);
- br_table and select.t vectors;
- a memarg, f32.const (4 bytes), f64.const (8 bytes) and ref.null;
- two 0xFC subops;
- i8x16.splat (SIMD) and i32.atomic.load (atomics).

The programs are:
- every one-body program of one catalogue instruction, with or without
  locals;
- every one-body program of two catalogue instructions, without locals
  (the locals are read once, before the first opcode, so two declarations
  with one instruction already check that the opcode loop starts after
  them);
- every two-body program of one instruction each;
- an empty body.

### ArityValidator.tla and TracerValidation.tla

`ArityValidator` is the reference validator: the WebAssembly specification's
validation algorithm, over counts.

- Each frame records its entry height and start/end arities and has its own
  `unreachable` flag.
- Block params are pushed back inside the frame.
- `else` and `end` require exactly the declared results.
- An `if` without `else` must have params equal to results.
- `br_if` and the targets of `br_table` are checked against label arities.

`TracerValidation` extends `StackTracer` and pairs every tracer action with
the validator step of the same instruction, using the arities the tracer
resolved. Malformed input makes the validator reject the module: a bad index,
a truncated immediate, the SIMD prefix, bytes after the function end, a
non-zero memidx byte, or a function section that does not match the code
section. The module record carries the real import count (`nimports`) for
this purpose. The tracer never reads it.

- `SpecEffect` gives the validator the effect the specification gives an
  opcode: the tracer's `Effect` table, plus `select.t` with the effect of
  `select` (spec line 146). An opcode outside it is rejected as malformed.
- `TrailingEnd` pairs an `end` with a rejection only when the tracer's
  trailing-bytes check fired. Every other `end`, including one where the
  tracer raises a result mismatch at the function frame, is judged by the
  reference's `end`. So a wrong raise at the function's final `end` is a
  violation too.

### HeaderPatcher.tla

The model is `patch_llvm_libcxx_hash_memory.py`. `spec.md` excludes this
script, so the model is written from the source alone.

- `layout` is what lies under `--llvm-prefix`: whether the direct path
  exists, and how many `rglob` candidates end with `ALT_SUFFIX`.
  `FindHashH` is `find_hash_h`.
- `header` is `hash.h` as a sequence of lines. Each line is abstracted to
  what the script tells apart: `"marker"` (contains
  `_LIBCPP_BEGIN_NAMESPACE_STD`), `"undef"` (contains `UNDEF_LINE`) or
  `"other"`.
- `original`, `runs` and `writes` are history: the file before the first
  run, the number of invocations, and the number of `write_text` calls.
- Each action is one whole invocation of `main`:
  - `NotFound` is `find_hash_h` raising.
  - `Check` is `--check`.
  - `Patch` is `patch_file`: the substring test (`PatchGuard`), the first
    marker line (`FirstMarker`), the insertion after it (`InsertLine` at
    `InsertionPoint`), and the write.
- `Finished` stutters once CI has made its `MaxRuns` invocations.

`splitlines(keepends=True)` followed by `"".join` splits the text into lines
and joins them back. The model's headers end with a newline, so a line
holds exactly its own text. Printing and argparse are left out.

## 4. Runs

| Run | cfg | Expect | What it shows |
|---|---|---|---|
| tracer_vs_validation | MC_TracerValidation.cfg | pass | `TypeOK`, `StackHeightNonNegative` and `ValidBodiesTracedExactly`, with WebAssembly 1.0 block types, over four modules and every body of up to 6 opcodes; a raise at the function's final `end` is compared with the reference too |
| block_params | MC_TracerValidation_params.cfg | violation | a block type index with one param makes the tracer's height fall below the real height |
| frame_base_floor | MC_StackTracer_floor.cfg | violation | `call f0; block; br_if 0` pops a value of the enclosing frame. Spec line 55 forbids this, but line 131 prescribes the pop check that allows it; the body is invalid WebAssembly |
| max_vs_structural | MC_StackTracer_structural.cfg | violation | `unreachable end` in a function of one result (the trace's is `(i32) -> i32`): max 1 with the structural opcodes counted, 0 without (spec §8 property 9) |
| readers_agree | MC_ModuleReader.cfg | pass | `TypeOK`, `ReadersAgreeOnBodies`: every file the tracer's reader accepts, the census's reader accepts, with the same bodies |
| custom_sections | MC_ModuleReader_custom.cfg | violation | a one-section file is rejected with "not fully consumed" when the section is custom with data after its name, or of an unknown id with a payload (spec §4.2 says both are skipped). Which of the two TLC reports depends on the order of its workers |
| leb_valid | MC_Leb128.cfg | pass | `TypeOK`, `ValidEncodingsRead`: u32, s32 and s33 reads of every byte string of up to 6 bytes over a 6-byte alphabet; every valid encoding is read to its last byte, with the reference's groups. `PayloadsSkippedExactly`: `_skip_init_expr` and `_parse_limits` stop exactly after every constant expression and limits the grammar accepts, over payloads of up to 6 bytes with all four const opcodes |
| leb_value | MC_Leb128_value.cfg | violation | `ReturnsEncodedValue`: read_sleb(32) (the trace; read_sleb(33) alike) returns `80 80 80 80 7F`, which encodes -2^28, unextended as 2^35 - 2^28 (a negative 5-byte block type becomes a type index) |
| walker_census | MC_InstructionWalker.cfg | pass | `TypeOK`, `WalkerAligned`, `SingleMnemonicIsProjection` (spec §8.1, §8.3) and, under `FairSpec`, `BothModesFinish` |
| walker_prefixes | MC_InstructionWalker_prefixes.cfg | violation | `UnsupportedPrefixesRejected`: the census counts an atomics instruction followed by br_table and returns (spec §6) |
| spec_opcodes | MC_TracerValidation_selectt.cfg | violation | `ValidBodiesTracedExactly` with `select.t` among the opcodes: the elif chain has no branch for it, so `unreachable; select.t` raises "unsupported opcode", while the reference accepts it with the effect of `select` (spec lines 109, 146) |
| patcher_retries | MC_HeaderPatcher.cfg | pass | `TypeOK`, `RetriesPatchOnce`: any three invocations, with or without `--check`, on every prefix layout and five headers write `hash.h` at most once, with the `#undef` directly after the first marker line |

The findings these violations support are in `PROJECT.json` under `findings`.
Each property of a passing run has a mutant in `PROJECT.json`, a plausible
bug that TLC must catch under the same configuration:

- A loop over the bodies that runs one index too far breaks `TypeOK`.
- A polymorphic pop without the clamp breaks `StackHeightNonNegative`.
- A loop label that carries results breaks `ValidBodiesTracedExactly`.
- Inserting `UNDEF_LINE` without its newline breaks the patcher's `TypeOK`.
- `patch_file` without its already-patched test breaks `RetriesPatchOnce`.
- A section branch chosen by a range test in `Appended` breaks the module
  reader's `TypeOK`.
- A census that also takes the data section as code breaks
  `ReadersAgreeOnBodies`.
- An unmasked group (`b` for `b & 0x7F`) breaks the LEB128 `TypeOK`.
- A width check one group early (`shift + 7 > max_bits`) breaks
  `ValidEncodingsRead`.
- `f32.const` skipped as eight bytes, like `f64.const`, breaks
  `PayloadsSkippedExactly`.
- `read_bytes` without its EOF check breaks the walker's `TypeOK`.
- `br_if` left out of the u32-index opcodes breaks `WalkerAligned`.
- A single-mnemonic loop without the structural filter breaks
  `SingleMnemonicIsProjection`.
- A census step that peeks at a structural opcode without consuming it (the
  `continue` placed before `read_u8`) breaks `BothModesFinish`.

### Bounds

Every construct the tracer has can appear within these bounds.

- **Opcodes per body.** The passing tracer run (`tracer_vs_validation`)
  allows 6 opcodes. The violation runs on `MC_StackTracer` allow 5, which
  is enough for their counterexamples. Six opcodes are enough for two nested frames with a branch,
  an `if`/`else` pair with values in both arms, or a loop with a `br` back to
  it. Each of these is a situation where a wrong base, label arity or
  polymorphic merge shows.
- **Modules.** The passing run has four modules:
  - `ModImport` has an imported function, which shifts function indices.
  - `ModLong` has a function section longer than the code section.
  - `ModNoSig` has no function section, so its body gets the `() -> ()`
    fallback.
  - `ModBadType` has a type index past the type section, which makes the
    prepass raise.

  Every module of the passing run has one body. A second body of 6 opcodes
  multiplies the state space by the totals of the first, past the run's time
  budget. `MC_StackTracer`'s `ModShort` has two bodies, and the violation
  runs use it.
- **Immediates.** Each run offers an in-range and an out-of-range value for
  every index: labels, function, type, block type, br_table, memidx.
- **LEB128.** Byte strings of up to 6 bytes are one past the longest valid
  32- or 33-bit encoding, over an alphabet that has every byte kind the
  decoder tells apart. `leb_value` uses only `7F` and `80`, the longest
  encodings of small negative numbers.
- **Header patcher.** Three invocations are enough for a check, a patch,
  and a rerun of the patch in every order. The headers cover every branch
  of `patch_file`: unpatched, two marker lines (only the first counts),
  already patched by the script, fixed upstream (the line comes before the
  marker), and no marker. The layouts cover every branch of `find_hash_h`.
- **Instruction walker.** Two instructions per body are enough for a
  misaligned read to turn the next instruction's bytes into opcodes. Two
  bodies are enough to check that the reader restarts at each body.
  `ValueCap` (32) is above every body length, so a capped count still runs
  past the body's end.
- **Arities.** Arities are 0 and 1. Height changes of more than one value
  come from `select` (3 → 1) and from chained pops.

### Fairness

The one liveness question the code raises is whether the counting loops
terminate. Both loops of `opcode_counter.py` consume the opcode byte with
`read_u8` (line 476) before any filter, so every iteration advances the
reader. The drivers are sequential loops in one process: once a step is
enabled nothing else can disable it, and the interpreter keeps taking it.
This justifies `WF_vars(Next)`, which `FairSpec` adds and `walker_census`
assumes. Under it, `BothModesFinish` (`<>(Done(cphase) /\ Done(sphase))`)
holds. It is not a deep property of this code, which always consumes
before it can `continue`. It checks the drivers' control flow: the mutant
that peeks at the opcode without consuming it loops forever.

Checking liveness re-evaluates each action's decode many times, so
`MC_InstructionWalker` tabulates `Decode` once over the catalogue's bodies
(`DecodeTable`). It substitutes that table for `DecodeAt` in the cfg. The
table holds the same values as `Decode`, so the run checks the same
behaviours.

A finished program (returned or raised) stutters through `Terminated`.
Deadlock checking therefore stays on, and it catches any state where the
model would be stuck.

## 5. Not modelled

- The CLI and output formatting, which is pure I/O.
- A crash of the header patcher inside `write_text`, which truncates the
  file before writing it. The code does not handle a crash, and a crash step
  would make `RetriesPatchOnce` fail on the truncated file. That failure
  would need a violation run of its own. `PROJECT.json` lists it as a
  hazard.
- Inside `ModuleReader`, a section's payload is the length its branch reads.
  `_skip_init_expr` and `_parse_limits` are checked at byte level on their
  own in `Leb128`, and not composed into the section model, whose state
  space would multiply by every payload. `_skip_global_type` (two `read_u8`
  calls) and `read_name`'s UTF-8 check are not modelled at byte level.
- The `per_function` maps of both drivers, which repeat per body what the
  totals add up.
- The values of constants and memargs, which the tools skip and never use.
- The census reader's acceptance of a code section with bytes left after its
  last body (`opcode_counter.py` line 95 seeks past them). Spec line 76
  calls such bytes an error. The census is not checked against that rule,
  because a violation run for it does not fit within the twelve runs. It is
  listed as a hazard.
- `table.get`/`table.set` and the `ref.*` opcodes. They reach the tracer's
  final `else` exactly as `select.t` does, but the spec gives no stack
  effect for them, so the reference cannot judge them.
