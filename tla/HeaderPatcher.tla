---------------------------- MODULE HeaderPatcher ----------------------------
(***************************************************************************)
(* src/tools/ci/patch_llvm_libcxx_hash_memory.py: a CI step that inserts   *)
(* "#undef _LIBCPP_AVAILABILITY_HAS_HASH_MEMORY" into libc++'s             *)
(* __functional/hash.h, after the first line that contains                 *)
(* _LIBCPP_BEGIN_NAMESPACE_STD.  CI may run the script any number of       *)
(* times on the same LLVM install (a retried job, a cached prefix), with   *)
(* or without --check; each invocation is one step: main() from            *)
(* find_hash_h to its exit code.                                           *)
(*                                                                         *)
(* The header is a sequence of lines, abstracted to what the script tells *)
(* apart: a line holding the namespace marker, the UNDEF_LINE text, or     *)
(* neither.  The headers end with a newline, so splitlines(keepends=True) *)
(* followed by "".join is a split into lines and its inverse.             *)
(***************************************************************************)
EXTENDS Integers, Sequences, SequencesExt

CONSTANTS
  Layouts,   \* [direct: BOOLEAN, alts: Nat]: is SUFFIX under the prefix,
             \* and how many paths end with ALT_SUFFIX
  Headers,   \* contents hash.h can have before the first invocation
  MaxRuns    \* bound on the invocations of the script

Lines == {"marker", "undef", "other"}

ASSUME /\ \A l \in Layouts : l.direct \in BOOLEAN /\ l.alts \in Nat
       /\ Headers \subseteq Seq(Lines)
       /\ MaxRuns \in Nat

VARIABLES
  layout,    \* the files under --llvm-prefix (fixed)
  header,    \* the lines of hash.h
  original,  \* hash.h before the first invocation (history)
  runs,      \* invocations so far
  writes,    \* path.write_text calls so far (history)
  outcome    \* what the last invocation printed, returned or raised

vars == <<layout, header, original, runs, writes, outcome>>

\* find_hash_h: the direct path, else the one rglob candidate, else an error
FindHashH(l) ==
  CASE l.direct     -> "found"
    [] l.alts = 1   -> "found"
    [] l.alts = 0   -> "FileNotFoundError"
    [] OTHER        -> "RuntimeError: multiple candidates"

\* UNDEF_LINE in text
Patched(h) == Contains(h, "undef")

\* the index of the first line with _LIBCPP_BEGIN_NAMESPACE_STD, 0 if none
FirstMarker(h) == SelectInSeq(h, LAMBDA line : line = "marker")

\* lines.insert(i + 1, insertion) for the marker line i (1-based: i + 1)
InsertionPoint(h) == FirstMarker(h) + 1

\* mutant: UNDEF_LINE inserted without its "\n", so that "".join runs it
\* into the line that follows
InsertLineNoNewline(h, i) ==
  IF i <= Len(h) THEN [h EXCEPT ![i] = "undef+" \o h[i]] ELSE Append(h, "undef")

\* insertion = UNDEF_LINE + "\n", put in as a line of its own before line i
InsertLine(h, i) == InsertAt(h, i, "undef")

Init ==
  /\ layout \in Layouts
  /\ header \in Headers
  /\ original = header
  /\ runs = 0
  /\ writes = 0
  /\ outcome = "none"

\* an invocation whose find_hash_h raises: nothing is read or written
NotFound ==
  /\ runs < MaxRuns
  /\ FindHashH(layout) /= "found"
  /\ runs' = runs + 1
  /\ outcome' = FindHashH(layout)
  /\ UNCHANGED <<layout, header, original, writes>>

\* main with --check: exit 0 if already patched, 1 if it needs patching
Check ==
  /\ runs < MaxRuns
  /\ FindHashH(layout) = "found"
  /\ runs' = runs + 1
  /\ outcome' = IF Patched(header) THEN "exit 0" ELSE "exit 1"
  /\ UNCHANGED <<layout, header, original, writes>>

\* mutant: patch_file without its already-patched test
PatchGuardDropped(h) == FALSE

\* patch_file's early return when UNDEF_LINE is in the text
PatchGuard(h) == Patched(h)

\* main without --check: patch_file, then "patched" / "already patched"
Patch ==
  /\ runs < MaxRuns
  /\ FindHashH(layout) = "found"
  /\ runs' = runs + 1
  /\ CASE PatchGuard(header) ->
            outcome' = "already patched" /\ UNCHANGED <<header, writes>>
       [] FirstMarker(header) > 0 ->
            /\ header' = InsertLine(header, InsertionPoint(header))
            /\ writes' = writes + 1
            /\ outcome' = "patched"
       [] OTHER ->
            outcome' = "RuntimeError: no marker" /\ UNCHANGED <<header, writes>>
  /\ UNCHANGED <<layout, original>>

\* CI has made its last invocation
Finished == runs = MaxRuns /\ UNCHANGED vars

Next == NotFound \/ Check \/ Patch \/ Finished

Spec == Init /\ [][Next]_vars
-----------------------------------------------------------------------------
\* hash.h stays a sequence of whole lines (patch_file's insertion carries
\* its own "\n"), and no invocation writes more than once
TypeOK ==
  /\ header \in Seq(Lines)
  /\ runs \in 0..MaxRuns
  /\ writes \in 0..runs

(***************************************************************************)
(* Whatever mix of --check and patching runs CI makes, and in whatever    *)
(* order, hash.h is written at most once, and once written it stays the    *)
(* original with one UNDEF_LINE directly after the first namespace-marker *)
(* line and nothing else changed.  It takes a retried patch to break: the *)
(* already-patched test of patch_file is what makes a second run a no-op, *)
(* and the insertion index is what puts the directive after the marker.  *)
(***************************************************************************)
RetriesPatchOnce ==
  /\ writes <= 1
  /\ writes = 1 =>
       LET i == FirstMarker(original) IN
       header = SubSeq(original, 1, i) \o <<"undef">>
                  \o SubSeq(original, i + 1, Len(original))
=============================================================================
