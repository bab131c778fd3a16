--------------------------- MODULE MC_HeaderPatcher ---------------------------
(***************************************************************************)
(* Model values for HeaderPatcher: every layout of the prefix up to two   *)
(* ALT_SUFFIX candidates, and the headers the script can meet: libc++'s    *)
(* unpatched hash.h, one with a second marker line, one this script has    *)
(* patched, one that already has the #undef before the marker (a fixed     *)
(* upstream header), and a file without the marker.                        *)
(***************************************************************************)
EXTENDS HeaderPatcher

MC_Layouts == [direct : BOOLEAN, alts : 0..2]

Unpatched   == <<"other", "marker", "other">>
TwoMarkers  == <<"other", "marker", "other", "marker", "other">>
SelfPatched == <<"other", "marker", "undef", "other">>
Upstream    == <<"undef", "other", "marker", "other">>
NoMarker    == <<"other", "other">>

MC_Headers == {Unpatched, TwoMarkers, SelfPatched, Upstream, NoMarker}
=============================================================================
