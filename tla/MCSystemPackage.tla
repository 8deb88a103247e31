--------------------------- MODULE MCSystemPackage ---------------------------
(* SystemPackage for TLC: every text of up to MaxPoints code points, of one  *)
(* to four bytes, or newlines.                                               *)
EXTENDS SystemPackage, SequencesExt

CONSTANTS MaxPoints

Point == {<<"newline">>, <<"start">>, <<"start", "next">>,
          <<"start", "next", "next">>, <<"start", "next", "next", "next">>}

Texts == {FlattenSeq(s) : s \in UNION {[1..n -> Point] : n \in 1..MaxPoints}}

Kernels == [kernel : {1, 3, 4, 5, 8, 9}, ramdisk : {3, 4, 5}]

Names == <<"manifest", "boot", "system", "lock">>
=============================================================================
