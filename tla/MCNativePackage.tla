--------------------------- MODULE MCNativePackage ---------------------------
(* Instances of NativePackage for TLC. *)
EXTENDS NativePackage

(* The first build has sequence 1; the two others are both of sequence 2. *)
Sequences == <<1, 2, 2>>
=============================================================================
