--------------------------- MODULE MCReleaseRetry ---------------------------
(* ReleaseRetry for TLC.  Commit 2 changes the app of 1, and may be reverted *)
(* to it; 3 deletes a file; 4 has the PCM patch, the probe overlay and the   *)
(* YUV patch changed, and 5 brings the storage patch to it.  The YUV patch   *)
(* of 4 is a part of the one before.                                         *)
EXTENDS ReleaseRetry, TLC

CONSTANTS app, extra, pcm, probe, yuv, storage, k1, k2

Texts5 == [c \in Commit |-> [i \in Item |->
  CASE i = app -> IF c \in {1, 4, 5} THEN 1 ELSE 2
    [] i = extra -> IF c \in {1, 2} THEN 1 ELSE None
    [] i \in {pcm, probe} -> IF c \in {4, 5} THEN 2 ELSE 1
    [] i = yuv -> IF c \in {4, 5} THEN 1 ELSE 2
    [] i = storage -> IF c = 5 THEN 1 ELSE None]]

Pairs == {<<1, 2>>, <<2, 1>>, <<4, 5>>}

Parts == {<<yuv, 2, 1>>}

Kernels == Permutations(Kernel)

(* A bound: only a finished release is copied, and from then on nobody works *)
(* in the original trees.                                                    *)
OriginalLeft ==
  IF alias = "absent"
  THEN alias' # "absent" => \E r \in DOMAIN records : InputsAudited(records[r])
  ELSE /\ UNCHANGED <<text["original"], newer["original"], out["original"],
                      native["original"]>>
       /\ job = None /\ job' # None => JobTree' = "clone"

(* A bound: a third record after at most one edit, a copy of a release that  *)
(* was either retried or edited once.                                        *)
FewEdits ==
  /\ records' # records \/ edits' # edits => Len(records') + edits' <= 4
  /\ alias = "absent" /\ alias' # "absent" => Len(records) + edits <= 2

(* A bound: a build that fails has made all the upstream files, or none.     *)
UpstreamTogether ==
  LET before == Outdated(JobTree) \cap Upstream
  IN  pc = "compile" => {i \in before : newer'[JobTree][i]} \in {{}, before}
=============================================================================
