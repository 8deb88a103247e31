SPECIFICATION Spec
CONSTANTS
  app = app
  extra = extra
  pcm = pcm
  probe = probe
  yuv = yuv
  storage = storage
  Device = {app, extra}
  Upstream = {pcm, probe, yuv, storage}
  Overlay = {probe}
  Repatched = {pcm}
  Commit = {1, 2, 3, 4, 5}
  Content <- Texts5
  Within <- Parts
  Reviewed <- Pairs
  k1 = k1
  k2 = k2
  Kernel = {k1, k2}
  MaxRecords = 3
  MaxEdits = 2
  Experiment = Experiment
  None = None
  Partial = Partial
ACTION_CONSTRAINTS
  OriginalLeft
  FewEdits
  UpstreamTogether
SYMMETRY Kernels
INVARIANTS
  TypeOK
  IncrementalSound
  PackagesHoldClaims
CHECK_DEADLOCK FALSE
