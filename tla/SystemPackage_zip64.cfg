SPECIFICATION Spec
CONSTANTS
  Role = {"boot", "system"}
  MaxPoints = 5
  Text <- Texts
  Limit = 5
  MaxLicences = 3
  Page = 4
  Chunk = 6
  Boots <- Kernels
  MaxKernel = 8
  MaxRamdisk = 4
  Members <- Names
  Sizes = {2, 15, 25, 45}
  Small = 20
  Sentinel = 41
  MaxRebuilds = 1
INVARIANT Zip64Supported
CHECK_DEADLOCK FALSE
