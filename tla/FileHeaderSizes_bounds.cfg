\* Every supported size, as in FileHeaderSizes.cfg; the lookup of an
\* out-of-range offset at the root.
CONSTANTS
  SectorSize = 4
  WordSize = 1
  NumDiskSectors = 171
SPECIFICATION Spec
INVARIANT OutOfRangeAsserted
