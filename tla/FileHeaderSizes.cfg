\* 4-byte sectors of 1-byte words: NumSectorInt = 4, NumPointers = 2, so
\* the levels end at 8, 32, 128 and 512 bytes; a 512-byte file takes 170
\* sectors besides its header sector.
CONSTANTS
  SectorSize = 4
  WordSize = 1
  NumDiskSectors = 171
SPECIFICATION Spec
INVARIANT AllocationShape
INVARIANT LifecycleRoundTrip
