CONSTANTS
  f1 = f1
  f2 = f2
  SectorSize = 4
  WordSize = 1
  NumDiskSectors = 16
  Files <- MCFiles
  HdrSector <- MCHdrSector
  FileSizes <- MCFileSizes
SPECIFICATION Spec
INVARIANT TypeOK
INVARIANT SectorAccounting
INVARIANT OffsetTranslation
INVARIANT PersistedImageMatches
VIEW View
