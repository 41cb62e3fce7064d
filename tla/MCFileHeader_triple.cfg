\* A 64-sector disk: a 129-byte Triple file (46 sectors) and an 8-byte file
\* (2 sectors) fit together beside the two header sectors; two Triple files
\* do not, so the second Allocate fails its free-space check.
CONSTANTS
  f1 = f1
  f2 = f2
  SectorSize = 4
  WordSize = 1
  NumDiskSectors = 64
  Files <- MCFiles
  HdrSector <- MCHdrSector
  FileSizes <- MCTripleSizes
SPECIFICATION MCSpec
VIEW MCView
INVARIANT SectorAccounting OffsetTranslation PersistedImageMatches
PROPERTY FileMapRefinement
