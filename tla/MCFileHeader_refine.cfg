\* The instance of MCFileHeader.cfg, checked against the abstract file map.
CONSTANTS
  f1 = f1
  f2 = f2
  SectorSize = 4
  WordSize = 1
  NumDiskSectors = 16
  Files <- MCFiles
  HdrSector <- MCHdrSector
  FileSizes <- MCFileSizes
SPECIFICATION MCSpec
VIEW MCView
PROPERTY FileMapRefinement
