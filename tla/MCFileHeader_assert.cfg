\* The instance of MCFileHeader.cfg: an 8-byte file leaves 12 sectors
\* clear, enough for the 9 data sectors of a 33-byte file but not for its
\* 4 index sectors as well.
CONSTANTS
  f1 = f1
  f2 = f2
  SectorSize = 4
  WordSize = 1
  NumDiskSectors = 16
  Files <- MCFiles
  HdrSector <- MCHdrSector
  FileSizes <- MCFileSizes
SPECIFICATION Spec
VIEW View
INVARIANT AllocateNeverRunsDry
