\* Two level-1 IndexBlocks on a 20-sector disk: a 33-byte and a 16-byte
\* block fit together beside their own sectors; two 33-byte blocks do not,
\* so IndexBlock::Allocate (which has no free-space check) runs dry.
CONSTANTS
  b1 = b1
  b2 = b2
  SectorSize = 4
  WordSize = 1
  NumDiskSectors = 20
  Level = 1
  Blocks <- MCBlocks
  BlockSector <- MCBlockSector
  BlockSizes <- MCBlockSizes
SPECIFICATION MCSpec
VIEW MCView
INVARIANT BlockAccounting BlockImageMatches
PROPERTY BlockMapRefinement
