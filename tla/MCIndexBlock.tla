---------------------------- MODULE MCIndexBlock ----------------------------
(* Model-checking instance of IndexBlock: 4-byte sectors of 1-byte words   *)
(* (NumSectorInt = 4), two level-1 IndexBlock objects in sectors 0 and 1,  *)
(* as two children of a Double root.  The refinement is checked through a *)
(* history variable holding the abstract image of the previous state, so  *)
(* the mapping is evaluated on unprimed states only.                       *)
EXTENDS IndexBlock, TLC

CONSTANTS b1, b2

MCBlocks == {b1, b2}
MCBlockSector == b1 :> 0 @@ b2 :> 1
\* One level-0 child holding 5 bytes (a partial last leaf); a full child
\* (16 bytes, an exact multiple); three children with a 1-byte last one.
MCBlockSizes == {5, 16, 33}

VARIABLE absPrev

MCInit == Init /\ absPrev = AbsImage
MCNext == Next /\ absPrev' = AbsImage
MCSpec == MCInit /\ [][MCNext]_<<vars, absPrev>>

\* Sectors no existing block names are never read before rewritten.
\* (A stale table may name an id off the disk; it holds no words.)
StoredSectors ==
  UNION {{BlockSector[b]} \cup BlockSectors(FetchBlock(Level, BlockSector[b], size[b], disk)) :
           b \in {c \in Blocks : stored[c]}}
MCView == <<blk, stage, size, stored, used, [s \in StoredSectors \cap Sectors |-> disk[s]], aborted, absPrev>>

FM == INSTANCE FileMap WITH Files <- Blocks, file <- absPrev[1], inuse <- absPrev[2],
                            halted <- absPrev[3], Reserved <- Range(BlockSector)

\* IndexBlock implements FileMap: a subtree changes only through its own
\* Allocate (taking free, distinct sectors, one leaf per SectorSize bytes)
\* or Deallocate (returning every one of them), one step behind.
BlockMapRefinement == FM!Spec

====
