----------------------------- MODULE IndexBlock -----------------------------
(***************************************************************************)
(* IndexBlock objects seen at their own interface (src/filesys/filehdr.h  *)
(* class IndexBlock, src/unnamed/part_000 lines 32-147).  Each slot b is   *)
(* one IndexBlock(Level) object whose parent has already claimed its      *)
(* sector BlockSector[b] and hands it remSize bytes.  Unlike the root, the *)
(* block keeps no size on disk: FetchFrom trusts the remSize its caller    *)
(* passes, and Allocate makes no free-space check of its own.  The        *)
(* objects share one bitmap and one disk; each method runs to completion.  *)
(***************************************************************************)
EXTENDS FileHeaderTree

CONSTANTS
  Blocks,        \* IndexBlock object slots
  Level,         \* the level every slot is constructed with
  BlockSector,   \* BlockSector[b]: the sector its parent's table names
  BlockSizes     \* the remSize values a parent of level Level+1 passes

ASSUME /\ Level \in 0..2
       /\ BlockSector \in [Blocks -> Sectors] /\ IsInjective(BlockSector)
       /\ BlockSizes \subseteq 1..sizePerPointer[Level + 1]

VARIABLES
  blk,      \* blk[b]: the in-memory IndexBlock object of slot b
  stage,    \* stage[b]: where the parent is in the object's life cycle
  size,     \* size[b]: the remSize the parent holds for the block on disk
  stored,   \* stored[b]: BlockSector[b] holds a live block of size[b] bytes
  used,     \* the free-sector bitmap: the set of sectors marked in use
  disk,     \* disk[s]: the words of sector s
  aborted   \* the kernel ASSERT that failed, or "none"

vars == <<blk, stage, size, stored, used, disk, aborted>>

\* IndexBlock::IndexBlock(Level): sizes -1, table memset to -1,
\* nextIndexBlocks NULL (no children).
NewBlock ==
  [level |-> Level, numBytes |-> -1, levelSectors |-> -1,
   nextSectors |-> [j \in 0..NumSectorInt-1 |-> NoSector], next |-> <<>>]

\* new IndexBlock(Level)
New(b) ==
  /\ stage[b] = "none"
  /\ blk' = [blk EXCEPT ![b] = NewBlock]
  /\ stage' = [stage EXCEPT ![b] = "new"]
  /\ UNCHANGED <<size, stored, used, disk, aborted>>

\* IndexBlock::Allocate(freeMap, remSize): no free-space check; the ASSERT
\* after FindAndSet stops the machine when the bitmap runs dry.
Allocate(b, remSize) ==
  LET r   == AllocBlock(Level, remSize, Bitmap(used))
      dry == NoSector \in BlockSectors(r.blk)
  IN  /\ stage[b] = "new"
      /\ ~stored[b]
      /\ used' = Marked(r.used)
      /\ aborted' = IF dry THEN "FindAndSet" ELSE "none"
      /\ \/ /\ dry
            /\ UNCHANGED <<blk, stage, size>>
         \/ /\ ~dry
            /\ blk' = [blk EXCEPT ![b] = r.blk]
            /\ stage' = [stage EXCEPT ![b] = "dirty"]
            /\ size' = [size EXCEPT ![b] = remSize]
      /\ UNCHANGED <<stored, disk>>

\* IndexBlock::FetchFrom(sector, remSize) with the size the parent holds.
FetchFrom(b) ==
  /\ stage[b] = "new"
  /\ stored[b]
  /\ blk' = [blk EXCEPT ![b] = FetchBlock(Level, BlockSector[b], size[b], disk)]
  /\ stage' = [stage EXCEPT ![b] = "clean"]
  /\ UNCHANGED <<size, stored, used, disk, aborted>>

\* IndexBlock::WriteBack(sector) to the sector the parent's table names.
WriteBack(b) ==
  /\ stage[b] \in {"dirty", "clean"}
  /\ disk' = WriteBlock(blk[b], BlockSector[b], disk)
  /\ stage' = [stage EXCEPT ![b] = "clean"]
  /\ stored' = [stored EXCEPT ![b] = TRUE]
  /\ UNCHANGED <<blk, size, used, aborted>>

\* IndexBlock::Deallocate(freeMap): children first, each sector ASSERTed
\* marked before it is cleared.
Deallocate(b) ==
  LET st == DeallocBlock(blk[b], [used |-> Bitmap(used), ok |-> TRUE])
  IN  /\ stage[b] = "clean"
      /\ stored[b]
      /\ used' = Marked(st.used)
      /\ aborted' = IF st.ok THEN "none" ELSE "Test"
      /\ stage' = [stage EXCEPT ![b] = "freed"]
      /\ stored' = [stored EXCEPT ![b] = FALSE]
      /\ UNCHANGED <<blk, size, disk>>

\* The ASSERTs of ~IndexBlock, applied down the tree it deletes: above
\* level 0, nextIndexBlocks exists and its first levelSectors are non-NULL.
RECURSIVE ChildrenPresent(_)
ChildrenPresent(x) ==
  x.level # 0 =>
    /\ x.levelSectors >= 0
    /\ Len(x.next) = x.levelSectors
    /\ \A i \in DOMAIN x.next : ChildrenPresent(x.next[i])

\* delete (IndexBlock::~IndexBlock): only the in-memory tree goes; the slot
\* is left as a fresh object (New overwrites it anyway).
Delete(b) ==
  /\ stage[b] \in {"clean", "freed"}
  /\ aborted' = IF ChildrenPresent(blk[b]) THEN "none" ELSE "~IndexBlock"
  /\ blk' = [blk EXCEPT ![b] = NewBlock]
  /\ stage' = [stage EXCEPT ![b] = "none"]
  /\ UNCHANGED <<size, stored, used, disk>>

\* After a failed ASSERT the machine does nothing more.
Halt ==
  /\ aborted # "none"
  /\ UNCHANGED vars

Init ==
  /\ blk = [b \in Blocks |-> NewBlock]
  /\ stage = [b \in Blocks |-> "none"]
  /\ size = [b \in Blocks |-> 0]
  /\ stored = [b \in Blocks |-> FALSE]
  /\ used = Range(BlockSector)
  /\ disk = [s \in Sectors |-> [j \in 0..NumSectorInt-1 |-> 0]]
  /\ aborted = "none"

\* The public interface of class IndexBlock.
Next ==
  \/ /\ aborted = "none"
     /\ \E b \in Blocks :
          \/ New(b)
          \/ \E n \in BlockSizes : Allocate(b, n)
          \/ FetchFrom(b)
          \/ WriteBack(b)
          \/ Deallocate(b)
          \/ Delete(b)
  \/ Halt

Spec == Init /\ [][Next]_vars

(***************************************************************************)
(* Properties                                                              *)
(***************************************************************************)

\* The block through which slot b's data is reached: the in-memory tree
\* while the object holds one, else what FetchFrom would rebuild from its
\* sector with the size the parent holds.
Owns(b) == stage[b] \in {"dirty", "clean"} \/ stored[b]
LiveBlock(b) ==
  IF stage[b] \in {"dirty", "clean"} THEN blk[b]
  ELSE FetchBlock(Level, BlockSector[b], size[b], disk)
OwnedSectors(b) == IF Owns(b) THEN BlockSectors(LiveBlock(b)) ELSE {}

\* Sector accounting at the IndexBlock interface: the bitmap marks exactly
\* the blocks' own sectors and the sectors their subtrees name; no subtree
\* names a sector twice, none names a block's own sector, and no two share
\* one.  Allocate claims without any up-front check and Deallocate clears
\* children before the node's own entries, over arbitrary interleavings of
\* the objects.
BlockAccounting ==
  aborted = "none" =>
    /\ used = Range(BlockSector) \cup UNION {OwnedSectors(b) : b \in Blocks}
    /\ \A b \in Blocks : Owns(b) =>
         /\ Cardinality(OwnedSectors(b)) = BlockEntries(LiveBlock(b))
         /\ OwnedSectors(b) \cap Range(BlockSector) = {}
    /\ \A b, c \in Blocks : b # c => OwnedSectors(b) \cap OwnedSectors(c) = {}

\* IndexBlock::WriteBack and FetchFrom round-trip: while an object is
\* clean, FetchFrom of its sector with the parent's remSize rebuilds
\* exactly the in-memory subtree, whatever the other objects have since
\* allocated, written or freed.
BlockImageMatches ==
  aborted = "none" =>
    \A b \in Blocks : stage[b] = "clean" =>
      FetchBlock(Level, BlockSector[b], size[b], disk) = blk[b]

(***************************************************************************)
(* Refinement: the objects implement the abstract file map, a subtree of  *)
(* remSize bytes being a file of that length whose blocks are its leaves  *)
(* and whose metadata are its index sectors.                               *)
(***************************************************************************)
AbsBlock(x) ==
  [len |-> x.numBytes, blocks |-> BlockLeaves(x),
   meta |-> BlockSectors(x) \ Range(BlockLeaves(x))]
AbsSlot(b) ==
  IF Owns(b) THEN CHOOSE r \in {AbsBlock(x) : x \in {LiveBlock(b)}} : TRUE
  ELSE [len |-> -1, blocks |-> <<>>, meta |-> {}]
\* The abstract state of the current state.
AbsImage == <<[b \in Blocks |-> AbsSlot(b)], used, aborted # "none">>

====
