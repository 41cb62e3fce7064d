--------------------------- MODULE FileHeaderSizes ---------------------------
(***************************************************************************)
(* The index-tree algorithms checked for every supported file size.  The  *)
(* state is the size n of one file allocated on an otherwise empty disk    *)
(* whose header sits in sector HdrSec; a behaviour never changes n.  For   *)
(* each n the file is allocated, written back, fetched into a fresh        *)
(* header, translated at every offset and deallocated, and the results    *)
(* are compared with closed-form reference definitions.                    *)
(***************************************************************************)
EXTENDS FileHeaderTree

VARIABLES
  n,          \* the file size
  allocated,  \* the result of Allocate: [hdr, used]
  fetched,    \* the header FetchFrom rebuilds from what WriteBack wrote
  freed       \* the result of Deallocate of the fetched header: [used, ok]

vars == <<n, allocated, fetched, freed>>

HdrSec == 0
EmptyDisk == [s \in Sectors |-> [j \in 0..NumSectorInt-1 |-> 0]]

\* Allocate, WriteBack, FetchFrom and Deallocate of a file of n bytes.
Init ==
  /\ n \in 0..MaxFileSize
  /\ allocated = AllocHeader(n, Bitmap({HdrSec}))
  /\ fetched = FetchHeader(WriteHeader(allocated.hdr, HdrSec, EmptyDisk), HdrSec)
  /\ freed = DeallocBlock(AsBlock(fetched), [used |-> allocated.used, ok |-> TRUE])
Next == UNCHANGED vars
Spec == Init /\ [][Next]_vars

\* Reference definitions, independent of the code's divRoundUp: the level
\* is the lowest whose root capacity holds n bytes; a tree of that level
\* has one data sector per SectorSize bytes and, for each l < level, one
\* level-l IndexBlock per sizePerPointer[l+1] bytes.
CeilDiv(a, b) == (a + b - 1) \div b
RefLevel == Min({l \in 0..3 : n <= NumPointers * SectorSize * NumSectorInt ^ l})
RefSectorCount ==
  CeilDiv(n, SectorSize)
    + SumFunction([l \in 1..RefLevel |-> CeilDiv(n, SectorSize * NumSectorInt ^ l)])

\* Every IndexBlock holds a positive number of bytes and no more entries
\* than its table has slots.
RECURSIVE BlockFits(_)
BlockFits(b) ==
  /\ b.numBytes > 0
  /\ b.levelSectors \in 1..NumSectorInt
  /\ DOMAIN b.nextSectors = 0..NumSectorInt-1
  /\ \A i \in DOMAIN b.next : BlockFits(b.next[i])

\* Allocate builds the tree the sizing rules call for, for every supported
\* size (boundaries between Direct, Single, Double and Triple included):
\* the root's level is the reference level, every table fits its sector,
\* every subtree holds bytes, and the sectors claimed are exactly the
\* reference count of data plus index sectors, all distinct.
AllocationShape ==
  \A h \in {allocated.hdr} :
      /\ h.level = RefLevel
      /\ h.levelSectors \in 0..NumPointers
      /\ DOMAIN h.dataSectors = 0..NumPointers-1
      /\ \A i \in DOMAIN h.next : BlockFits(h.next[i])
      /\ Marked(allocated.used) = {HdrSec} \cup HeaderSectors(h)
      /\ HdrSec \notin HeaderSectors(h)
      /\ Cardinality(HeaderSectors(h)) = RefSectorCount
      /\ HeaderEntries(h) = RefSectorCount

\* The whole life cycle round-trips for every supported size: FetchFrom of
\* what WriteBack wrote rebuilds the allocated tree, ByteToSector maps
\* every offset below n to the data sector of its block, and Deallocate
\* of the fetched tree passes its ASSERTs and frees every claimed sector.
LifecycleRoundTrip ==
  /\ fetched = allocated.hdr
  /\ \A leaves \in {BlockLeaves(AsBlock(fetched))} :
       \A o \in 0..n-1 : ByteToSector(fetched, o) = leaves[o \div SectorSize + 1]
  /\ freed.ok
  /\ Marked(freed.used) = {HdrSec}

\* An offset outside the precondition 0 <= offset < levelSectors * cap of
\* the root (spec sections 4.1 and 7: a programming error, caught by an
\* assertion) makes FileHeader::ByteToSector stop at an ASSERT, as
\* IndexBlock::ByteToSector does: for every offset past the active entries
\* but inside the root table, the lookup on the fetched header fails an
\* ASSERT instead of returning a sector id or following a NULL child.
OutOfRangeAsserted ==
  LET cap == sizePerPointer[fetched.level]
  IN  \A o \in fetched.levelSectors * cap .. NumPointers * cap - 1 :
        ByteToSector(fetched, o) = AssertFails

====
