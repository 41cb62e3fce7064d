# TLA+ models of the Nachos multi-level file header

This directory models the multi-level indexed file header of Nachos
(`src/unnamed/part_000`, which is `filehdr.cc`, and `src/filesys/filehdr.h`).
It is checked with TLC.

## The system

**Sizing constants** (`filehdr.h:21-29`). These are derived from `SectorSize`
and `sizeof(int)`:

- `NumSectorInt` is the number of words in a sector.
- `NumPointers` is the number of root slots left after `numBytes` and
  `numSectors`.
- The capacities of the Direct, Single, Double and Triple levels are
  `NumPointers * SectorSize * NumSectorInt^l`.
- `sizePerPointer[l]` is the number of bytes below one pointer of a
  level-`l` node.

**IndexBlock** (`part_000:32-179`). An index node at level `l` is stored in
one sector, as its table `nextSectors[NumSectorInt]`.

- A level-0 node's entries are data sectors.
- A higher node's entries are the sectors of its children, and
  `nextIndexBlocks` holds the in-memory children.
- Its operations are Allocate, Deallocate, FetchFrom, WriteBack and
  ByteToSector, each recursive over the children.

**FileHeader** (`part_000:188-444`). The root of a file's tree is stored in
one sector as the words `numBytes, numSectors, dataSectors[NumPointers]`.
Its `level` (chosen by `InitLevel` from `numBytes`) and its children are
in-memory only.

- Allocate checks the free map, then claims the root's entries and allocates
  the children.
- Deallocate frees the children first, then the root's entries.
- WriteBack writes the root sector, then each child's sector.
- FetchFrom reads the root, recomputes the level and sizes, and rebuilds the
  children from disk.
- ByteToSector descends by `offset / sizePerPointer[level]`, passing the
  remainder down.

**Collaborators not in this repository.** They are modelled from spec.md and
from how the code uses them:

- `PersistentBitmap` (the free map) is a bitmap with `FindAndSet`, which
  returns the first clear bit or -1, plus `NumClear`, `Test` and `Clear`.
- `SynchDisk` reads and writes whole sectors atomically.
- The file system (create, open, remove) uses a header object in a fixed
  order: construct, then Allocate (a new file) or FetchFrom (an existing
  one), then WriteBack, Deallocate, delete.

### How the parts interact

Several files share one free map and one disk. One file's Allocate can only
claim sectors that another file's Deallocate released. The freed sectors keep
the old file's tables until they are rewritten. A header is consistent only
when three things agree: the in-memory tree, the root and index sectors on
disk, and the free map.

### What is hard to test

These are listed with their source lines under `hazards` in PROJECT.json.

- The free-space check at `part_000:259` counts only data sectors, but the
  tree also claims one sector per index node. On a nearly full disk,
  FindAndSet runs dry inside an IndexBlock's Allocate, and the ASSERT after it
  (line 73) stops the kernel, leaving the sectors claimed so far still marked.
  The root's own claim loop (line 280) cannot run dry, because the
  data-sector check covers its entries. The `return FALSE` paths at lines 82
  and 289 are dead code.
- Boundary arithmetic:
  - `InitLevel`'s `<=` thresholds;
  - the last child's remainder at lines 81, 116, 288 and 361, when the size is
    an exact multiple;
  - the offset reduction in ByteToSector at lines 145 and 431;
  - the bounds of FileHeader::ByteToSector (line 428), which asserts none,
    unlike IndexBlock::ByteToSector.
- The round trip through disk: FetchFrom trusts the on-disk tables and the
  field order, while sectors are reused from removed files.
- Sector accounting over long create/remove sequences on a shared map.
- A crash between WriteBack's root write and its child writes (line 397).
  This is not modelled (see Not modelled).

## Modules

| Module | What it models |
|---|---|
| `FileHeaderTree` | The constants, and every method of IndexBlock and FileHeader as an operator. The recursion is `RECURSIVE` operators that thread the bitmap (a sequence of booleans, bit `s` at index `s+1`) or the disk through the calls in the code's order. |
| `FileHeader` | File slots sharing the free map and the disk. Each method of a slot's header object is one atomic action; the kernel is single-threaded, so each method runs to completion. |
| `MCFileHeader` | Instantiates FileHeader with two files and header sectors 0 and 1. |
| `MCFileHeaderRefine` | Adds to `MCFileHeader` a history variable `absPrev` and the `FileMap` instance, for the refinement runs. |
| `IndexBlock` | The IndexBlock class at its own interface: object slots of one level, each in a sector its parent has already claimed, sharing the free map and the disk. The constructor, Allocate, FetchFrom, WriteBack, Deallocate and the destructor are actions. |
| `MCIndexBlock` | Instantiates IndexBlock with two level-1 objects in sectors 0 and 1, with its own history variable and `FileMap` instance. |
| `FileMap` | The abstract promise of the layer: each file is a length, a sequence of distinct data sectors, and a set of metadata sectors. A file changes only through its own Create (taking free sectors) or Remove (freeing them); Halt is a failed assertion. |
| `FileHeaderSizes` | One file of every size from 0 to MaxFileSize on an empty disk, checked against closed-form reference definitions. |

The in-memory tree is a record:

- A node is `[level, numBytes, levelSectors, nextSectors, next]`.
- The root is `[numBytes, numSectors, level, levelSectors, dataSectors, next]`.
- `next` is a sequence of children: the code's `nextIndexBlocks[i]` is
  `next[i+1]`.
- A table is a function over `0..width-1`. If `levelSectors` exceeds the
  width, the table grows past it, so an array overrun shows up in the state
  instead of being hidden.

**Failures.** A failed ASSERT sets `aborted` to the ASSERT that failed, and
only the `Halt` stutter is enabled after that. The safety invariants are
stated for states where `aborted = "none"`. How `aborted` is set:

- `"InitLevel"`: Allocate reaches `ASSERT(FALSE)` (line 236). spec.md
  section 7 records this as fatal in this code, so no run treats it as a
  defect; the runs' sizes never exceed MaxFileSize.
- `"FindAndSet"`: Allocate's `FindAndSet` returns -1 (the ASSERTs at lines 73
  and 280; only line 73 can fire). Claiming stops at that call, as the
  machine does.
- `"Test"`: Deallocate finds a sector to clear that is not marked. Clearing
  stops at that sector.

`FileHeader`'s `Next` is the public interface of the `FileHeader` class
(`filehdr.h:71-96`): one disjunct per method that changes state.

`FileHeader` actions and the methods they stand for:

| Action | Code |
|---|---|
| `New(f)` | `FileHeader::FileHeader` |
| `Allocate(f, size)` | `FileHeader::Allocate`, including its IndexBlock recursion |
| `FetchFrom(f)` | `FileHeader::FetchFrom` |
| `WriteBack(f)` | `FileHeader::WriteBack` |
| `Deallocate(f)` | `FileHeader::Deallocate` |
| `Delete(f)` | `FileHeader::~FileHeader` (the in-memory tree only) |

## Runs

| Run | Config | Expect | Checks |
|---|---|---|---|
| `filehdr_lifecycle` | `MCFileHeader.cfg` | pass | TypeOK, SectorAccounting, OffsetTranslation, PersistedImageMatches |
| `filehdr_sizes` | `FileHeaderSizes.cfg` | pass | AllocationShape, LifecycleRoundTrip |
| `filehdr_refines_filemap` | `MCFileHeader_refine.cfg` | pass | FileMapRefinement |
| `filehdr_triple` | `MCFileHeader_triple.cfg` | pass | SectorAccounting, OffsetTranslation, PersistedImageMatches, FileMapRefinement |
| `indexblock_interface` | `MCIndexBlock.cfg` | pass | BlockAccounting, BlockImageMatches, BlockMapRefinement |
| `alloc_space_check` | `MCFileHeader_assert.cfg` | violation | AllocateNeverRunsDry |
| `bytetosector_bounds` | `FileHeaderSizes_bounds.cfg` | violation | OutOfRangeAsserted |

**filehdr_lifecycle** runs every interleaving of two files' life cycles on a
16-sector disk.

- It shows that the free map marks exactly the header sectors and the sectors
  the live trees name, with no aliasing and no leak.
- It shows that ByteToSector maps every offset to the right data sector.
- It shows that a clean header always equals a fresh FetchFrom of its sector,
  even after other files have reused sectors.

**filehdr_sizes** covers every size from 0 to 512 bytes, all four levels, on a
171-sector disk.

- It shows that Allocate builds the tree whose level and sector count match a
  reference formula.
- It shows that WriteBack, FetchFrom, ByteToSector and Deallocate round-trip
  for every size.

**filehdr_refines_filemap** checks the lifecycle instance against `FileMap`
through a refinement mapping:

- A file is present while `Owns(f)`, that is, while its header object is
  allocated or fetched, or its header sector holds a live header.
- Its blocks are the leaves of its tree, and its metadata sectors are the
  index sectors.
- `inuse` is the set of sectors the bitmap marks.
- `halted` holds once an ASSERT has failed.

The abstract actions are Create (Allocate), Remove (Deallocate) and Halt.
Every other step (New, FetchFrom, WriteBack, delete, a failed Allocate) must
leave every file's map and the bitmap unchanged. So the run shows that no
WriteBack or sector reuse by one file ever changes another file's mapping.
TLC evaluates a primed refinement mapping without caching the recursive
tree operators, which makes it impractically slow here. So
`MCFileHeaderRefine` keeps a history variable `absPrev`, the abstract image
(`AbsImage`) of the previous state. `FileMap` is instantiated with
`absPrev` in place of its variables, so the abstract behaviour is the
concrete one delayed by one step, and the mapping is only ever evaluated on
unprimed states. The history variable adds no constraint to the concrete
behaviour. A step's abstract image is the next state's `absPrev`, so every
step is still checked against `FileMap`'s next-state relation.

**filehdr_triple** runs the same four questions with a Triple-indirect file.
The disk has 64 sectors and the sizes are `{8, 129}`.

- A 129-byte file is Triple (above 128), with 46 sectors: 33 data sectors and
  13 index sectors. The root names one L2 block over three L1 blocks of 64,
  64 and 1 bytes, which hold 4, 4 and 1 L0 blocks.
- It fits beside an 8-byte file and the two header sectors (50 of 64).
- A second 129-byte Allocate fails its free-space check.
- After a Triple file is removed, its sectors are reused.

So the three-level IndexBlock recursion of Allocate, WriteBack, FetchFrom,
Deallocate and ByteToSector is checked against the other file's life
cycle. The lifecycle run reaches only Double.

**indexblock_interface** drives two level-1 IndexBlock objects through their
own interface, on a 20-sector disk. Their sectors 0 and 1 stand for the
entries a parent has claimed for them.

- The sizes `{5, 16, 33}` are a parent's remSize values: a single child with
  a partial leaf, an exact multiple of `sizePerPointer[1]`, and three
  children with a 1-byte last one.
- A 33-byte and a 16-byte block fit together (17 sectors). Two 33-byte
  blocks do not.
- IndexBlock::Allocate has no free-space check of its own, so the second one
  runs dry and hits the ASSERT after FindAndSet.
- FetchFrom takes the size from the caller (`size[b]`), because a block's
  sector holds only its table.

The run shows that the bitmap matches the subtrees (`BlockAccounting`). It
shows that FetchFrom with the parent's size rebuilds every clean block
(`BlockImageMatches`). It shows that each block, taken as a file of remSize
bytes, refines `FileMap` (`BlockMapRefinement`). The destructor's ASSERTs
(`ChildrenPresent`) are part of the `Delete` action.

**alloc_space_check** shows a real defect (see Findings).

**Bounds.**

- `SectorSize = 4`, `WordSize = 1`. This gives `NumSectorInt = 4` and
  `NumPointers = 2`, the code's formulas with a smaller sector. The capacities
  are 8, 32, 128 and 512 bytes, so every level can be reached.
- The lifecycle sizes are `{0, 8, 9, 17, 33}`:
  - 0 is the empty file;
  - 8 is the Direct boundary, checked with `<=`;
  - 9 is the first Single-indirect size, with a partial last child;
  - 17 has a partial last leaf;
  - 33 is Double-indirect, with 13 sectors.
- 16 sectors let two files coexist, force reuse of freed sectors, and make
  the disk run dry.

**State view.** `View` drops the words of sectors that no existing file's
header names. This is sound because FetchFrom only reads the sector of an
existing file and the sectors that file's tree names, so stale words are
never read before they are rewritten. A stale table can name a sector id that is not on the
disk, and ReadSector gives no words for such an id. The view therefore keeps
only ids in `Sectors`. `MCIndexBlock`'s `MCView` does the same.

**Fairness.** There is none. The code is a single-threaded kernel library
driven by its caller, and every property is safety.

**Mutants.** Each property is broken by a plausible bug in the code it covers:

| Mutated definition | Bug | Property that catches it |
|---|---|---|
| `InitLevel` | Direct accepted up to one level too far | TypeOK |
| `DeallocBlock` | children not freed | SectorAccounting |
| `BlockByteToSector` | offset not reduced | OffsetTranslation |
| `WriteHeader` | children not written | PersistedImageMatches |
| `WriteBlock` | an IndexBlock's children not written | BlockImageMatches |
| `ChildBytes` | exact-multiple remainder taken as 0 | AllocationShape |
| `HeaderWords` | `numBytes` and `numSectors` swapped | LifecycleRoundTrip |
| `ClaimFrom` | FindAndSet finds a clear bit but does not set it | FileMapRefinement, BlockMapRefinement |

The same mutants of `DeallocBlock`, `BlockByteToSector`, `WriteHeader` and
`ClaimFrom` are also run against the triple run. `DeallocBlock` is also run
against `BlockAccounting`.

## Findings

**Allocate can abort instead of failing (`part_000:259`).**
`FileHeader::Allocate` compares `NumClear()` with the number of data sectors
only. TLC's trace:

1. An 8-byte file is created and written, which leaves 12 clear sectors.
2. Allocate of a 33-byte file passes the check, since it needs only 9 data
   sectors.
3. The Double tree it builds needs 13 sectors in all, so `FindAndSet` returns
   -1 and an ASSERT stops the kernel.

The sectors claimed before the failure remain marked. The header comment says
Allocate returns FALSE when there are not enough free blocks.

**FileHeader::ByteToSector checks no bounds (`part_000:428`).** spec.md
(sections 4.1 and 7) says an offset outside `0 .. levelSectors * cap - 1`
is a programming error caught by an assertion. IndexBlock::ByteToSector
asserts this (lines 138-139), but the root does not. The
`bytetosector_bounds` run asks for every size and for every offset past the
active entries but inside the root table:

- A Direct file returns the unused slot's -1. TLC's trace is the 0-byte
  file at offset 0.
- An indexed file follows the NULL `nextIndexBlocks[br]` that Allocate and
  FetchFrom left zeroed.

The model names these outcomes `NoSector` and `NullDeref`. A failed ASSERT
is `AssertFails`. Offsets past the whole root table read outside the arrays.
No run asks for them.

## Not modelled

- Print, PrintSectors and PrintContents are diagnostic output.
- GetHeaderSize and GetIndexBlockSize are declared but never defined.
- `FileHeaderDiskSize` only sizes a stack buffer, and `WriteSector` transfers
  only `SectorSize` bytes of it.
- The persistence of the free map itself, and the directory, belong to the
  file system, which is not in this repository.
- A crash in the middle of WriteBack. The code writes the root sector and
  then each index sector with no ordering or recovery of its own. spec.md's
  non-goals disclaim crash consistency beyond the caller's discipline, and
  that caller (the directory and free-map write-back order) is not in this
  repository. A crash model would therefore have no requirement to check
  against.

## Plan for later work

1. A Level-2 IndexBlock instance. Its subtrees are already checked inside the
   triple run, so it is left out for now.
2. A crash model, should the file system's write-back order ever be added to
   this repository.
