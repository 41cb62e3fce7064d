--------------------------- MODULE FileHeaderTree ---------------------------
(***************************************************************************)
(* The on-disk index tree of the MP4 file header (src/filesys/filehdr.h,  *)
(* src/unnamed/part_000 = filehdr.cc) as pure operators: the sizing        *)
(* constants, and IndexBlock/FileHeader Allocate, Deallocate, FetchFrom,   *)
(* WriteBack and ByteToSector as RECURSIVE operators that thread the free  *)
(* bitmap or the disk through the calls in the order the code makes them.  *)
(*                                                                         *)
(* A FileHeader (root) holds numBytes, numSectors and a table of          *)
(* NumPointers sector ids; depending on the file length its entries name   *)
(* data sectors (LDirect = 0) or sectors holding IndexBlocks of level      *)
(* level-1.  An IndexBlock of level l holds a table of NumSectorInt sector *)
(* ids naming data sectors (l = 0) or IndexBlocks of level l-1.  A disk    *)
(* sector is modelled as its NumSectorInt words.                          *)
(***************************************************************************)
EXTENDS Integers, Sequences, FiniteSets, FiniteSetsExt, SequencesExt, Functions

CONSTANTS
  SectorSize,      \* bytes per disk sector
  WordSize,        \* sizeof(int)
  NumDiskSectors   \* sectors on the disk

ASSUME SectorSize % WordSize = 0 /\ SectorSize >= 4 * WordSize
Sectors == 0..NumDiskSectors-1
NoSector == -1    \* memset(.., -1, ..) of the tables; FindAndSet's failure
AssertFails == -2 \* outcome of a lookup whose ASSERT stops the kernel
NullDeref == -3   \* outcome of a lookup through a NULL nextIndexBlocks entry

(***************************************************************************)
(* Sizing constants (filehdr.h).  Levels are 0..3 for both node kinds;    *)
(* the root's enum LDirect..LTriple is 0..3 as well.                       *)
(***************************************************************************)
NumSectorInt == SectorSize \div WordSize
NumPointers == (SectorSize - 2 * WordSize) \div WordSize
sizePerPointer == [l \in 0..3 |-> SectorSize * NumSectorInt ^ l]
MaxLevelBytes == [l \in 0..3 |-> NumPointers * sizePerPointer[l]]
MaxFileSize == MaxLevelBytes[3]

\* Nachos divRoundUp(n, s)
divRoundUp(n, s) == (n \div s) + (IF n % s > 0 THEN 1 ELSE 0)

\* Mutant of InitLevel: the Direct threshold counts NumSectorInt pointers.
InitLevelWideDirect(numBytes) ==
  IF numBytes > MaxFileSize THEN -1
  ELSE Min({l \in 0..3 : numBytes <= (IF l = 0 THEN NumSectorInt * SectorSize
                                       ELSE MaxLevelBytes[l])})

\* FileHeader::InitLevel: the lowest level whose threshold numBytes fits;
\* -1 stands for ASSERT(FALSE) on an unsupported size.
InitLevel(numBytes) ==
  IF numBytes > MaxFileSize THEN -1
  ELSE Min({l \in 0..3 : numBytes <= MaxLevelBytes[l]})

\* Mutant of ChildBytes: the last entry always gets the remainder, even
\* when the size is an exact multiple (then zero bytes).
ChildBytesZeroTail(n, l, i, cnt) ==
  IF i = cnt - 1 THEN n % sizePerPointer[l] ELSE sizePerPointer[l]

\* The bytes entry i (of cnt) of a node of level l holding n bytes is
\* responsible for: a full pointer's worth, or the remainder for the last.
ChildBytes(n, l, i, cnt) ==
  IF i = cnt - 1 /\ n % sizePerPointer[l] # 0
  THEN n % sizePerPointer[l] ELSE sizePerPointer[l]

\* A pointer table of the given width holding secs in its first slots;
\* entries past the width stand for writes that overrun the C array.
Table(secs, width) ==
  [j \in 0..Max({width, Len(secs)})-1 |-> IF j < Len(secs) THEN secs[j+1] ELSE NoSector]

(***************************************************************************)
(* PersistentBitmap (external collaborator, modelled from the spec):      *)
(* FindAndSet claims the first clear bit, -1 when none is clear.           *)
(***************************************************************************)
\* A bitmap is the sequence of its bits, bit s at index s+1 (TRUE = marked
\* in use); SetBit rebuilds it with SubSeq and \o, so every bitmap reached
\* through a chain of calls is a plain sequence value.
Bitmap(S) == [i \in 1..NumDiskSectors |-> (i - 1) \in S]
Bit(u, s) == u[s + 1]
Marked(u) == {s \in Sectors : Bit(u, s)}
NumClear(u) == Cardinality(Sectors \ Marked(u))
\* Bitmap::Mark / Bitmap::Clear of bit s.
SetBit(u, s, v) == SubSeq(u, 1, s) \o <<v>> \o SubSeq(u, s + 2, NumDiskSectors)

\* The first clear bit in lo..hi, NoSector when all are set; the range is
\* halved so that the scan nests only logarithmically deep.
RECURSIVE FirstClearIn(_, _, _)
FirstClearIn(u, lo, hi) ==
  IF lo > hi THEN NoSector
  ELSE IF lo = hi THEN IF Bit(u, lo) THEN NoSector ELSE lo
  ELSE LET mid  == (lo + hi) \div 2
           left == FirstClearIn(u, lo, mid)
       IN  IF left # NoSector THEN left ELSE FirstClearIn(u, mid + 1, hi)
\* The first clear bit at or after `from`.
FirstClear(u, from) == FirstClearIn(u, from, NumDiskSectors - 1)
FindAndSet(u) == FirstClear(u, 0)

\* Mutant of ClaimFrom: FindAndSet finds the first clear bit but does not
\* set it.
RECURSIVE ClaimFromNoMark(_, _, _)
ClaimFromNoMark(k, u, from) ==
  IF k = 0 THEN [secs |-> <<>>, used |-> u]
  ELSE LET s == FirstClear(u, from)
       IN  IF s = NoSector THEN [secs |-> <<NoSector>>, used |-> u]
           ELSE LET rest == ClaimFromNoMark(k - 1, u, s)
                IN  [secs |-> <<s>> \o rest.secs, used |-> rest.used]

\* k successive FindAndSet calls: the ids in call order and the new bitmap.
\* Each call scans from bit 0, and every bit below the previous claim is
\* set, so the scan resumes at the previous claim.  The ASSERT after a
\* call that returned -1 stops the machine, so claiming ends there.
RECURSIVE ClaimFrom(_, _, _)
ClaimFrom(k, u, from) ==
  IF k = 0 THEN [secs |-> <<>>, used |-> u]
  ELSE LET s == FirstClear(u, from)
       IN  IF s = NoSector THEN [secs |-> <<NoSector>>, used |-> u]
           ELSE LET rest == ClaimFrom(k - 1, SetBit(u, s, TRUE), s + 1)
                IN  [secs |-> <<s>> \o rest.secs, used |-> rest.used]
ClaimSectors(k, u) == ClaimFrom(k, u, 0)

(***************************************************************************)
(* An IndexBlock is a record [level, numBytes, levelSectors, nextSectors, *)
(* next]; next is the sequence of its levelSectors children (empty at     *)
(* level 0): C's nextIndexBlocks[i] is next[i+1].                          *)
(***************************************************************************)
\* The entries of a node's table in use, as a sequence.
Active(tbl, k) == [j \in 1..k |-> tbl[j-1]]

RECURSIVE BlockSectors(_), BlockEntries(_), BlockLeaves(_)
\* Every sector id named by a subtree, and how many entries name one.
BlockSectors(b) ==
  Range(Active(b.nextSectors, b.levelSectors))
    \cup UNION {BlockSectors(b.next[i]) : i \in DOMAIN b.next}
BlockEntries(b) ==
  b.levelSectors + SumFunction([i \in DOMAIN b.next |-> BlockEntries(b.next[i])])
\* The data sectors of a subtree, left to right.
BlockLeaves(b) ==
  IF b.level = 0 THEN Active(b.nextSectors, b.levelSectors)
  ELSE FlattenSeq([i \in DOMAIN b.next |-> BlockLeaves(b.next[i])])

RECURSIVE AllocBlock(_, _, _), AllocKids(_, _, _, _, _)

\* IndexBlock::Allocate(freeMap, remSize) on a fresh IndexBlock(l).
AllocBlock(l, remSize, u) ==
  LET k    == divRoundUp(remSize, sizePerPointer[l])
      c    == ClaimSectors(k, u)
      kids == IF l = 0 \/ NoSector \in Range(c.secs) THEN [blks |-> <<>>, used |-> c.used]
              ELSE AllocKids(l, remSize, k, 0, c.used)
  IN  [blk  |-> [level |-> l, numBytes |-> remSize, levelSectors |-> k,
                 nextSectors |-> Table(c.secs, NumSectorInt), next |-> kids.blks],
       used |-> kids.used]

\* The loop allocating children i..k-1 of a level-l node holding n bytes.
AllocKids(l, n, k, i, u) ==
  IF i = k THEN [blks |-> <<>>, used |-> u]
  ELSE LET c    == AllocBlock(l - 1, ChildBytes(n, l, i, k), u)
           rest == AllocKids(l, n, k, i + 1, c.used)
       IN  IF NoSector \in BlockSectors(c.blk) THEN [blks |-> <<c.blk>>, used |-> c.used]
           ELSE [blks |-> <<c.blk>> \o rest.blks, used |-> rest.used]

\* IndexBlock::Deallocate: children first, then the node's own entries,
\* each ASSERTed to be marked before it is cleared.  ClearOrder lists the
\* sectors in the order the recursion clears them; a failed ASSERT stops
\* the machine, so clearing ends at the first sector not marked.
RECURSIVE ClearOrder(_), ClearEntries(_, _)
ClearOrder(b) ==
  FlattenSeq([i \in DOMAIN b.next |-> ClearOrder(b.next[i])])
    \o Active(b.nextSectors, b.levelSectors)
ClearEntries(secs, st) ==
  IF secs = <<>> \/ ~st.ok THEN st
  ELSE ClearEntries(Tail(secs),
         IF Head(secs) \in Sectors /\ Bit(st.used, Head(secs))
         THEN [used |-> SetBit(st.used, Head(secs), FALSE), ok |-> st.ok]
         ELSE [st EXCEPT !.ok = FALSE])
\* Mutant of DeallocBlock: the recursion into the children is dropped.
DeallocBlockSkipKids(b, st) == ClearEntries(Active(b.nextSectors, b.levelSectors), st)
DeallocBlock(b, st) == ClearEntries(ClearOrder(b), st)

\* ReadSector; the disk ASSERTs a sector number in range.
ReadSector(dsk, s) ==
  IF s \in Sectors THEN dsk[s] ELSE [j \in 0..NumSectorInt-1 |-> NoSector]

\* IndexBlock::FetchFrom(sector, remSize) on a fresh IndexBlock(l).
RECURSIVE FetchBlock(_, _, _, _)
FetchBlock(l, sector, remSize, dsk) ==
  LET k   == divRoundUp(remSize, sizePerPointer[l])
      tbl == ReadSector(dsk, sector)
  IN  [level |-> l, numBytes |-> remSize, levelSectors |-> k, nextSectors |-> tbl,
       next  |-> IF l = 0 THEN <<>>
                 ELSE [i \in 1..k |-> FetchBlock(l - 1, tbl[i-1],
                                        ChildBytes(remSize, l, i-1, k), dsk)]]

\* Mutant of WriteBlock: the node's own table only, no child written.
WriteBlockSelfOnly(b, sector, dsk) == [dsk EXCEPT ![sector] = b.nextSectors]

\* IndexBlock::WriteBack(sector): its own table, then each child to the
\* sector its table names.
RECURSIVE WriteBlock(_, _, _), WriteKids(_, _, _, _)
WriteBlock(b, sector, dsk) ==
  WriteKids(b.next, b.nextSectors, 0,
            [dsk EXCEPT ![sector] = b.nextSectors])
WriteKids(kids, tbl, i, dsk) ==
  IF i = Len(kids) THEN dsk
  ELSE WriteKids(kids, tbl, i + 1, WriteBlock(kids[i+1], tbl[i], dsk))

\* Mutant of BlockByteToSector: the offset is passed down unreduced.
RECURSIVE BlockByteToSectorUnreduced(_, _)
BlockByteToSectorUnreduced(b, offset) ==
  LET cap == sizePerPointer[b.level]
      br  == offset \div cap
  IN  IF offset < 0 \/ offset >= b.levelSectors * cap THEN AssertFails
      ELSE IF b.level = 0 THEN b.nextSectors[br]
      ELSE BlockByteToSectorUnreduced(b.next[br+1], offset)

\* IndexBlock::ByteToSector; AssertFails where one of its ASSERTs fails.
RECURSIVE BlockByteToSector(_, _)
BlockByteToSector(b, offset) ==
  LET cap == sizePerPointer[b.level]
      br  == offset \div cap
  IN  IF offset < 0 \/ offset >= b.levelSectors * cap THEN AssertFails
      ELSE IF b.level = 0 THEN b.nextSectors[br]
      ELSE BlockByteToSector(b.next[br+1], offset - br * cap)

(***************************************************************************)
(* The FileHeader (root).  Its table dataSectors has NumPointers slots;   *)
(* a root of level L behaves as an IndexBlock of level L (AsBlock).       *)
(***************************************************************************)

\* FileHeader::FileHeader: the object before Allocate or FetchFrom.
NewHeader ==
  [numBytes |-> -1, numSectors |-> -1, level |-> 0, levelSectors |-> -1,
   dataSectors |-> [j \in 0..NumPointers-1 |-> NoSector], next |-> <<>>]

AsBlock(h) ==
  [level |-> h.level, numBytes |-> h.numBytes, levelSectors |-> h.levelSectors,
   nextSectors |-> h.dataSectors, next |-> h.next]
HeaderSectors(h) == BlockSectors(AsBlock(h))
HeaderEntries(h) == BlockEntries(AsBlock(h))

\* The body of FileHeader::Allocate after its free-space check, for a
\* supported size: claim the root's entries, then allocate each child.
AllocHeader(fileSize, u) ==
  LET lv   == InitLevel(fileSize)
      k    == divRoundUp(fileSize, sizePerPointer[lv])
      c    == ClaimSectors(k, u)
      kids == IF lv = 0 \/ NoSector \in Range(c.secs) THEN [blks |-> <<>>, used |-> c.used]
              ELSE AllocKids(lv, fileSize, k, 0, c.used)
  IN  [hdr  |-> [numBytes |-> fileSize, numSectors |-> divRoundUp(fileSize, SectorSize),
                 level |-> lv, levelSectors |-> k,
                 dataSectors |-> Table(c.secs, NumPointers), next |-> kids.blks],
       used |-> kids.used]

\* Mutant of HeaderWords: numSectors is packed before numBytes.
HeaderWordsSwapped(h) ==
  [j \in 0..NumSectorInt-1 |->
     IF j = 0 THEN h.numSectors ELSE IF j = 1 THEN h.numBytes ELSE h.dataSectors[j-2]]

\* FileHeader::WriteBack's sector image: numBytes, numSectors, dataSectors
\* packed word by word.
HeaderWords(h) ==
  [j \in 0..NumSectorInt-1 |->
     IF j = 0 THEN h.numBytes ELSE IF j = 1 THEN h.numSectors ELSE h.dataSectors[j-2]]

\* Mutant of WriteHeader: only the root sector is written (the pre-MP4 code).
WriteHeaderRootOnly(h, sector, dsk) == [dsk EXCEPT ![sector] = HeaderWords(h)]

\* FileHeader::WriteBack(sector): the root sector, then each child.
WriteHeader(h, sector, dsk) ==
  WriteKids(h.next, h.dataSectors, 0, [dsk EXCEPT ![sector] = HeaderWords(h)])

\* FileHeader::FetchFrom(sector): unpack the root sector, recompute the
\* level from numBytes, then fetch each child from the sector it names.
FetchHeader(dsk, sector) ==
  LET w   == ReadSector(dsk, sector)
      lv  == InitLevel(w[0])
      k   == divRoundUp(w[0], sizePerPointer[lv])
      tbl == [j \in 0..NumPointers-1 |-> w[j+2]]
  IN  [numBytes |-> w[0], numSectors |-> w[1], level |-> lv, levelSectors |-> k,
       dataSectors |-> tbl,
       next |-> IF lv = 0 THEN <<>>
                ELSE [i \in 1..k |-> FetchBlock(lv - 1, tbl[i-1],
                                       ChildBytes(w[0], lv, i-1, k), dsk)]]

\* FileHeader::ByteToSector: no bounds ASSERT; direct lookup, or branch
\* into a child.  A branch past the children reads a slot Allocate and
\* FetchFrom zeroed, a NULL pointer (NullDeref).  An offset past the whole
\* root table (br >= NumPointers) reads outside the arrays; no property
\* asks for one.
ByteToSector(h, offset) ==
  LET cap == sizePerPointer[h.level]
      br  == offset \div cap
  IN  IF h.level = 0 THEN h.dataSectors[br]
      ELSE IF br + 1 \notin DOMAIN h.next THEN NullDeref
      ELSE BlockByteToSector(h.next[br+1], offset - br * cap)

FileLength(h) == h.numBytes

====
