----------------------------- MODULE FileHeader -----------------------------
(***************************************************************************)
(* The file headers of a file system sharing one free-sector bitmap and   *)
(* one disk (src/unnamed/part_000 = filehdr.cc).  Every file slot f has   *)
(* one in-memory header object mem[f] used by the caller in the order the *)
(* file system uses it (construct, Allocate or FetchFrom, WriteBack,      *)
(* Deallocate, delete).  Every method runs to completion (single-threaded *)
(* kernel), so each is one atomic action built from the operators of      *)
(* FileHeaderTree.                                                         *)
(***************************************************************************)
EXTENDS FileHeaderTree

CONSTANTS
  Files,           \* file slots of the caller
  HdrSector,       \* HdrSector[f]: the sector holding f's FileHeader
  FileSizes        \* file sizes the caller asks Allocate for

ASSUME HdrSector \in [Files -> 0..NumDiskSectors-1] /\ IsInjective(HdrSector)
VARIABLES
  mem,      \* mem[f]: the in-memory FileHeader object of file slot f
  phase,    \* phase[f]: where the caller is in the object's life cycle
  exists,   \* exists[f]: f's header sector holds a live file header
  used,     \* the free-sector bitmap: the set of sectors marked in use
  disk,     \* disk[s]: the words of sector s
  aborted   \* the kernel ASSERT that failed and stopped the machine, or "none"

vars == <<mem, phase, exists, used, disk, aborted>>

(***************************************************************************)
(* Actions: the methods of one file slot's header object, in the order    *)
(* the caller uses them.                                                   *)
(***************************************************************************)
Phases == {"none", "new", "dirty", "clean", "failed", "freed"}

\* new FileHeader
New(f) ==
  /\ phase[f] = "none"
  /\ mem' = [mem EXCEPT ![f] = NewHeader]
  /\ phase' = [phase EXCEPT ![f] = "new"]
  /\ UNCHANGED <<exists, used, disk, aborted>>

\* FileHeader::Allocate(freeMap, fileSize) for a file being created.
\* FALSE without claiming anything when fewer sectors are clear than the
\* file has data sectors; otherwise the tree is built, and an ASSERT stops
\* the machine when InitLevel rejects the size or FindAndSet runs dry.
Allocate(f, fileSize) ==
  LET numSectors == divRoundUp(fileSize, SectorSize)
      lv         == InitLevel(fileSize)
      r          == AllocHeader(fileSize, Bitmap(used))
      failed     == IF lv = -1 THEN "InitLevel"
                    ELSE IF NoSector \in HeaderSectors(r.hdr) THEN "FindAndSet"
                    ELSE "none"
  IN  /\ phase[f] = "new"
      /\ ~exists[f]
      /\ \/ /\ NumClear(Bitmap(used)) < numSectors
            /\ mem' = [mem EXCEPT ![f].numBytes = fileSize, ![f].numSectors = numSectors]
            /\ phase' = [phase EXCEPT ![f] = "failed"]
            /\ UNCHANGED <<used, aborted>>
         \/ /\ NumClear(Bitmap(used)) >= numSectors
            /\ aborted' = failed
            /\ used' = IF lv = -1 THEN used ELSE Marked(r.used)
            /\ mem' = IF failed = "none" THEN [mem EXCEPT ![f] = r.hdr] ELSE mem
            /\ phase' = IF failed = "none" THEN [phase EXCEPT ![f] = "dirty"] ELSE phase
      /\ UNCHANGED <<exists, disk>>

\* FileHeader::FetchFrom(sector) of an existing file.
FetchFrom(f) ==
  /\ phase[f] = "new"
  /\ exists[f]
  /\ mem' = [mem EXCEPT ![f] = FetchHeader(disk, HdrSector[f])]
  /\ phase' = [phase EXCEPT ![f] = "clean"]
  /\ UNCHANGED <<exists, used, disk, aborted>>

\* FileHeader::WriteBack(sector) of an allocated or fetched header.
WriteBack(f) ==
  /\ phase[f] \in {"dirty", "clean"}
  /\ disk' = WriteHeader(mem[f], HdrSector[f], disk)
  /\ phase' = [phase EXCEPT ![f] = "clean"]
  /\ exists' = [exists EXCEPT ![f] = TRUE]
  /\ UNCHANGED <<mem, used, aborted>>

\* FileHeader::Deallocate(freeMap) of the header of a file being removed;
\* an ASSERT stops the machine if a sector to clear is not marked.
Deallocate(f) ==
  LET st == DeallocBlock(AsBlock(mem[f]), [used |-> Bitmap(used), ok |-> TRUE])
  IN  /\ phase[f] = "clean"
      /\ exists[f]
      /\ used' = Marked(st.used)
      /\ aborted' = IF st.ok THEN "none" ELSE "Test"
      /\ phase' = [phase EXCEPT ![f] = "freed"]
      /\ exists' = [exists EXCEPT ![f] = FALSE]
      /\ UNCHANGED <<mem, disk>>

\* delete hdr (FileHeader::~FileHeader): only the in-memory tree goes.
Delete(f) ==
  /\ phase[f] \in {"clean", "failed", "freed"}
  /\ mem' = [mem EXCEPT ![f] = NewHeader]
  /\ phase' = [phase EXCEPT ![f] = "none"]
  /\ UNCHANGED <<exists, used, disk, aborted>>

\* After a failed ASSERT the machine does nothing more.
Halt ==
  /\ aborted # "none"
  /\ UNCHANGED vars

Init ==
  /\ mem = [f \in Files |-> NewHeader]
  /\ phase = [f \in Files |-> "none"]
  /\ exists = [f \in Files |-> FALSE]
  /\ used = Range(HdrSector)
  /\ disk = [s \in Sectors |-> [j \in 0..NumSectorInt-1 |-> 0]]
  /\ aborted = "none"

Next ==
  \/ /\ aborted = "none"
     /\ \E f \in Files :
          \/ New(f)
          \/ \E n \in FileSizes : Allocate(f, n)
          \/ FetchFrom(f)
          \/ WriteBack(f)
          \/ Deallocate(f)
          \/ Delete(f)
  \/ Halt

Spec == Init /\ [][Next]_vars

(***************************************************************************)
(* Properties                                                              *)
(***************************************************************************)

\* The header through which file f's data is reached: the in-memory tree
\* while the object holds one, else the one on f's header sector.
Owns(f) == phase[f] \in {"dirty", "clean"} \/ exists[f]
LiveHeader(f) ==
  IF phase[f] \in {"dirty", "clean"} THEN mem[f] ELSE FetchHeader(disk, HdrSector[f])
OwnedSectors(f) == IF Owns(f) THEN HeaderSectors(LiveHeader(f)) ELSE {}

\* Every variable has its type; every table holds no more entries than it
\* has slots (no node's levelSectors overruns dataSectors/nextSectors).
TypeOK ==
  /\ phase \in [Files -> Phases]
  /\ exists \in [Files -> BOOLEAN]
  /\ used \subseteq Sectors
  /\ disk \in [Sectors -> [0..NumSectorInt-1 -> Int]]
  /\ aborted \in {"none", "InitLevel", "FindAndSet", "Test"}
  /\ \A f \in Files :
       /\ mem[f].level \in 0..3
       /\ mem[f].levelSectors \in -1..NumPointers
       /\ mem[f].dataSectors \in [0..NumPointers-1 -> Sectors \cup {NoSector}]

\* Sector accounting across files, Allocate, Deallocate and the header
\* sectors: the bitmap marks exactly the header sectors and the sectors the
\* files' trees name; no tree names a sector twice, and no two trees and no
\* header sector share one.  Broken by a leak (a sector left marked after
\* Deallocate) or by aliasing (one sector handed to two entries).
SectorAccounting ==
  aborted = "none" =>
    /\ used = Range(HdrSector) \cup UNION {OwnedSectors(f) : f \in Files}
    /\ \A f \in Files : Owns(f) =>
         /\ Cardinality(OwnedSectors(f)) = HeaderEntries(LiveHeader(f))
         /\ OwnedSectors(f) \cap Range(HdrSector) = {}
    /\ \A f, g \in Files : f # g => OwnedSectors(f) \cap OwnedSectors(g) = {}

\* ByteToSector translates exactly: the file has one data sector per
\* SectorSize bytes of its length (the leaves of its tree, left to right),
\* and every offset below FileLength resolves, through the branch and
\* remainder arithmetic of every level, to the leaf of its block.
OffsetTranslation ==
  aborted = "none" =>
    \A f \in Files : Owns(f) =>
      LET h      == LiveHeader(f)
          leaves == BlockLeaves(AsBlock(h))
      IN  /\ Len(leaves) = divRoundUp(FileLength(h), SectorSize)
          /\ \A o \in 0..FileLength(h)-1 :
               ByteToSector(h, o) = leaves[o \div SectorSize + 1]

\* WriteBack and FetchFrom round-trip: while a header object is clean, a
\* fresh FetchFrom of its header sector rebuilds exactly the in-memory
\* tree, whatever other files have since allocated, written or freed.
PersistedImageMatches ==
  aborted = "none" =>
    \A f \in Files : phase[f] = "clean" => FetchHeader(disk, HdrSector[f]) = mem[f]

\* FileHeader::Allocate fails cleanly when the disk is too full (its
\* header comment and spec section 7: FALSE, nothing claimed): once its
\* free-space check has passed, FindAndSet never runs dry mid-tree.
AllocateNeverRunsDry == aborted # "FindAndSet"

(***************************************************************************)
(* Refinement: the headers implement the abstract file map.  A file is    *)
(* present while its header is live; its blocks are the leaves of its     *)
(* tree and its metadata the index sectors; the sectors in use are the    *)
(* bitmap's marked ones; a failed ASSERT is the abstract halt.            *)
(***************************************************************************)
AbsHeader(h) ==
  [len |-> FileLength(h), blocks |-> BlockLeaves(AsBlock(h)),
   meta |-> HeaderSectors(h) \ Range(BlockLeaves(AsBlock(h)))]
\* (The header is bound to a value once, by the set comprehension, so that
\* it is not recomputed at every use when the mapping is primed.)
AbsFile(f) ==
  IF Owns(f) THEN CHOOSE r \in {AbsHeader(h) : h \in {LiveHeader(f)}} : TRUE
  ELSE [len |-> -1, blocks |-> <<>>, meta |-> {}]

\* The abstract state of the current state: file map, sectors in use,
\* whether an ASSERT has failed.
AbsImage == <<[f \in Files |-> AbsFile(f)], used, aborted # "none">>

(***************************************************************************)
(* State view: a sector no existing file's header names is never read     *)
(* again before it is rewritten (FetchFrom only reads an existing file's   *)
(* header sector and the sectors its tree names), so its stale words do   *)
(* not tell two states apart.  A stale table may name a sector id off    *)
(* the disk; ReadSector gives no words for it, so the view leaves it out.  *)
(***************************************************************************)
StoredSectors ==
  UNION {{HdrSector[f]} \cup HeaderSectors(FetchHeader(disk, HdrSector[f])) :
           f \in {g \in Files : exists[g]}}
View == <<mem, phase, exists, used, [s \in StoredSectors \cap Sectors |-> disk[s]], aborted>>

====
