------------------------------ MODULE FileMap ------------------------------
(***************************************************************************)
(* What the file header layer promises its caller (spec sections 1-2 and  *)
(* 9), with no trees, levels or disk images: every file is a length, the *)
(* sequence of its data sectors (block i holds bytes i*SectorSize ..) and  *)
(* a set of metadata sectors; the sectors in use are exactly the reserved *)
(* ones and those some file holds.  A file's map changes only when that   *)
(* file is created or removed; creation takes distinct sectors that were  *)
(* free; removal returns all of them.  A failed assertion halts the       *)
(* machine, after which nothing is promised of the free map.              *)
(***************************************************************************)
EXTENDS Integers, Sequences, FiniteSets, Functions

CONSTANTS
  Files,       \* file slots
  Sectors,     \* sector numbers of the disk
  SectorSize,  \* bytes per data sector
  Reserved     \* sectors in use from the start (the files' header sectors)

VARIABLES
  file,        \* file[f]: f's length, data blocks and metadata sectors, or NoFile
  inuse,       \* the sectors marked in use
  halted       \* a kernel assertion has failed

vars == <<file, inuse, halted>>

NoFile == [len |-> -1, blocks |-> <<>>, meta |-> {}]
Held(r) == Range(r.blocks) \cup r.meta

\* A file of r.len bytes laid out in one distinct free sector per
\* SectorSize bytes, plus metadata sectors that are free and distinct from
\* its blocks.
FreshLayout(r) ==
  /\ r.len >= 0
  /\ Len(r.blocks) = (r.len + SectorSize - 1) \div SectorSize
  /\ IsInjective(r.blocks)
  /\ Range(r.blocks) \cap r.meta = {}
  /\ Held(r) \subseteq Sectors \ inuse

Create(f) ==
  /\ ~halted
  /\ file[f] = NoFile
  /\ file'[f] # NoFile
  /\ FreshLayout(file'[f])
  /\ inuse' = inuse \cup Held(file'[f])
  /\ \A g \in Files \ {f} : file'[g] = file[g]
  /\ UNCHANGED halted

Remove(f) ==
  /\ ~halted
  /\ file[f] # NoFile
  /\ file' = [file EXCEPT ![f] = NoFile]
  /\ inuse' = inuse \ Held(file[f])
  /\ UNCHANGED halted

Halt ==
  /\ ~halted
  /\ halted'
  /\ inuse' \subseteq Sectors
  /\ UNCHANGED file

Init ==
  /\ file = [f \in Files |-> NoFile]
  /\ inuse = Reserved
  /\ halted = FALSE

Next == Halt \/ \E f \in Files : Create(f) \/ Remove(f)

Spec == Init /\ [][Next]_vars

====
