------------------------- MODULE MCFileHeaderRefine -------------------------
(* The instances of MCFileHeader checked against the abstract file map.   *)
EXTENDS MCFileHeader

(***************************************************************************)
(* Refinement check.  The history variable absPrev holds the abstract     *)
(* image of the previous state, so that TLC evaluates the refinement      *)
(* mapping only on unprimed states: the abstract step of a transition     *)
(* s -> t is checked on the step leaving t, which every state has (Halt    *)
(* included).  The checked abstract behaviour is the image of the         *)
(* behaviour with one initial stuttering step.                             *)
(***************************************************************************)
VARIABLE absPrev

MCInit == Init /\ absPrev = AbsImage
MCNext == Next /\ absPrev' = AbsImage
MCSpec == MCInit /\ [][MCNext]_<<vars, absPrev>>
MCView == <<View, absPrev>>

FM == INSTANCE FileMap WITH
        file     <- absPrev[1],
        inuse    <- absPrev[2],
        halted   <- absPrev[3],
        Reserved <- Range(HdrSector)

\* FileHeader implements FileMap: across every interleaving of the files'
\* Allocate, WriteBack, FetchFrom, Deallocate and delete, a file's length
\* and block map change only by its own Allocate (which takes distinct,
\* previously free sectors) or Deallocate (which frees all of them); no
\* other file's WriteBack, reuse of freed sectors or FetchFrom alters it.
FileMapRefinement == FM!Spec

====
