---------------------------- MODULE MCFileHeader ----------------------------
(* Model-checking instance of FileHeader: 4-byte sectors of 1-byte words,  *)
(* so NumSectorInt = 4 and NumPointers = 2; levels hold up to 8, 32, 128    *)
(* and 512 bytes.  Two files with header sectors 0 and 1.                  *)
EXTENDS FileHeader, TLC

CONSTANTS f1, f2

MCFiles == {f1, f2}
MCHdrSector == f1 :> 0 @@ f2 :> 1
\* 0 bytes, the last Direct size (8), the first Single one (9), a Single
\* file with a partial last child (17), and a Double file (33).
MCFileSizes == {0, 8, 9, 17, 33}
\* A Triple file of 129 bytes (46 sectors: 33 data and 13 index,
\* an L2 block over three L1 blocks of 64, 64 and 1 bytes) beside an 8-byte file.
MCTripleSizes == {8, 129}

====
