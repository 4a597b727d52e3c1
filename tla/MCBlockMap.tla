------------------------------ MODULE MCBlockMap ------------------------------
(* Blocks of 4 words (2 pointers each): logical blocks 12-13 singly, 14-17 *)
(* doubly and 18-25 triply indirect.  The offsets are word 2 of block 0   *)
(* (a 4-word write there crosses the block end), blocks 12, 14, 16 and 17  *)
(* (the code's second index 2 and 3 lies past two pointers) and triple    *)
(* blocks 18 and 20 (block 20 reads the same heap slot as block 16).     *)
EXTENDS BlockMap
CONSTANTS a, b, zero
MCBlockWords == 4
MCVals == {a, b}
MCOffsets == {2, 48, 56, 64, 68, 72, 80}
MCLens == {1, 4}
=============================================================================
