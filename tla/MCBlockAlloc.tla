---------------------------- MODULE MCBlockAlloc ----------------------------
(* 4-bit words, 4 words per unit: a unit is 16 bits, a sector 32, the   *)
(* bitmap block 64.  Two units of blocks, so a hint can fall in either   *)
(* unit and the loop over later units runs.  mkfs filled unit 0 and used *)
(* blocks 18..29 of unit 1.                                               *)
EXTENDS BlockAlloc

MCWordBits == 4
MCWordsPerUnit == 4
MCCounterMod == 64
MCNumBlocks == 32
MCUsedBlocks == (0..15) \cup (18..29)
=============================================================================
