---------------------------- MODULE MCInodeAlloc ----------------------------
(* 4-bit words, 4 words per unit: a unit is 16 bits, a sector 32, the   *)
(* bitmap block 64.  Two units of inodes; inodes 1..19 are in use, so    *)
(* first_free_inode (20) lies in the odd unit and 13 inodes are free.    *)
EXTENDS InodeAlloc

MCWordBits == 4
MCWordsPerUnit == 4
MCCounterMod == 64
MCNumInodes == 32
MCFirstIno == 20
=============================================================================
