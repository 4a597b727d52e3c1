------------------------------ MODULE BlockAlloc -----------------------------
(***************************************************************************)
(* allocate_block and unallocate_block of src/src/filesystem.c on one     *)
(* block group: the block bitmap block on disk, the superblock's          *)
(* unalloc_block_num and the group descriptor's unalloc_block.  Each call *)
(* is one step (interrupts are off in the kernel).  heldBlocks is history: *)
(* how many times allocate_block returned a block not freed since.        *)
(***************************************************************************)
EXTENDS Ext2Bitmap

CONSTANTS
  NumBlocks,     \* spb->block_num
  UsedBlocks     \* blocks marked in the block bitmap by mkfs

Blocks == 0..(NumBlocks - 1)

ASSUME /\ NumBlocks % UnitBits = 0
       /\ NumBlocks \div UnitBits <= 2
       /\ UsedBlocks \subseteq Blocks

VARIABLES
  bbm,            \* the block bitmap block
  sbFreeBlocks,   \* spb->unalloc_block_num
  gdFreeBlocks,   \* bgpt[0].unalloc_block
  heldBlocks,
  panicked        \* throw() was called: the kernel has stopped

vars == <<bbm, sbFreeBlocks, gdFreeBlocks, heldBlocks, panicked>>

Init ==
  /\ bbm = UsedBlocks \cup (NumBlocks..(BitmapBits - 1))
  /\ sbFreeBlocks = NumBlocks - Cardinality(UsedBlocks)
  /\ gdFreeBlocks = NumBlocks - Cardinality(UsedBlocks)
  /\ heldBlocks = [b \in Blocks |-> 0]
  /\ panicked = FALSE

(* allocate_block(prec) as a function of the bitmap and counters.  The    *)
(* first loop reads sector k/2 and marks the bit it finds through        *)
(* update_or_bitmap; the loop over later units sets it in std_buf only.  *)
(* A miss restarts from block 0 (after a second decrement of the         *)
(* superblock counter), and a miss from block 0 throws.                  *)
RECURSIVE AllocBlock(_, _, _, _)
AllocBlock(bm, sb, gd, prec) ==
  IF sb = 0 THEN [bbm |-> bm, sb |-> sb, gd |-> gd, ret |-> 0, panic |-> FALSE]
  ELSE
    LET k == prec \div UnitBits
        i == StartWord(prec)
        j == StartBit(prec)
        here == IF gd # 0 THEN ScanCarry(bm, k \div 2, i, j) ELSE NotFound
        later == {kk \in (k + 1)..(NumBlocks \div UnitBits - 1) :
                    gd # 0 /\ ScanReset(bm, kk \div 2) # NotFound}
    IN CASE here # NotFound ->
              [bbm |-> UpdateOrBitmap(bm, k \div 2, here[1] + (k % 2) * OddUnitOffset,
                                      here[2]),
               sb |-> sb - 1, gd |-> gd - 1, ret |-> Found(k, here), panic |-> FALSE]
         [] later # {} ->
              [bbm |-> bm, sb |-> sb - 1, gd |-> gd - 1, panic |-> FALSE,
               ret |-> Found(Min(later), ScanReset(bm, Min(later) \div 2))]
         [] prec = 0 ->
              [bbm |-> bm, sb |-> sb - 1, gd |-> gd, ret |-> 0, panic |-> TRUE]
         [] OTHER -> AllocBlock(bm, sb - 1, gd, 0)

AllocateBlock(prec) ==
  LET r == AllocBlock(bbm, sbFreeBlocks, gdFreeBlocks, prec)
  IN /\ bbm' = r.bbm
     /\ sbFreeBlocks' = r.sb
     /\ gdFreeBlocks' = r.gd
     /\ panicked' = r.panic
     /\ heldBlocks' = IF r.ret # 0 THEN Give(heldBlocks, r.ret) ELSE heldBlocks

(* Mutant: the "not allocated" early return is missing.                  *)
UnallocateBlockUnchecked(b) ==
  /\ gdFreeBlocks' = Inc(gdFreeBlocks)
  /\ bbm' = bbm \ {FreeBit(b)}
  /\ heldBlocks' = TakeBack(heldBlocks, b)
  /\ UNCHANGED <<sbFreeBlocks, panicked>>

(* unallocate_block(b): returns 1 if the bit is clear; otherwise clears  *)
(* it and counts it in the group only, not in the superblock.            *)
UnallocateBlock(b) ==
  /\ FreeBit(b) \in bbm
  /\ gdFreeBlocks' = Inc(gdFreeBlocks)
  /\ bbm' = bbm \ {FreeBit(b)}
  /\ heldBlocks' = TakeBack(heldBlocks, b)
  /\ UNCHANGED <<sbFreeBlocks, panicked>>

UnallocateBlockRefused(b) ==
  /\ FreeBit(b) \notin bbm
  /\ UNCHANGED vars

(* Any call, with any hint, freeing any block mkfs did not use.  Nothing *)
(* runs once throw() has stopped the kernel.                              *)
Next ==
  /\ ~panicked
  /\ \/ \E p \in Blocks : AllocateBlock(p)
     \/ \E b \in Blocks \ UsedBlocks : UnallocateBlock(b) \/ UnallocateBlockRefused(b)

Spec == Init /\ [][Next]_vars

-----------------------------------------------------------------------------
TypeOK ==
  /\ bbm \subseteq Bits
  /\ {sbFreeBlocks, gdFreeBlocks} \subseteq 0..NumBlocks
  /\ heldBlocks \in [Blocks -> 0..2]
  /\ panicked \in BOOLEAN

(* allocate_block never hands out a block that is still held: a block is *)
(* returned again only after unallocate_block freed it.                  *)
NoDoubleBlockAllocation == \A b \in Blocks : heldBlocks[b] <= 1

(* Spec 4.E: allocate_block restarts from block 0 once and fails only if *)
(* the bitmap is still full: throw("Superblock corrupted, no free block  *)
(* found") is reached only when every block's bit is set.                *)
ThrowOnlyWhenFull == panicked => Blocks \subseteq bbm

=============================================================================
