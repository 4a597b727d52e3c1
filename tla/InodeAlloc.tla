------------------------------ MODULE InodeAlloc -----------------------------
(***************************************************************************)
(* allocate_inode and unallocate_inode of src/src/filesystem.c on one     *)
(* block group: the inode bitmap block on disk, the superblock's          *)
(* unalloc_inode_num and first_free_inode, and the group descriptor's     *)
(* unalloc_inode.  Each call is one step: the kernel runs it with         *)
(* interrupts off and nothing else touches the bitmap or std_buf.         *)
(* heldInodes is history: how many times allocate_inode returned an inode *)
(* that has not been freed since.                                         *)
(***************************************************************************)
EXTENDS Ext2Bitmap

CONSTANTS
  NumInodes,     \* spb->inode_num
  FirstIno       \* spb->first_free_inode as mkfs leaves it

Inodes == 1..NumInodes

ASSUME /\ NumInodes % UnitBits = 0
       \* the units the loops visit lie in the one bitmap block
       /\ NumInodes \div UnitBits <= 2
       /\ FirstIno \in Inodes

VARIABLES
  ibm,            \* the inode bitmap block (inode n is bit n-1)
  sbFreeInodes,   \* spb->unalloc_inode_num
  firstFreeInode, \* spb->first_free_inode
  gdFreeInodes,   \* bgpt[0].unalloc_inode
  heldInodes

vars == <<ibm, sbFreeInodes, firstFreeInode, gdFreeInodes, heldInodes>>

(* mkfs: inodes below FirstIno in use, the bits past the last inode set.  *)
Init ==
  /\ ibm = (0..(FirstIno - 2)) \cup (NumInodes..(BitmapBits - 1))
  /\ sbFreeInodes = NumInodes - (FirstIno - 1)
  /\ gdFreeInodes = NumInodes - (FirstIno - 1)
  /\ firstFreeInode = FirstIno
  /\ heldInodes = [n \in Inodes |-> 0]

(* allocate_inode: nothing free, or no first free inode known; returns 0. *)
AllocateInodeNone ==
  /\ sbFreeInodes = 0 \/ firstFreeInode = 0
  /\ UNCHANGED vars

(* Mutant: bgpt[..].unalloc_inode-- is missing.                          *)
AllocateInodeTakenNoGroup ==
  /\ sbFreeInodes # 0 /\ firstFreeInode # 0
  /\ LET ff == firstFreeInode
         k == ff \div UnitBits
         i == StartWord(ff)
         j == StartBit(ff)
         buf == UpdateOrBitmap(ibm, k \div 2, i + (k % 2) * OddUnitOffset, j)
         gd == gdFreeInodes
         here == IF gd = 0 THEN ScanCarry(buf, k \div 2, i, j + 1) ELSE NotFound
         later == {kk \in (k + 1)..(NumInodes \div UnitBits - 1) :
                     gd # 0 /\ ScanReset(buf, kk) # NotFound}
     IN /\ ibm' = buf
        /\ sbFreeInodes' = sbFreeInodes - 1
        /\ gdFreeInodes' = gd
        /\ firstFreeInode' =
             CASE here # NotFound -> Found(k, here)
               [] later # {} -> Found(Min(later), ScanReset(buf, Min(later)))
               [] OTHER -> 0
        /\ heldInodes' = Give(heldInodes, ff)

(* allocate_inode: mark first_free_inode (as bit first_free_inode), then *)
(* look for the next one.  The rest of its unit is scanned only when the *)
(* group has no free inode left; later units are read with readPIO at    *)
(* word k<<8, i.e. sector k.  Returns the old first_free_inode.           *)
AllocateInodeTaken ==
  /\ sbFreeInodes # 0 /\ firstFreeInode # 0
  /\ LET ff == firstFreeInode
         k == ff \div UnitBits
         i == StartWord(ff)
         j == StartBit(ff)
         buf == UpdateOrBitmap(ibm, k \div 2, i + (k % 2) * OddUnitOffset, j)
         gd == Dec(gdFreeInodes)
         here == IF gd = 0 THEN ScanCarry(buf, k \div 2, i, j + 1) ELSE NotFound
         later == {kk \in (k + 1)..(NumInodes \div UnitBits - 1) :
                     gd # 0 /\ ScanReset(buf, kk) # NotFound}
     IN /\ ibm' = buf
        /\ sbFreeInodes' = sbFreeInodes - 1
        /\ gdFreeInodes' = gd
        /\ firstFreeInode' =
             CASE here # NotFound -> Found(k, here)
               [] later # {} -> Found(Min(later), ScanReset(buf, Min(later)))
               [] OTHER -> 0
        /\ heldInodes' = Give(heldInodes, ff)

AllocateInode == AllocateInodeNone \/ AllocateInodeTaken

(* Mutant: the "not allocated" early return is missing.                  *)
UnallocateInodeUnchecked(n) ==
  /\ firstFreeInode' = IF n < firstFreeInode THEN n ELSE firstFreeInode
  /\ sbFreeInodes' = Inc(sbFreeInodes)
  /\ gdFreeInodes' = Inc(gdFreeInodes)
  /\ ibm' = ibm \ {FreeBit(n - 1)}
  /\ heldInodes' = TakeBack(heldInodes, n)

(* unallocate_inode(n): first_free_inode is lowered before the bit of    *)
(* inode n is looked at, so a refused free (returning 1) changes it too. *)
UnallocateInode(n) ==
  /\ firstFreeInode' = IF n < firstFreeInode THEN n ELSE firstFreeInode
  /\ \/ /\ FreeBit(n - 1) \notin ibm
        /\ UNCHANGED <<ibm, sbFreeInodes, gdFreeInodes, heldInodes>>
     \/ /\ FreeBit(n - 1) \in ibm
        /\ sbFreeInodes' = Inc(sbFreeInodes)
        /\ gdFreeInodes' = Inc(gdFreeInodes)
        /\ ibm' = ibm \ {FreeBit(n - 1)}
        /\ heldInodes' = TakeBack(heldInodes, n)

(* Any call, freeing any inode past the reserved ones.                   *)
Next ==
  \/ AllocateInode
  \/ \E n \in FirstIno..NumInodes : UnallocateInode(n)

Spec == Init /\ [][Next]_vars

-----------------------------------------------------------------------------
TypeOK ==
  /\ ibm \subseteq Bits
  /\ {sbFreeInodes, gdFreeInodes} \subseteq 0..NumInodes
  /\ firstFreeInode \in 0..NumInodes
  /\ heldInodes \in [Inodes -> 0..2]

=============================================================================
