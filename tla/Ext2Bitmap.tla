------------------------------ MODULE Ext2Bitmap -----------------------------
(***************************************************************************)
(* The bitmap geometry and the bitmap scans shared by the inode and block *)
(* allocators of the ext2 driver (src/src/filesystem.c).                  *)
(*                                                                         *)
(* A bitmap is the set of its bit positions that are 1.  Bit j of word w  *)
(* of sector s of the bitmap block is Pos(s, w, j).  The code's geometry  *)
(* is kept as constants and scaled down together: 16-bit words, 128 words *)
(* per 2048-bit "unit" k = x >> 11, 256 words per 512-byte sector.  The   *)
(* two places where the code writes 256 ((k%2)<<8 and the range of the    *)
(* u_int8 parameter of update_or_bitmap) stay twice the words per unit,   *)
(* and the 0xff every word is compared with stays "the low half set".    *)
(***************************************************************************)
EXTENDS Integers, FiniteSets, FiniteSetsExt

CONSTANTS
  WordBits,      \* bits per std_buf word (16)
  WordsPerUnit,  \* words scanned per unit k (128)
  CounterMod     \* the range of the u_int32 counters (2^32)

UnitBits == WordBits * WordsPerUnit          \* x >> 11 selects the unit
SectorWords == 2 * WordsPerUnit              \* 256 words per sector
OddUnitOffset == 2 * WordsPerUnit            \* (k % 2) << 8
U8Range == 2 * WordsPerUnit                  \* values of a u_int8 (256)
LowHalf == 0..(WordBits \div 2 - 1)          \* the bits of 0xff
BitmapBits == 2 * SectorWords * WordBits     \* one 1 KiB bitmap block
Bits == 0..(BitmapBits - 1)

ASSUME WordBits % 2 = 0 /\ WordsPerUnit >= 1

NotFound == <<>>

Pos(s, w, j) == (s * SectorWords + w) * WordBits + j

(* u_int32 decrement: 0 wraps to the largest value.                      *)
Dec(x) == (x - 1) % CounterMod
Inc(x) == x + 1

(* std_buf[w] != 0xff, for word w of sector s                             *)
NotByteFull(bm, s, w) == {j \in 0..(WordBits - 1) : Pos(s, w, j) \in bm} # LowHalf

(* The inlined first loops: from word i, bit j, of sector s; j is not     *)
(* reset between words, so after one word is scanned j stays at 16.      *)
RECURSIVE ScanCarry(_, _, _, _)
ScanCarry(bm, s, i, j) ==
  IF i >= WordsPerUnit THEN NotFound
  ELSE IF ~NotByteFull(bm, s, i) THEN ScanCarry(bm, s, i + 1, j)
  ELSE LET clear == {x \in j..(WordBits - 1) : Pos(s, i, x) \notin bm}
       IN IF clear # {} THEN <<i, Min(clear)>>
          ELSE ScanCarry(bm, s, i + 1, WordBits)

(* The loops over later units: words 0..127 of sector s, j from 0.        *)
ScanReset(bm, s) ==
  LET hits == {p \in 0..(UnitBits - 1) :
                 /\ NotByteFull(bm, s, p \div WordBits)
                 /\ Pos(s, p \div WordBits, p % WordBits) \notin bm}
  IN IF hits = {} THEN NotFound
     ELSE <<Min(hits) \div WordBits, Min(hits) % WordBits>>

(* (k<<11) + (i<<4) + j *)
Found(k, ij) == k * UnitBits + ij[1] * WordBits + ij[2]

(* A conversion to u_int8.  In the code the range of a u_int8 and the     *)
(* words of a sector are both 256; the scaled model keeps them equal.     *)
CastU8(x) == x % U8Range

(* The start of a scan from bit x of unit x >> 11: word                    *)
(* (u_int8)(x % 2048) >> 4 (the cast applies before the shift) and bit     *)
(* (u_int8)x % 16.                                                         *)
StartWord(x) == CastU8(x % UnitBits) \div WordBits
StartBit(x) == CastU8(x) % WordBits

(* update_or_bitmap(BLOCK(address) + k/2, word, 1<<j), word a u_int8      *)
UpdateOrBitmap(bm, s, word, j) == bm \cup {Pos(s, CastU8(word), j)}

(* The bit unallocate_inode and unallocate_block test and clear: word     *)
(* (x%2048)/16 of the first sector.                                       *)
FreeBit(x) == Pos(0, (x % UnitBits) \div WordBits, x % WordBits)

(* A handed-out count, kept at most 2: 2 already means "twice".          *)
Give(h, x) == IF x \in DOMAIN h THEN [h EXCEPT ![x] = IF @ < 2 THEN @ + 1 ELSE 2] ELSE h
TakeBack(h, x) == [h EXCEPT ![x] = IF @ > 0 THEN @ - 1 ELSE 0]

=============================================================================
