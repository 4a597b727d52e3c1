------------------------------- MODULE BlockMap -------------------------------
(***************************************************************************)
(* read_inode_data, write_inode_data and update_block of                   *)
(* src/src/filesystem.c on one inode whose blocks were laid out by ext2    *)
(* (mkfs, or any conforming driver): logical block n is in the direct      *)
(* pointer dbp[n], the singly, doubly or triply indirect tree, with         *)
(* block_size/2 32-bit pointers in a block of block_size 16-bit words.     *)
(* Pointer blocks are named by their place in the tree and data blocks by  *)
(* the logical block ext2 stored there; write_inode_data never changes a   *)
(* pointer, so the pointer blocks are constants.                            *)
(*                                                                          *)
(* std_buf holds one block (block_size words).  The code indexes it as a   *)
(* u_int32 array with indices up to block_size - 1, i.e. past its end, and *)
(* update_block writes up to ofs + length - 1 words into it: both reach    *)
(* the heap memory that follows std_buf.  That memory, as u_int32 slots    *)
(* block_size/2 .. block_size-1 of std_buf, is the variable beyond.        *)
(* filesystem_install allocates std_buf and then the group descriptor     *)
(* table, so that memory initially holds block addresses.                 *)
(***************************************************************************)
EXTENDS Integers, Sequences

CONSTANTS
  BlockWords,   \* block_size, in 16-bit words
  Zero,         \* the value of a word that was never written
  Vals,         \* the values callers write
  Offsets,      \* word offsets the callers pass
  Lens          \* lengths, in words, the callers pass

NDirect == 12                         \* dbp[0..11]
P == BlockWords \div 2                \* pointers per block
SingleEnd == NDirect + P
DoubleEnd == SingleEnd + P * P
TripleEnd == DoubleEnd + P * P * P
Words == 0..(BlockWords - 1)
Data(n) == <<"B", n>>                 \* where ext2 put logical block n
DataBlocks == {Data(n) : n \in 0..(TripleEnd - 1)}
BeyondSlots == P..(BlockWords - 1)
(* The block the u_int32 at slot s past std_buf names before any write:  *)
(* the heap there holds the group descriptor table, whose words name     *)
(* distinct blocks (the bitmaps, the inode table).                       *)
HeapBlock(s) == <<"Heap", s>>
Scribbled == <<"Scribbled">>          \* a block named by two words of file data
JunkBlocks == {HeapBlock(s) : s \in BeyondSlots} \cup {Scribbled}
MaxLen == CHOOSE l \in Lens : \A k \in Lens : k <= l
Tracked == {w \in 0..(TripleEnd * BlockWords - 1) :
              \E o \in Offsets : o <= w /\ w < o + MaxLen}

ASSUME /\ BlockWords % 2 = 0 /\ BlockWords >= 2
       /\ Zero \notin Vals
       /\ \A o \in Offsets : o \div BlockWords < TripleEnd
       /\ Lens \subseteq 1..BlockWords

(* The pointer blocks ext2 wrote (<<"S">>, <<"D">>, <<"D", i>>, <<"T">>, *)
(* <<"T", i>>, <<"T", i, j>>), and what slot i of pointer block b holds.  *)
RefPtr(b, i) ==
  CASE b = <<"S">>                    -> Data(NDirect + i)
    [] b = <<"D">>                    -> <<"D", i>>
    [] b = <<"T">>                    -> <<"T", i>>
    [] Len(b) = 2 /\ b[1] = "D"       -> Data(SingleEnd + b[2] * P + i)
    [] Len(b) = 2 /\ b[1] = "T"       -> <<"T", b[2], i>>
    [] Len(b) = 3                     -> Data(DoubleEnd + (b[2] * P + b[3]) * P + i)

VARIABLES
  disk,     \* contents of the data blocks (and of the junk blocks)
  beyond,   \* the u_int32 slots past the end of std_buf
  file      \* history: what each tracked word of the file was last written

vars == <<disk, beyond, file>>

(* Slot i of std_buf as a u_int32 array after readPIO of block b; a block *)
(* that is not a pointer block, read as one, yields garbage: itself.       *)
Slot(bv, b, i) ==
  IF i >= P THEN bv[i]
  ELSE IF b[1] \in {"S", "D", "T"} THEN RefPtr(b, i)
  ELSE b

(* The block read_inode_data and write_inode_data use for logical block n *)
(* (to_read / to_write): the code divides by block_size where a block     *)
(* holds block_size/2 pointers.                                            *)
CodeBlock(bv, n) ==
  LET m == n - NDirect
      d == m - P
      t == d - P * P
      dbsize == BlockWords * BlockWords
  IN CASE n < NDirect -> Data(n)
       [] m < P -> Slot(bv, <<"S">>, m)
       [] d < dbsize \div 4 ->
            Slot(bv, Slot(bv, <<"D">>, d \div BlockWords), d % BlockWords)
       [] OTHER ->
            Slot(bv, Slot(bv, Slot(bv, <<"T">>, t \div dbsize),
                              (t % dbsize) \div BlockWords),
                 t % BlockWords)

(* The words actually transferred: at most up to the end of the block.     *)
Width(off, len) ==
  LET room == BlockWords - (off % BlockWords) IN IF len > room THEN room ELSE len

(* read_inode_data(inode, buf, off, len): the words it copies into buf.   *)
ReadInodeData(off, len) ==
  LET b == CodeBlock(beyond, off \div BlockWords)
  IN [i \in 1..Width(off, len) |-> disk[b][(off % BlockWords) + i - 1]]

(* update_block(buf, ofs, length, b) with a buffer of value v: std_buf    *)
(* gets the block, positions ofs .. ofs+length-1 are set (those past the  *)
(* block land in the u_int32 slots beyond std_buf), the block is written. *)
UpdateBlock(ofs, length, b, v) ==
  LET hit == {pos \in ofs..(ofs + length - 1) : pos < BlockWords}
      spill == {pos \div 2 : pos \in {q \in ofs..(ofs + length - 1) : q >= BlockWords}}
  IN /\ disk' = [disk EXCEPT ![b] = [w \in Words |-> IF w \in hit THEN v ELSE @[w]]]
     /\ beyond' = [s \in BeyondSlots |-> IF s \in spill THEN Scribbled ELSE beyond[s]]

Init ==
  /\ disk = [b \in DataBlocks \cup JunkBlocks |-> [w \in Words |-> Zero]]
  /\ beyond = [s \in BeyondSlots |-> HeapBlock(s)]
  /\ file = [w \in Tracked |-> Zero]

(* write_inode_data(inode, buf, off, len) with a buffer of value v: it    *)
(* passes len, not the width it returns, to update_block.  The history    *)
(* records the width words the call reports written.                      *)
WriteInodeData(off, len, v) ==
  /\ UpdateBlock(off % BlockWords, len, CodeBlock(beyond, off \div BlockWords), v)
  /\ file' = [w \in Tracked |->
                IF off <= w /\ w < off + Width(off, len) THEN v ELSE file[w]]

Next == \E off \in Offsets, len \in Lens, v \in Vals : WriteInodeData(off, len, v)

Spec == Init /\ [][Next]_vars

-----------------------------------------------------------------------------
TypeOK ==
  /\ disk \in [DataBlocks \cup JunkBlocks -> [Words -> Vals \cup {Zero}]]
  /\ beyond \in [BeyondSlots -> JunkBlocks]
  /\ file \in [Tracked -> Vals \cup {Zero}]

(* Spec 8 round trip: after any sequence of write_inode_data calls, a     *)
(* read_inode_data of any written word returns the value last written    *)
(* there.                                                                  *)
RoundTrip == \A w \in Tracked : ReadInodeData(w, 1) = <<file[w]>>

=============================================================================
