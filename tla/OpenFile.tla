------------------------------- MODULE OpenFile -------------------------------
(***************************************************************************)
(* open_file and ls_dir of src/src/filesystem.c.  Both read the first      *)
(* block of a directory inode (read_inode_data(inode, std_buf, 0,          *)
(* block_size)) and walk its records {inode, size, name} from std_buf up   *)
(* to endpos = std_buf + 2*block_size bytes, i.e. the end of the block.    *)
(*                                                                          *)
(* Positions and record sizes are counted in record units: EndPos units    *)
(* make a block.  The disk is not written by these functions, so it is     *)
(* chosen once, in Init, among the first blocks the on-disk format allows  *)
(* (spec 3 "Directory entry"): records are contiguous from the start and   *)
(* either the last live record reaches the end of the block, or a record   *)
(* with inode 0 follows the live ones and reaches the end.                 *)
(*                                                                          *)
(* The path is given as the list str_split(str_path, '/', TRUE)->tail      *)
(* (str_split is not under src/): its components are names, and a path    *)
(* written with a trailing '/' ends in the empty component Empty.          *)
(***************************************************************************)
EXTENDS Integers, Sequences, SequencesExt

CONSTANTS
  Names,        \* the names that occur in directory records
  Empty,        \* the empty component (and the name of an unused record)
  Inos,         \* inode numbers of directories
  RootIno,      \* 2, the root directory
  EndPos,       \* record units in a block
  MaxEntries,   \* live records in a directory block, at most
  MaxDepth      \* components in a path, at most

ASSUME /\ Empty \notin Names /\ 0 \notin Inos /\ RootIno \in Inos
       /\ MaxEntries < EndPos

Rec(ino, sz, nm) == [inode |-> ino, size |-> sz, name |-> nm]

(* The first blocks allowed: n >= 1 live records (a directory holds at   *)
(* least "." and "..") of distinct names, of size 1 each, except that    *)
(* with no unused record after them the last one reaches the end of the  *)
(* block.                                                                  *)
LiveSeqs ==
  {l \in SeqOf([name : Names, inode : Inos], MaxEntries) :
     \A i, j \in 1..Len(l) : i # j => l[i].name # l[j].name}
Block(l, term) ==
  [k \in 1..Len(l) |->
     Rec(l[k].inode, IF ~term /\ k = Len(l) THEN EndPos - (k - 1) ELSE 1, l[k].name)]
  \o (IF term THEN <<Rec(0, EndPos - Len(l), Empty)>> ELSE <<>>)
Blocks ==
  {Block(l, term) : l \in {l \in LiveSeqs : Len(l) >= 1}, term \in BOOLEAN}

Paths ==
  {<<Empty>>}
  \cup {p \in SeqOf(Names, MaxDepth) : p # <<>>}
  \cup {p \o <<Empty>> : p \in {q \in SeqOf(Names, MaxDepth - 1) : q # <<>>}}

NoCall == -1                 \* no open_file call yet

VARIABLES
  disk,      \* first block of each directory inode, as a sequence of records
  path,      \* the path of the last call
  ret,       \* what the last open_file returned
  listing    \* the records the last ls_dir printed (name, inode)

vars == <<disk, path, ret, listing>>

(* The for loop and test of open_file: component a equals the record's   *)
(* name b of name_length bytes.  A name holds no NUL byte, so the empty   *)
(* component matches no record.                                            *)
Match(a, nm) == a # Empty /\ a = nm

(* The inner while loop of open_file on block recs for component a, from  *)
(* record k at position pos: it stops at an inode-0 record, at endpos, or *)
(* at a match (break).                                                     *)
RECURSIVE Walk(_, _, _, _)
Walk(recs, a, k, pos) ==
  IF pos >= EndPos \/ recs[k].inode = 0
    THEN [found |-> FALSE, pos |-> pos, inode |-> 0]
  ELSE IF Match(a, recs[k].name)
    THEN [found |-> TRUE, pos |-> pos, inode |-> recs[k].inode]
  ELSE Walk(recs, a, k + 1, pos + recs[k].size)

(* The outer while loop of open_file from directory inode on the rest of  *)
(* the path: it runs while the path has a tail or its head is not empty.  *)
(* Not found is reported only when the walk ended exactly at endpos; a    *)
(* walk stopped otherwise leaves inode as it was.                          *)
RECURSIVE Resolve(_, _, _)
Resolve(d, inode, p) ==
  IF Tail(p) = <<>> /\ Head(p) = Empty THEN inode
  ELSE LET w == Walk(d[inode], Head(p), 1, 0)
           next == IF w.found THEN w.inode ELSE inode
       IN IF w.pos = EndPos THEN 0
          ELSE IF Tail(p) = <<>> THEN next
          ELSE Resolve(d, next, Tail(p))

(* ls_dir's loop: every record from the start while its size is not 0    *)
(* and it starts before endpos, whatever its inode.                        *)
RECURSIVE LsFrom(_, _, _)
LsFrom(recs, k, pos) ==
  IF pos >= EndPos \/ recs[k].size = 0 THEN <<>>
  ELSE <<[name |-> recs[k].name, inode |-> recs[k].inode]>>
       \o LsFrom(recs, k + 1, pos + recs[k].size)

Init ==
  /\ disk \in [Inos -> Blocks]
  /\ path = <<>>
  /\ ret = NoCall
  /\ listing = <<>>

(* open_file(str_path).                                                    *)
OpenFile(p) ==
  /\ path' = p
  /\ ret' = Resolve(disk, RootIno, p)
  /\ UNCHANGED <<disk, listing>>

(* ls_dir(inode).                                                          *)
LsDir(i) ==
  /\ listing' = LsFrom(disk[i], 1, 0)
  /\ UNCHANGED <<disk, path, ret>>

Next == (\E p \in Paths : OpenFile(p)) \/ (\E i \in Inos : LsDir(i))

Spec == Init /\ [][Next]_vars

-----------------------------------------------------------------------------
(* Spec 3/4 reference: the live records of a block are those before the  *)
(* first inode-0 record; a component descends into the live record of    *)
(* that name, and an absent component gives 0.                             *)
Live(recs) ==
  LET z == SelectInSeq(recs, LAMBDA r : r.inode = 0)
  IN IF z = 0 THEN recs ELSE SubSeq(recs, 1, z - 1)

RECURSIVE Lookup(_, _, _)
Lookup(d, ino, p) ==
  IF p = <<>> \/ p = <<Empty>> THEN ino
  ELSE LET live == Live(d[ino])
           k == SelectInSeq(live, LAMBDA r : r.name = Head(p))
       IN IF k = 0 THEN 0 ELSE Lookup(d, live[k].inode, Tail(p))

TypeOK ==
  /\ disk \in [Inos -> Blocks]
  /\ ret \in Inos \cup {0, NoCall}
  /\ path \in Paths \cup {<<>>}

(* Spec 4 "Path resolution": open_file returns the inode of the last      *)
(* component, and 0 when a component is absent from its directory, for   *)
(* every first block the directory format allows.                          *)
ResolvesLikeLookup == ret # NoCall => ret = Lookup(disk, RootIno, path)

=============================================================================
